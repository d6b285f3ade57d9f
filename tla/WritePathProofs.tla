--------------------------- MODULE WritePathProofs ---------------------------
(***************************************************************************)
(* Proofs about the write path.  The hourly store: the revision ledger is  *)
(* complete under one sink, for any writers and documents.  The day-ahead  *)
(* prices written through it: the daily rows agree with the hourly store   *)
(* whenever no run is between its commits, for any days, hours, prices and *)
(* number of jobs of one process, however their fetches overlap and        *)
(* whatever the source restates.                                           *)
(***************************************************************************)
EXTENDS HourlyStore, DayAheadMC, FiniteSetTheorems, TLAPS

-----------------------------------------------------------------------------
(* Batches and what is computed from them *)

\* What the parts of a batch of upsert_hourly are.
LEMMA BatchParts ==
    ASSUME NEW b \in Batches
    PROVE  /\ b.series \in Series
           /\ b.zone \in Zones
           /\ HoursOf(b) \subseteq Hours
           /\ \A h \in HoursOf(b) : b.points[h] \in Values
<1>1. b.points \in Points
  BY DEF Batches
<1>2. PICK H \in SUBSET Hours : b.points \in [H -> Values]
  BY <1>1 DEF Points
<1>3. DOMAIN b.points = H
  BY <1>2
<1> QED
  BY <1>2, <1>3 DEF Batches, HoursOf

\* The `existing` dict of a batch read from a table (hourly_store.py:124-133).
LEMMA ValuesAtType ==
    ASSUME NEW b \in Batches, NEW t \in Table
    PROVE  /\ ValuesAt(t, b) \in Existing
           /\ DOMAIN ValuesAt(t, b) = HoursOf(b)
           /\ \A h \in HoursOf(b) : ValuesAt(t, b)[h] = t[b.series][b.zone][h]
<1>1. /\ DOMAIN ValuesAt(t, b) = HoursOf(b)
      /\ \A h \in HoursOf(b) : ValuesAt(t, b)[h] = t[b.series][b.zone][h]
  BY DEF ValuesAt
<1>2. ValuesAt(t, b) \in [HoursOf(b) -> Values \cup {NoRow}]
  BY BatchParts DEF ValuesAt, Table
<1>3. HoursOf(b) \in SUBSET Hours
  BY BatchParts
<1> QED
  BY <1>1, <1>2, <1>3 DEF Existing

\* The values in an `existing` dict.
LEMMA ExistingValues ==
    ASSUME NEW e \in Existing
    PROVE  \A h \in DOMAIN e : e[h] \in Values \cup {NoRow}
BY DEF Existing

\* Nothing read is an empty dict.
LEMMA NothingReadType == NothingRead \in Existing
<1>1. NothingRead \in [{} -> Values \cup {NoRow}]
  BY DEF NothingRead
<1> QED
  BY <1>1 DEF Existing

\* The revision rows _record_ledger inserts are rows of power_revision.
LEMMA RevisionRowsType ==
    ASSUME NEW b \in Batches, NEW e \in Existing, DOMAIN e = HoursOf(b),
           version \in Nat
    PROVE  RevisionRows(b, e) \subseteq RevisionType
<1> SUFFICES ASSUME NEW h \in MovedHours(b, e)
             PROVE  Revision(b, h, e[h], version) \in RevisionType
  BY DEF RevisionRows
<1>1. h \in HoursOf(b) /\ e[h] # NoRow
  BY DEF MovedHours
<1>2. e[h] \in Values
  BY <1>1, ExistingValues
<1> QED
  BY <1>1, <1>2, BatchParts DEF Revision, RevisionType

\* The counts of an arrival row are natural numbers.
LEMMA ArrivalType ==
    ASSUME NEW b \in Batches, NEW e
    PROVE  Arrival(b, e) \in Tally
<1>1. /\ NewHours(b, e) \subseteq Hours
      /\ MovedHours(b, e) \subseteq Hours
  BY BatchParts DEF NewHours, MovedHours
<1>2. /\ Cardinality(NewHours(b, e)) \in Nat
      /\ Cardinality(MovedHours(b, e)) \in Nat
  BY <1>1, ConstantAssumption, FS_Subset, FS_CardinalityType
<1> QED
  BY <1>2 DEF Arrival, Tally

\* Sums of arrival rows.
LEMMA PlusType ==
    ASSUME NEW a \in Tally, NEW b \in Tally
    PROVE  Plus(a, b) \in Tally
BY DEF Plus, Tally

\* An empty arrival log, an empty table.
LEMMA EmptyTypes == NoArrivals \in Tallies /\ EmptyTable \in Table
BY DEF NoArrivals, Tallies, Nothing, Tally, EmptyTable, Table

-----------------------------------------------------------------------------
(* Type correctness, with the transaction and call invariants it needs *)

IInv == TypeOK /\ TransactionInv /\ CallInv

\* The new table after a commit.
LEMMA OverwrittenType ==
    ASSUME NEW b \in Batches, NEW hs \in SUBSET HoursOf(b), store \in Table
    PROVE  Overwritten(b, hs) \in Table
<1>1. [h \in Hours |-> IF h \in hs THEN b.points[h]
                                   ELSE store[b.series][b.zone][h]]
        \in [Hours -> Values \cup {NoRow}]
  BY BatchParts DEF Table
<1> QED
  BY <1>1, BatchParts DEF Overwritten, Table

\* The session and connection state that rollback, close and exit leave.
LEMMA ResetsType ==
    ASSUME TypeOK, NEW w \in Writers, Resets(w)
    PROVE  /\ lock' \in Writers \cup {Free, Other}
           /\ tx' \in [Writers -> {"auto", "begun", "read", "write"}]
           /\ snap' \in [Writers -> [version : Nat, dims : SUBSET Keys, store : Table]]
           /\ newDims' \in [Writers -> SUBSET Keys]
           /\ newRevs' \in [Writers -> SUBSET RevisionType]
           /\ pending' \in [Writers -> Tallies]
           /\ written' \in [Writers -> SUBSET Hours]
BY EmptyTypes DEF TypeOK, Resets, NoSnapshot

\* The state of a call that is over.
LEMMA DoneType ==
    ASSUME TypeOK, NEW w \in Writers, Done(w)
    PROVE  /\ pc' \in [Writers -> Locations]
           /\ batch' \in [Writers -> Batches \cup {NoBatch}]
           /\ existing' \in [Writers -> Existing]
           /\ err' \in [Writers -> {"none", "locked", "integrity", "inactive"}]
           /\ attempts' \in [Writers -> 0 .. MaxAttempts - 1]
BY NothingReadType, ConstantAssumption DEF TypeOK, Done, Locations

\* Every action preserves TypeOK.
LEMMA TypeStep == IInv /\ [Next]_vars => TypeOK'
<1> SUFFICES ASSUME IInv, [Next]_vars PROVE TypeOK'
  OBVIOUS
<1> USE ConstantAssumption DEF IInv
<1>1. ASSUME NEW w \in Writers, Submit(w) PROVE TypeOK'
  BY <1>1 DEF TypeOK, Submit, disk, txn, Locations
<1>2. ASSUME NEW w \in Writers, LookupDim(w) PROVE TypeOK'
  BY <1>2 DEF TypeOK, LookupDim, Reads, Committed, disk, txn, Locations
<1>3. ASSUME NEW w \in Writers, LookupInactive(w) PROVE TypeOK'
  BY <1>3, NothingReadType DEF TypeOK, LookupInactive, Raises, disk, txn, Locations
<1>4. ASSUME NEW w \in Writers, CreateDim(w) PROVE TypeOK'
  <2>1. Key(w) \in Keys
    BY <1>4, BatchParts DEF CreateDim, CallInv, CallOK, InCall, Locations, Key, Keys, TypeOK
  <2> QED
    BY <1>4, <2>1, EmptyTypes
    DEF TypeOK, CreateDim, Locks, NoSnapshot, disk, txn, Locations
<1>5. ASSUME NEW w \in Writers, CreateDimFails(w) PROVE TypeOK'
  <2>1. PICK e \in {"locked", "integrity"} : FlushFails(w, e)
    BY <1>5 DEF CreateDimFails
  <2> QED
    BY <2>1, ResetsType, NothingReadType
    DEF TypeOK, FlushFails, Raises, disk, Locations
<1>6. ASSUME NEW w \in Writers, ReadExisting(w) PROVE TypeOK'
  <2>1. batch[w] \in Batches
    BY <1>6 DEF ReadExisting, CallInv, CallOK, InCall, Locations
  <2>2. View(w).store \in Table
    BY DEF View, Committed, TypeOK
  <2>3. ValuesAt(View(w).store, batch[w]) \in Existing
    BY <2>1, <2>2, ValuesAtType
  <2> QED
    BY <1>6, <2>3
    DEF TypeOK, ReadExisting, Reads, Committed, disk, txn, Locations
<1>7. ASSUME NEW w \in Writers, RecordLedger(w) PROVE TypeOK'
  <2>1. batch[w] \in Batches /\ DOMAIN existing[w] = HoursOf(batch[w])
    BY <1>7 DEF RecordLedger, CallInv, CallOK, InCall, Diffed, Locations
  <2>2. RevisionRows(batch[w], existing[w]) \subseteq RevisionType
    BY <2>1, RevisionRowsType DEF TypeOK
  <2>3. pending' \in [Writers -> Tallies]
    <3>1. Arrival(batch[w], existing[w]) \in Tally
      BY <2>1, ArrivalType
    <3>2. Plus(pending[w][batch[w].series][batch[w].zone],
               Arrival(batch[w], existing[w])) \in Tally
      BY <2>1, <3>1, PlusType, BatchParts DEF TypeOK, Tallies
    <3>3. [pending[w] EXCEPT ![batch[w].series][batch[w].zone] =
             Plus(@, Arrival(batch[w], existing[w]))] \in Tallies
      BY <2>1, <3>2, BatchParts DEF TypeOK, Tallies
    <3>4. pending' = [pending EXCEPT ![w] =
             [pending[w] EXCEPT ![batch[w].series][batch[w].zone] =
                Plus(@, Arrival(batch[w], existing[w]))]]
      BY <1>7, <2>1, BatchParts DEF RecordLedger, AddArrival, TypeOK, Tallies
    <3> QED
      BY <3>3, <3>4 DEF TypeOK
  <2>4. /\ newRevs' \in [Writers -> SUBSET RevisionType]
        /\ lock' \in Writers \cup {Free, Other}
        /\ tx' \in [Writers -> {"auto", "begun", "read", "write"}]
        /\ snap' \in [Writers -> [version : Nat, dims : SUBSET Keys, store : Table]]
    <3>1. CASE UNCHANGED <<lock, tx, snap, newRevs>>
      BY <3>1 DEF TypeOK
    <3>2. CASE /\ Locks(w)
               /\ newRevs' = [newRevs EXCEPT ![w] =
                                RevisionRows(batch[w], existing[w])]
      BY <2>2, <3>2, EmptyTypes DEF TypeOK, Locks, NoSnapshot
    <3> QED
      BY <1>7, <3>1, <3>2 DEF RecordLedger
  <2> QED
    BY <1>7, <2>3, <2>4 DEF TypeOK, RecordLedger, disk, Locations
<1>8. ASSUME NEW w \in Writers, ExecuteFails(w) PROVE TypeOK'
  BY <1>8, NothingReadType DEF TypeOK, ExecuteFails, Raises, disk, txn, Locations
<1>9. ASSUME NEW w \in Writers, UpsertChunk(w) PROVE TypeOK'
  <2>1. HoursOf(batch[w]) \subseteq Hours
    BY <1>9, BatchParts DEF UpsertChunk, CallInv, CallOK, InCall, Locations
  <2> QED
    BY <1>9, <2>1, EmptyTypes
    DEF TypeOK, UpsertChunk, Locks, NoSnapshot, disk, txn, Locations
<1>10. ASSUME NEW w \in Writers, Commit(w) PROVE TypeOK'
  <2>1. batch[w] \in Batches /\ written[w] \in SUBSET HoursOf(batch[w])
    BY <1>10 DEF Commit, CallInv, CallOK, InCall, Locations
  <2>2. store' \in Table
    BY <1>10, <2>1, OverwrittenType DEF Commit, TypeOK
  <2>3. arrivals' \in Tallies
    BY <1>10, PlusType DEF Commit, TypeOK, Tallies
  <2> QED
    BY <1>10, <2>2, <2>3, ResetsType, DoneType DEF TypeOK, Commit
<1>11. ASSUME NEW w \in Writers, CallerContinues(w) PROVE TypeOK'
  BY <1>11, DoneType DEF TypeOK, CallerContinues, disk, txn
<1>12. ASSUME NEW w \in Writers, CallerEnds(w) PROVE TypeOK'
  BY <1>12, DoneType, ResetsType DEF TypeOK, CallerEnds, disk
<1>13. ASSUME NEW w \in Writers, CallerRetries(w) PROVE TypeOK'
  BY <1>13 DEF TypeOK, CallerRetries, Retryable, disk, txn, Locations
<1>14. ASSUME NEW w \in Writers, CallerGivesUp(w) PROVE TypeOK'
  BY <1>14, DoneType, ResetsType DEF TypeOK, CallerGivesUp, disk
<1>15. ASSUME NEW w \in Writers, EndJob(w) PROVE TypeOK'
  BY <1>15, ResetsType DEF TypeOK, EndJob, disk
<1>16. ASSUME NEW w \in Writers, Crash(w) PROVE TypeOK'
  BY <1>16, DoneType, ResetsType DEF TypeOK, Crash, disk
<1>20. ASSUME NEW w \in Writers, ReturnEmpty(w) PROVE TypeOK'
  BY <1>20, DoneType DEF TypeOK, ReturnEmpty, disk, txn
<1>17. CASE OtherLocks
  BY <1>17 DEF TypeOK, OtherLocks, disk, txn
<1>18. CASE OtherCommits
  BY <1>18 DEF TypeOK, OtherCommits, txn
<1>19. CASE UNCHANGED vars
  BY <1>19 DEF TypeOK, vars, disk, txn
<1> QED
  BY <1>1, <1>2, <1>3, <1>4, <1>5, <1>6, <1>7, <1>8, <1>9, <1>10, <1>11,
     <1>12, <1>13, <1>14, <1>15, <1>16, <1>17, <1>18, <1>19, <1>20
  DEF Next, Upsert, Handle, RecordLedgerFails, UpsertChunkFails

\* Every action preserves TransactionInv.
LEMMA TransactionStep == IInv /\ [Next]_vars => TransactionInv'
<1> SUFFICES ASSUME IInv, [Next]_vars PROVE TransactionInv'
  OBVIOUS
<1> USE ConstantAssumption DEF IInv, TypeOK, TransactionInv
<1>1. ASSUME NEW w \in Writers, Resets(w) PROVE TransactionInv'
  BY <1>1 DEF Resets
<1>2. ASSUME NEW w \in Writers, Reads(w), UNCHANGED <<txn, lock>>
      PROVE  TransactionInv'
  BY <1>2 DEF Reads, txn
<1>3. ASSUME NEW w \in Writers, CreateDim(w) PROVE TransactionInv'
  BY <1>3 DEF CreateDim, Locks, CanWrite
<1>4. ASSUME NEW w \in Writers, RecordLedger(w) PROVE TransactionInv'
  <2>1. CASE UNCHANGED <<lock, tx, snap, newRevs>>
    BY <1>4, <2>1 DEF RecordLedger
  <2>2. CASE /\ Locks(w)
             /\ newRevs' = [newRevs EXCEPT ![w] =
                              RevisionRows(batch[w], existing[w])]
    BY <1>4, <2>2 DEF RecordLedger, Locks, CanWrite
  <2> QED
    BY <1>4, <2>1, <2>2 DEF RecordLedger
<1>5. ASSUME NEW w \in Writers, UpsertChunk(w) PROVE TransactionInv'
  BY <1>5 DEF UpsertChunk, Locks, CanWrite
<1>6. ASSUME NEW w \in Writers, ExecuteFails(w) PROVE TransactionInv'
  BY <1>6 DEF ExecuteFails, txn
<1>7. CASE OtherLocks
  BY <1>7 DEF OtherLocks, txn
<1>8. CASE OtherCommits
  BY <1>8 DEF OtherCommits, txn
<1>9. CASE UNCHANGED <<txn, lock, tx>>
  BY <1>9, SMTT(40) DEF txn
<1> QED
  BY <1>1, <1>2, <1>3, <1>4, <1>5, <1>6, <1>7, <1>8, <1>9
  DEF Next, Upsert, Handle, Submit, LookupDim, LookupInactive, CreateDimFails,
      FlushFails, ReturnEmpty, ReadExisting, RecordLedgerFails, UpsertChunkFails,
      Commit, CallerContinues, CallerEnds, CallerRetries, CallerGivesUp, EndJob,
      Crash, vars

\* Every action preserves CallInv.
LEMMA CallStep == IInv /\ [Next]_vars => CallInv'
<1> SUFFICES ASSUME IInv, [Next]_vars, NEW v \in Writers, CallOK(v)
             PROVE  CallOK(v)'
  BY DEF IInv, CallInv
<1> USE ConstantAssumption
    DEF IInv, TypeOK, TransactionInv, CallOK, InCall, Diffed, Locations, HoursOf
<1>1. ASSUME NEW w \in Writers, Submit(w) PROVE CallOK(v)'
  BY <1>1 DEF Submit, txn
<1>2. ASSUME NEW w \in Writers, LookupDim(w) PROVE CallOK(v)'
  BY <1>2 DEF LookupDim, txn
<1>3. ASSUME NEW w \in Writers, LookupInactive(w) PROVE CallOK(v)'
  BY <1>3 DEF LookupInactive, Raises, txn
<1>4. ASSUME NEW w \in Writers, CreateDim(w) PROVE CallOK(v)'
  <2>1. /\ pc[w] \in {"newseries", "newzone"} /\ pc'[w] \in {"zone", "ledger"}
        /\ lock \in {Free, w} /\ lock' = w /\ newDims'[w] # {}
        /\ \A u \in Writers \ {w} : pc'[u] = pc[u] /\ newDims'[u] = newDims[u]
        /\ UNCHANGED <<newRevs, written, batch, existing, session>>
    BY <1>4 DEF CreateDim, Locks, CanWrite
  <2> QED
    BY <2>1 DEF CallInv
<1>5. ASSUME NEW w \in Writers, NEW e, FlushFails(w, e),
             pc[w] \in {"newseries", "newzone"}
      PROVE  CallOK(v)'
  BY <1>5 DEF FlushFails, Raises, Resets
<1>6. ASSUME NEW w \in Writers, ReadExisting(w) PROVE CallOK(v)'
  BY <1>6 DEF ReadExisting, ValuesAt, txn
<1>7. ASSUME NEW w \in Writers, RecordLedger(w) PROVE CallOK(v)'
  <2>1. CASE UNCHANGED <<lock, tx, snap, newRevs>>
    BY <1>7, <2>1 DEF RecordLedger
  <2>2. CASE /\ Locks(w)
             /\ newRevs' = [newRevs EXCEPT ![w] =
                              RevisionRows(batch[w], existing[w])]
    BY <1>7, <2>2 DEF RecordLedger, Locks, CanWrite
  <2> QED
    BY <1>7, <2>1, <2>2 DEF RecordLedger
<1>8. ASSUME NEW w \in Writers, ExecuteFails(w),
             pc[w] \in {"revise", "chunks"}
      PROVE  CallOK(v)'
  <2>1. lock # w /\ written[w] = {} /\ newRevs[w] = {}
    BY <1>8 DEF ExecuteFails, CanFail, Stale
  <2> QED
    BY <1>8, <2>1 DEF ExecuteFails, Raises, txn
<1>9. ASSUME NEW w \in Writers, UpsertChunk(w) PROVE CallOK(v)'
  <2> DEFINE rest == HoursOf(batch[w]) \ written[w]
  <2>1. PICK c \in SUBSET rest :
          /\ written' = [written EXCEPT ![w] = @ \cup c]
          /\ pc' = [pc EXCEPT ![w] = IF c = rest THEN "commit" ELSE "chunks"]
    BY <1>9 DEF UpsertChunk
  <2>2. lock \in {Free, w} /\ lock' = w
    BY <1>9 DEF UpsertChunk, Locks, CanWrite
  <2>3. CASE v = w
    <3>1. written[w] \cup c \subseteq HoursOf(batch[w])
      BY <1>9, <2>1, <2>3 DEF UpsertChunk
    <3>2. c = rest => written[w] \cup c = HoursOf(batch[w])
      BY <3>1
    <3> QED
      BY <1>9, <2>1, <2>2, <2>3, <3>1, <3>2 DEF UpsertChunk
  <2>4. CASE v # w
    BY <1>9, <2>1, <2>2, <2>4 DEF UpsertChunk
  <2> QED
    BY <2>3, <2>4
<1>10. ASSUME NEW w \in Writers, Done(w), Resets(w),
              session' = session \/ session' = [session EXCEPT ![w] = "ok"]
       PROVE  CallOK(v)'
  BY <1>10 DEF Done, Resets
<1>11. ASSUME NEW w \in Writers, CallerContinues(w) PROVE CallOK(v)'
  BY <1>11 DEF CallerContinues, Done, txn
<1>17. ASSUME NEW w \in Writers, ReturnEmpty(w) PROVE CallOK(v)'
  BY <1>17 DEF ReturnEmpty, Done, txn
<1>12. ASSUME NEW w \in Writers, CallerRetries(w) PROVE CallOK(v)'
  BY <1>12 DEF CallerRetries, txn
<1>13. ASSUME NEW w \in Writers, EndJob(w) PROVE CallOK(v)'
  BY <1>13 DEF EndJob, Resets
<1>14. CASE OtherLocks
  BY <1>14 DEF OtherLocks, txn
<1>15. CASE OtherCommits
  BY <1>15 DEF OtherCommits, txn
<1>16. CASE UNCHANGED vars
  BY <1>16 DEF vars, txn
<1> QED
  BY <1>1, <1>2, <1>3, <1>4, <1>5, <1>6, <1>7, <1>8, <1>9, <1>10, <1>11,
     <1>12, <1>13, <1>14, <1>15, <1>16, <1>17
  DEF Next, Upsert, Handle, CreateDimFails, RecordLedgerFails,
      UpsertChunkFails, Commit, CallerEnds, CallerGivesUp, Crash

\* The initial state satisfies the invariant.
LEMMA InvInit == Init => IInv
<1> SUFFICES ASSUME Init PROVE IInv
  OBVIOUS
<1>1. TypeOK
  BY EmptyTypes, NothingReadType, ConstantAssumption
  DEF Init, TypeOK, Locations, NoSnapshot
<1>2. TransactionInv
  BY ConstantAssumption DEF Init, TransactionInv
<1>3. CallInv
  BY ConstantAssumption DEF Init, CallInv, CallOK, InCall, Diffed, Locations
<1> QED
  BY <1>1, <1>2, <1>3 DEF IInv

\* The transaction and call invariants are inductive with the types.
THEOREM Invariance == Spec => []IInv
<1>1. IInv /\ [Next]_vars => IInv'
  BY TypeStep, TransactionStep, CallStep DEF IInv
<1> QED
  BY InvInit, <1>1, PTL DEF Spec

\* Type correctness of the store, its transactions and its callers, for any
\* number of writers, batches and attempts.
THEOREM TypeCorrect == Spec => []TypeOK
<1>1. IInv => TypeOK
  BY DEF IInv
<1> QED
  BY Invariance, <1>1, PTL

\* A call of upsert_hourly that leaves its connection with the write lock is
\* that of an empty batch, and leaves dimension rows alone uncommitted
\* (NoLockAcrossCalls), for any number of writers and any error handling.
THEOREM LockReleased == Spec => NoLockAcrossCalls
<1>1. ASSUME IInv, [Next]_vars, NEW v \in Writers, Leaves(v), lock' = v
      PROVE  /\ HoursOf(batch[v]) = {} /\ pc'[v] = "idle"
             /\ newDims'[v] # {} /\ newRevs'[v] = {} /\ written'[v] = {}
  <2> USE ConstantAssumption
  <2>0. /\ pc \in [Writers -> Locations] /\ pc[v] \notin {"idle", "failed"}
        /\ pc'[v] \in {"idle", "failed"} /\ CallOK(v)
    BY <1>1 DEF IInv, TypeOK, CallInv, Leaves
  <2>1. ASSUME NEW w \in Writers, ReturnEmpty(w)
        PROVE  /\ HoursOf(batch[v]) = {} /\ pc'[v] = "idle"
               /\ newDims'[v] # {} /\ newRevs'[v] = {} /\ written'[v] = {}
    <3>1. w = v
      BY <2>0, <2>1 DEF ReturnEmpty, Done
    <3>2. /\ pc[v] = "ledger" /\ HoursOf(batch[v]) = {} /\ pc'[v] = "idle"
          /\ UNCHANGED <<newDims, newRevs, written, lock>>
      BY <2>0, <2>1, <3>1 DEF ReturnEmpty, Done, txn
    <3> QED
      BY <1>1, <2>0, <3>2 DEF CallOK
  <2>2. ASSUME NEW w \in Writers, Resets(w), \A u \in Writers \ {w} : pc'[u] = pc[u]
        PROVE  FALSE
    BY <1>1, <2>0, <2>2 DEF Resets
  <2>3. ASSUME NEW w \in Writers, NEW l, pc' = [pc EXCEPT ![w] = l],
               l \notin {"idle", "failed"} \/ pc[w] \in {"idle", "failed"}
        PROVE  FALSE
    BY <2>0, <2>3
  <2>4. ASSUME NEW w \in Writers, NEW e, Raises(w, e), lock # w, lock' = lock PROVE FALSE
    BY <1>1, <2>0, <2>4 DEF Raises
  <2>5. ASSUME NEW w \in Writers, Upsert(w), ~ReturnEmpty(w) PROVE FALSE
    <3>1. CASE LookupDim(w)
      BY <2>3, <3>1 DEF LookupDim
    <3>2. CASE LookupInactive(w)
      <4>1. lock # w
        BY <1>1, <3>2 DEF LookupInactive, IInv, CallInv, CallOK
      <4> QED
        BY <2>4, <3>2, <4>1 DEF LookupInactive
    <3>3. CASE CreateDim(w)
      BY <2>3, <3>3 DEF CreateDim
    <3>4. CASE CreateDimFails(w)
      <4>1. PICK e : FlushFails(w, e)
        BY <3>4 DEF CreateDimFails
      <4> QED
        BY <2>0, <2>2, <4>1 DEF FlushFails, Raises
    <3>5. CASE ReadExisting(w)
      BY <2>3, <3>5 DEF ReadExisting
    <3>6. CASE RecordLedger(w)
      BY <2>3, <3>6 DEF RecordLedger
    <3>7. CASE ExecuteFails(w)
      <4>1. lock # w
        BY <1>1, <3>7 DEF ExecuteFails, CanFail, Stale, IInv, TransactionInv
      <4> QED
        BY <2>4, <3>7, <4>1 DEF ExecuteFails
    <3>8. CASE UpsertChunk(w)
      BY <2>3, <3>8 DEF UpsertChunk
    <3>9. CASE Commit(w)
      BY <2>0, <2>2, <3>9 DEF Commit, Done
    <3> QED
      BY <2>5, <3>1, <3>2, <3>3, <3>4, <3>5, <3>6, <3>7, <3>8, <3>9
         DEF Upsert, RecordLedgerFails, UpsertChunkFails
  <2>6. ASSUME NEW w \in Writers, Handle(w) PROVE FALSE
    <3>1. pc[w] = "failed" /\ \A u \in Writers \ {w} : pc'[u] = pc[u]
      BY <2>0, <2>6 DEF Handle, CallerContinues, CallerEnds, CallerRetries, CallerGivesUp, Done
    <3> QED
      BY <2>0, <3>1
  <2>7. ASSUME NEW w \in Writers, Submit(w) \/ EndJob(w) PROVE FALSE
    <3>1. pc[w] = "idle" /\ \A u \in Writers \ {w} : pc'[u] = pc[u]
      BY <2>0, <2>7 DEF Submit, EndJob
    <3> QED
      BY <2>0, <3>1
  <2>8. ASSUME NEW w \in Writers, Crash(w) PROVE FALSE
    BY <2>0, <2>2, <2>8 DEF Crash, Done
  <2>9. CASE OtherLocks \/ OtherCommits \/ UNCHANGED vars
    BY <2>0, <2>9 DEF OtherLocks, OtherCommits, vars
  <2> QED
    BY <1>1, <2>1, <2>5, <2>6, <2>7, <2>8, <2>9 DEF Next
<1>2. IInv /\ [Next]_vars =>
        [\A w \in Writers : Leaves(w) /\ lock' = w =>
            /\ HoursOf(batch[w]) = {} /\ pc'[w] = "idle"
            /\ newDims'[w] # {} /\ newRevs'[w] = {} /\ written'[w] = {}]_vars
  BY <1>1
<1> QED
  BY Invariance, <1>2, PTL DEF Spec, NoLockAcrossCalls

-----------------------------------------------------------------------------
(* Referential integrity *)

\* Every action preserves the invariant on the dimension rows of a call.
LEMMA DimsStep == IInv /\ DimsInv /\ [Next]_vars => DimsInv'
<1> SUFFICES ASSUME IInv, DimsInv, [Next]_vars, NEW v \in Writers, DimsOK(v)
             PROVE  DimsOK(v)'
  BY DEF DimsInv
<1> USE ConstantAssumption DEF IInv, TypeOK, DimsOK, Resolved, Locations
<1>1. ASSUME NEW w \in Writers, Submit(w) PROVE DimsOK(v)'
  BY <1>1 DEF Submit, disk, txn
<1>2. ASSUME NEW w \in Writers, LookupDim(w) PROVE DimsOK(v)'
  <2>1. View(w).dims \subseteq dims
    BY DEF DimsInv, View, Committed
  <2>2. CASE pc[w] = "series"
    BY <1>2, <2>1, <2>2 DEF LookupDim, Reads, Committed, Key, Known, disk, txn
  <2>3. CASE pc[w] = "zone"
    BY <1>2, <2>1, <2>3 DEF LookupDim, Reads, Committed, Key, Known, disk, txn
  <2> QED
    BY <1>2, <2>2, <2>3 DEF LookupDim
<1>3. ASSUME NEW w \in Writers, NEW e, Raises(w, e), UNCHANGED <<disk, batch>>,
             UNCHANGED <<txn, snap>> \/ Resets(w)
      PROVE  DimsOK(v)'
  BY <1>3 DEF Raises, Resets, NoSnapshot, disk, txn
<1>4. ASSUME NEW w \in Writers, CreateDim(w) PROVE DimsOK(v)'
  BY <1>4 DEF CreateDim, Locks, NoSnapshot, Key, disk
<1>5. ASSUME NEW w \in Writers, ReadExisting(w) PROVE DimsOK(v)'
  BY <1>5 DEF ReadExisting, Reads, Committed, disk, txn
<1>6. ASSUME NEW w \in Writers, RecordLedger(w) PROVE DimsOK(v)'
  BY <1>6 DEF RecordLedger, Locks, NoSnapshot, disk
<1>7. ASSUME NEW w \in Writers, UpsertChunk(w) PROVE DimsOK(v)'
  BY <1>7 DEF UpsertChunk, Locks, NoSnapshot, disk
<1>8. ASSUME NEW w \in Writers, Done(w), dims \subseteq dims',
             UNCHANGED <<txn, snap>> \/ Resets(w)
      PROVE  DimsOK(v)'
  BY <1>8 DEF Done, Resets, NoSnapshot, txn
<1>9. ASSUME NEW w \in Writers, CallerRetries(w) PROVE DimsOK(v)'
  BY <1>9 DEF CallerRetries, disk, txn
<1>10. ASSUME NEW w \in Writers, EndJob(w) PROVE DimsOK(v)'
  BY <1>10 DEF EndJob, Resets, NoSnapshot, disk
<1>11. CASE OtherLocks \/ OtherCommits
  BY <1>11 DEF OtherLocks, OtherCommits, disk, txn
<1>12. CASE UNCHANGED vars
  BY <1>12 DEF vars, disk, txn
<1>13. ASSUME NEW w \in Writers, Upsert(w) PROVE DimsOK(v)'
  BY <1>2, <1>3, <1>4, <1>5, <1>6, <1>7, <1>8, <1>13
  DEF Upsert, LookupInactive, CreateDimFails, FlushFails, ReturnEmpty,
      RecordLedgerFails, UpsertChunkFails, ExecuteFails, Commit, disk
<1>14. ASSUME NEW w \in Writers, Handle(w) PROVE DimsOK(v)'
  BY <1>8, <1>9, <1>14
  DEF Handle, CallerContinues, CallerEnds, CallerGivesUp, disk
<1>15. ASSUME NEW w \in Writers, Crash(w) PROVE DimsOK(v)'
  BY <1>8, <1>15 DEF Crash, disk
<1> QED
  BY <1>1, <1>10, <1>11, <1>12, <1>13, <1>14, <1>15 DEF Next

\* A step leaves the table alone, or is the commit of a batch.
LEMMA TableStep ==
    ASSUME [Next]_vars
    PROVE  \/ UNCHANGED <<store, revisions, arrivals>> /\ dims' = dims
           \/ \E w \in Writers : Commit(w)
<1> DEFINE Same == UNCHANGED <<store, revisions, arrivals>> /\ dims' = dims
<1>1. ASSUME NEW w \in Writers, Submit(w) \/ EndJob(w) \/ Crash(w)
      PROVE  Same
  BY <1>1 DEF Submit, EndJob, Crash, disk
<1>2. ASSUME NEW w \in Writers, LookupDim(w) \/ LookupInactive(w) PROVE Same
  BY <1>2 DEF LookupDim, LookupInactive, disk
<1>3. ASSUME NEW w \in Writers, CreateDim(w) \/ CreateDimFails(w) PROVE Same
  BY <1>3 DEF CreateDim, CreateDimFails, FlushFails, disk
<1>4. ASSUME NEW w \in Writers, ReturnEmpty(w) \/ ReadExisting(w) PROVE Same
  BY <1>4 DEF ReturnEmpty, ReadExisting, disk
<1>5. ASSUME NEW w \in Writers, RecordLedger(w) \/ RecordLedgerFails(w)
      PROVE  Same
  BY <1>5 DEF RecordLedger, RecordLedgerFails, ExecuteFails, disk
<1>6. ASSUME NEW w \in Writers, UpsertChunk(w) \/ UpsertChunkFails(w)
      PROVE  Same
  BY <1>6 DEF UpsertChunk, UpsertChunkFails, ExecuteFails, disk
<1>7. ASSUME NEW w \in Writers, Handle(w) PROVE Same
  BY <1>7 DEF Handle, CallerContinues, CallerEnds, CallerRetries,
              CallerGivesUp, disk
<1>8. CASE OtherLocks \/ OtherCommits
  BY <1>8 DEF OtherLocks, OtherCommits, disk
<1>9. CASE UNCHANGED vars
  BY <1>9 DEF vars, disk
<1>10. ASSUME NEW w \in Writers, Upsert(w) PROVE Same \/ Commit(w)
  BY <1>2, <1>3, <1>4, <1>5, <1>6, <1>10 DEF Upsert
<1> QED
  BY <1>1, <1>7, <1>8, <1>9, <1>10 DEF Next

\* Where a commit changes the table: only at the batch's series, zone, hours.
LEMMA OverwrittenAt ==
    ASSUME store \in Table, NEW b \in Batches, NEW hs \in SUBSET Hours,
           NEW s \in Series, NEW z \in Zones, NEW h \in Hours
    PROVE  Overwritten(b, hs)[s][z][h] =
               IF s = b.series /\ z = b.zone /\ h \in hs
               THEN b.points[h] ELSE store[s][z][h]
BY BatchParts DEF Overwritten, Table

\* Every row of power_hourly refers to committed dimension rows, for any number
\* of writers, with any failures and crashes (DimsCoverRows).
THEOREM ReferentialIntegrity == Spec => []DimsCoverRows
<1> DEFINE J == IInv /\ DimsInv /\ DimsCoverRows
<1>1. Init => J
  <2> SUFFICES ASSUME Init PROVE DimsInv /\ DimsCoverRows
    BY InvInit
  <2>1. DimsInv
    BY DEF Init, DimsInv, DimsOK, NoSnapshot, Resolved
  <2>2. DimsCoverRows
    BY DEF Init, DimsCoverRows, EmptyTable
  <2> QED
    BY <2>1, <2>2
<1>2. J /\ [Next]_vars => J'
  <2> SUFFICES ASSUME J, [Next]_vars PROVE DimsCoverRows'
    BY DimsStep, TypeStep, TransactionStep, CallStep DEF IInv
  <2>1. CASE UNCHANGED <<store, revisions, arrivals>> /\ dims' = dims
    BY <2>1 DEF DimsCoverRows
  <2>2. ASSUME NEW w \in Writers, Commit(w) PROVE DimsCoverRows'
    <3> SUFFICES ASSUME NEW s \in Series, NEW z \in Zones, NEW h \in Hours,
                        store'[s][z][h] # NoRow
                 PROVE  s \in dims' /\ z \in dims'
      BY DEF DimsCoverRows
    <3>1. batch[w] \in Batches /\ written[w] \in SUBSET Hours /\ store \in Table
      BY <2>2 DEF Commit, IInv, TypeOK, CallInv, CallOK, InCall, Locations
    <3>2. batch[w].series \in dims' /\ batch[w].zone \in dims'
      BY <2>2 DEF Commit, DimsInv, DimsOK, Resolved
    <3>3. store[s][z][h] # NoRow => s \in dims' /\ z \in dims'
      BY <2>2 DEF Commit, DimsCoverRows
    <3> QED
      BY <2>2, <3>1, <3>2, <3>3, OverwrittenAt DEF Commit
  <2> QED
    BY <2>1, <2>2, TableStep
<1>3. J => DimsCoverRows
  OBVIOUS
<1> QED
  BY <1>1, <1>2, <1>3, PTL DEF Spec

-----------------------------------------------------------------------------
(* The revision ledger of a sole writer *)

\* upsert_hourly has one writer: the ingest process, no backfill beside it.
SoleWriter == \A u, v \in Writers : u = v

\* The revision rows of a batch do not depend on the version when there are
\* none.
LEMMA NoRevisionRows ==
    ASSUME NEW b, NEW e, RevisionRows(b, e) = {}
    PROVE  b.series \in Excluded \/ MovedHours(b, e) = {}
BY DEF RevisionRows

\* Every action of a sole writer preserves SoleInv.
LEMMA SoleStep ==
    ASSUME SoleWriter
    PROVE  IInv /\ SoleInv /\ [Next]_vars => SoleInv'
<1> SUFFICES ASSUME IInv, SoleInv, [Next]_vars, NEW v \in Writers, SoleOK(v)
             PROVE  SoleOK(v)'
  BY DEF SoleInv
<1>w. \A w \in Writers : w = v
  BY DEF SoleWriter
<1> USE ConstantAssumption DEF IInv, TypeOK, SoleOK, Diffed, Locations
<1>1. ASSUME Submit(v) PROVE SoleOK(v)'
  BY <1>1 DEF Submit, disk, txn
<1>2. ASSUME LookupDim(v) PROVE SoleOK(v)'
  BY <1>2 DEF LookupDim, Reads, Committed, disk, txn
<1>3. ASSUME NEW e, Raises(v, e), UNCHANGED disk,
             \/ UNCHANGED snap /\ (tx'[v] = "read" => tx[v] = "read")
             \/ Resets(v)
      PROVE  SoleOK(v)'
  BY <1>3 DEF Raises, Resets, disk
<1>4. ASSUME CreateDim(v) PROVE SoleOK(v)'
  BY <1>4 DEF CreateDim, Locks, disk
<1>5. ASSUME ReadExisting(v) PROVE SoleOK(v)'
  <2>1. View(v).store = store
    BY DEF View, Committed
  <2>2. existing'[v] = ValuesAt(store, batch[v])
    BY <1>5, <2>1 DEF ReadExisting
  <2>3. store' = store /\ batch' = batch /\ pc'[v] = "revise"
    BY <1>5 DEF ReadExisting, disk
  <2>4. tx'[v] = "read" => snap'[v].store = store
    BY <1>5 DEF ReadExisting, Reads, Committed
  <2> QED
    BY <2>2, <2>3, <2>4 DEF ValuesAt, HoursOf
<1>6. ASSUME RecordLedger(v) PROVE SoleOK(v)'
  <2> DEFINE rows == RevisionRows(batch[v], existing[v])
  <2>1. UNCHANGED <<store, version, batch, existing>> /\ pc'[v] = "chunks"
    BY <1>6 DEF RecordLedger, disk
  <2>2. newRevs'[v] = rows
    BY <1>6 DEF RecordLedger, CallInv, CallOK
  <2>3. existing[v] = ValuesAt(store, batch[v])
    BY <1>6 DEF RecordLedger
  <2>4. tx'[v] = "read" => tx[v] = "read" /\ snap'[v] = snap[v]
    BY <1>6 DEF RecordLedger, Locks
  <2>5. RevisionRows(batch[v], existing[v])' = rows
    BY <2>1 DEF RevisionRows, Revision, MovedHours, HoursOf
  <2>6. ValuesAt(store, batch[v])' = ValuesAt(store, batch[v])
    BY <2>1 DEF ValuesAt, HoursOf
  <2> QED
    BY <2>1, <2>2, <2>3, <2>4, <2>5, <2>6
<1>7. ASSUME UpsertChunk(v) PROVE SoleOK(v)'
  <2>1. /\ UNCHANGED <<store, version, batch, existing, newRevs>>
        /\ pc[v] = "chunks" /\ pc'[v] \in {"chunks", "commit"}
        /\ tx'[v] = "write"
    BY <1>7 DEF UpsertChunk, Locks, disk
  <2> QED
    BY <2>1 DEF RevisionRows, Revision, MovedHours, ValuesAt, HoursOf
<1>8. ASSUME Done(v), Resets(v) PROVE SoleOK(v)'
  BY <1>8 DEF Done, Resets
<1>9. ASSUME Done(v), UNCHANGED <<disk, tx, snap>> PROVE SoleOK(v)'
  BY <1>9 DEF Done, disk
<1>10. ASSUME CallerRetries(v) PROVE SoleOK(v)'
  BY <1>10 DEF CallerRetries, disk, txn
<1>11. ASSUME EndJob(v) PROVE SoleOK(v)'
  BY <1>11 DEF EndJob, Resets
<1>12. CASE OtherCommits
  <2>1. newRevs[v] = {}
    BY <1>12 DEF OtherCommits, TransactionInv
  <2>2. pc[v] \in {"chunks", "commit"} =>
           batch[v].series \in Excluded \/ MovedHours(batch[v], existing[v]) = {}
    BY <2>1, NoRevisionRows
  <2>3. UNCHANGED <<store, pc, batch, existing, tx, snap, newRevs>>
    BY <1>12 DEF OtherCommits, txn
  <2> QED
    BY <2>1, <2>2, <2>3 DEF RevisionRows, MovedHours, ValuesAt, HoursOf
<1>13. CASE UNCHANGED <<disk, txn, pc, batch, existing, tx, snap>>
  BY <1>13 DEF disk, txn, RevisionRows, Revision, MovedHours, ValuesAt, HoursOf
<1>14. ASSUME ExecuteFails(v) PROVE SoleOK(v)'
  BY <1>3, <1>14 DEF ExecuteFails
<1>15. ASSUME Upsert(v) PROVE SoleOK(v)'
  BY <1>2, <1>3, <1>4, <1>5, <1>6, <1>7, <1>8, <1>9, <1>14, <1>15
  DEF Upsert, ReturnEmpty, LookupInactive, CreateDimFails, FlushFails, RecordLedgerFails,
      UpsertChunkFails, Commit
<1>16. ASSUME Handle(v) PROVE SoleOK(v)'
  BY <1>8, <1>9, <1>10, <1>16
  DEF Handle, CallerContinues, CallerEnds, CallerGivesUp
<1> QED
  BY <1>w, <1>1, <1>8, <1>11, <1>12, <1>13, <1>15, <1>16
  DEF Next, Crash, OtherLocks, vars

\* A value does not move to itself.
LEMMA NotMoved == ASSUME NEW x \in Int PROVE ~Moved(x, x)
BY DEF Moved, Abs, REVISION_FLOOR

\* An unchanged table calls for no revision rows.
LEMMA NoLedger == ASSUME store \in Table PROVE LedgerOf(store, store) = {}
BY NotMoved, ConstantAssumption DEF LedgerOf

\* The rows inserted for a batch are those its commit calls for.
LEMMA CommitLedger ==
    ASSUME store \in Table, NEW b \in Batches
    PROVE  RevisionRows(b, ValuesAt(store, b)) =
               LedgerOf(store, Overwritten(b, HoursOf(b)))
<1> DEFINE ex == ValuesAt(store, b)
           t2 == Overwritten(b, HoursOf(b))
<1>1. \A h \in HoursOf(b) : /\ h \in Hours
                            /\ ex[h] = store[b.series][b.zone][h]
                            /\ ex[h] \in Values \cup {NoRow}
                            /\ b.points[h] \in Values
  BY BatchParts, ValuesAtType DEF Table
<1>2. \A s \in Series, z \in Zones, h \in Hours :
        t2[s][z][h] = IF s = b.series /\ z = b.zone /\ h \in HoursOf(b)
                      THEN b.points[h] ELSE store[s][z][h]
  BY BatchParts, OverwrittenAt
<1>3. ASSUME NEW r \in RevisionRows(b, ex) PROVE r \in LedgerOf(store, t2)
  <2>1. b.series \notin Excluded
    BY <1>3 DEF RevisionRows
  <2>2. PICK h \in MovedHours(b, ex) : r = Revision(b, h, ex[h], version)
    BY <2>1, <1>3 DEF RevisionRows
  <2>3. h \in HoursOf(b) /\ ex[h] \in Values /\ Moved(ex[h], b.points[h])
    BY <1>1 DEF MovedHours
  <2>4. t2[b.series][b.zone][h] = b.points[h]
    BY <1>1, <1>2, <2>3, BatchParts
  <2> QED
    BY <1>1, <2>1, <2>2, <2>3, <2>4, BatchParts DEF Revision, LedgerOf
<1>4. ASSUME NEW r \in LedgerOf(store, t2) PROVE r \in RevisionRows(b, ex)
  <2>1. /\ r.series \in Series \ Excluded /\ r.zone \in Zones /\ r.hour \in Hours
        /\ r.old \in Values
        /\ r.old = store[r.series][r.zone][r.hour]
        /\ r.new = t2[r.series][r.zone][r.hour]
        /\ Moved(r.old, r.new)
    BY <1>4 DEF LedgerOf
  <2>2. r = [series |-> r.series, zone |-> r.zone, hour |-> r.hour,
             old |-> r.old, new |-> r.new, at |-> version]
    BY <1>4 DEF LedgerOf
  <2>3. r.series = b.series /\ r.zone = b.zone /\ r.hour \in HoursOf(b)
    BY <1>2, <2>1, NotMoved, ConstantAssumption, ZenonT(60)
  <2>4. r.new = b.points[r.hour] /\ r.old = ex[r.hour]
    BY <1>1, <1>2, <2>1, <2>3
  <2>5. r.hour \in MovedHours(b, ex)
    BY <2>1, <2>3, <2>4, ConstantAssumption DEF MovedHours
  <2>6. r = Revision(b, r.hour, ex[r.hour], version)
    BY <2>2, <2>3, <2>4 DEF Revision
  <2> QED
    BY <2>1, <2>3, <2>5, <2>6 DEF RevisionRows
<1> QED
  BY <1>3, <1>4

\* With one writer, the revision ledger is exact: every commit adds exactly the
\* revisions of the change it makes, whatever other tables' writers, locked
\* databases, error handling and crashes do (LedgerExact).
THEOREM SoleWriterLedger == ASSUME SoleWriter PROVE Spec => LedgerExact
<1> DEFINE J == IInv /\ SoleInv
<1>1. Init => J
  BY InvInit DEF Init, SoleInv, SoleOK, Diffed
<1>2. J /\ [Next]_vars => J'
  BY SoleStep, TypeStep, TransactionStep, CallStep DEF IInv
<1>3. J /\ [Next]_vars => [revisions' = revisions \cup LedgerOf(store, store')]_vars
  <2> SUFFICES ASSUME J, [Next]_vars
               PROVE  revisions' = revisions \cup LedgerOf(store, store')
    OBVIOUS
  <2>1. CASE UNCHANGED <<store, revisions, arrivals>> /\ dims' = dims
    BY <2>1, NoLedger DEF IInv, TypeOK
  <2>2. ASSUME NEW w \in Writers, Commit(w)
        PROVE  revisions' = revisions \cup LedgerOf(store, store')
    <3>1. batch[w] \in Batches /\ written[w] = HoursOf(batch[w])
      BY <2>2 DEF Commit, IInv, CallInv, CallOK, InCall, Locations
    <3>2. newRevs[w] = RevisionRows(batch[w], ValuesAt(store, batch[w]))
      BY <2>2 DEF Commit, SoleInv, SoleOK, Diffed
    <3>3. store' = Overwritten(batch[w], HoursOf(batch[w]))
      BY <2>2, <3>1 DEF Commit
    <3>4. newRevs[w] = LedgerOf(store, store')
      BY <3>1, <3>2, <3>3, CommitLedger DEF IInv, TypeOK
    <3> QED
      BY <2>2, <3>4 DEF Commit
  <2> QED
    BY <2>1, <2>2, TableStep
<1> QED
  BY <1>1, <1>2, <1>3, PTL DEF Spec, LedgerExact

-----------------------------------------------------------------------------
(* A sole writer implements LedgerStore *)

\* The commit of a call that read what is stored is a Put of its batch.
LEMMA CommitPuts ==
    ASSUME IInv, SoleInv, NEW w \in Writers, Commit(w)
    PROVE  Ledger!LedgerNext
<1> DEFINE b == batch[w]
<1>1. b \in Batches /\ written[w] = HoursOf(b) /\ store \in Table
  BY DEF Commit, IInv, TypeOK, CallInv, CallOK, InCall, Locations
<1>2. newRevs[w] = RevisionRows(b, ValuesAt(store, b))
  BY DEF Commit, SoleInv, SoleOK, Diffed
<1>3. /\ b.series \in Series /\ b.zone \in Zones
      /\ HoursOf(b) \in (SUBSET Hours) \ {{}} /\ b.points \in [HoursOf(b) -> Values]
  <2>1. b.series \in Series /\ b.zone \in Zones /\ b.points \in Points
    BY <1>1 DEF Batches
  <2>2. PICK H \in SUBSET Hours : b.points \in [H -> Values]
    BY <2>1 DEF Points
  <2>3. HoursOf(b) = H
    BY <2>2 DEF HoursOf
  <2>4. HoursOf(b) # {}
    BY DEF Commit, IInv, CallInv, CallOK, Diffed
  <2> QED
    BY <2>1, <2>2, <2>3, <2>4
<1>4. store' = [store EXCEPT ![b.series][b.zone] =
                  [h \in Hours |-> IF h \in DOMAIN b.points THEN b.points[h] ELSE @[h]]]
  BY <1>1 DEF Commit, Overwritten, HoursOf
<1>5. MovedHours(b, ValuesAt(store, b)) = Ledger!Revised(b.series, b.zone, b.points)
  BY DEF MovedHours, ValuesAt, HoursOf, Ledger!Revised
<1>6. \A h \in MovedHours(b, ValuesAt(store, b)) :
         ValuesAt(store, b)[h] = store[b.series][b.zone][h]
  BY DEF MovedHours, ValuesAt
<1>7. RevisionRows(b, ValuesAt(store, b)) =
         IF b.series \in Excluded THEN {}
         ELSE {[series |-> b.series, zone |-> b.zone, hour |-> h,
                old |-> store[b.series][b.zone][h], new |-> b.points[h],
                at |-> version] : h \in Ledger!Revised(b.series, b.zone, b.points)}
  BY <1>5, <1>6, SMTT(40) DEF RevisionRows, Revision
<1>8. Ledger!Put(b.series, b.zone, b.points)
  BY <1>2, <1>4, <1>7 DEF Commit, Ledger!Put
<1> QED
  BY <1>3, <1>8 DEF Ledger!LedgerNext

\* A step that is not a commit of the writer leaves table and ledger alone; it
\* commits to another table or to none.
LEMMA ClockStep ==
    ASSUME IInv, [Next]_vars, \A w \in Writers : ~Commit(w)
    PROVE  version' = version \/ version' = version + 1
<1>1. ASSUME NEW w \in Writers, Upsert(w) PROVE version' = version
  <2>1. ASSUME NEW e, ExecuteFails(w) \/ FlushFails(w, e) PROVE version' = version
    BY <2>1 DEF ExecuteFails, FlushFails, disk
  <2>2. ASSUME LookupDim(w) \/ LookupInactive(w) \/ ReturnEmpty(w) \/ ReadExisting(w)
        PROVE  version' = version
    BY <2>2 DEF LookupDim, LookupInactive, ReturnEmpty, ReadExisting, disk
  <2>3. ASSUME CreateDim(w) \/ RecordLedger(w) \/ UpsertChunk(w) PROVE version' = version
    BY <2>3 DEF CreateDim, RecordLedger, UpsertChunk, disk
  <2> QED
    BY <1>1, <2>1, <2>2, <2>3
       DEF Upsert, CreateDimFails, RecordLedgerFails, UpsertChunkFails
<1>2. ASSUME NEW w \in Writers, Handle(w) PROVE version' = version
  BY <1>2 DEF Handle, CallerContinues, CallerEnds, CallerRetries,
              CallerGivesUp, disk
<1>3. ASSUME NEW w \in Writers, Submit(w) \/ EndJob(w) \/ Crash(w)
      PROVE  version' = version
  BY <1>3 DEF Submit, EndJob, Crash, disk
<1>4. CASE OtherLocks \/ OtherCommits
  BY <1>4 DEF OtherLocks, OtherCommits, disk
<1>5. CASE UNCHANGED vars
  BY <1>5 DEF vars, disk
<1> QED
  BY <1>1, <1>2, <1>3, <1>4, <1>5 DEF Next

\* upsert_hourly with one writer is the atomic store its readers are told of,
\* for all constants: lookups, chunks, locked databases, error handling and
\* crashes are stuttering steps, a commit is a Put (ImplementsLedgerStore).
THEOREM SoleWriterRefines == ASSUME SoleWriter PROVE Spec => ImplementsLedgerStore
<1> DEFINE J == IInv /\ SoleInv
<1>1. Init => J /\ Ledger!LedgerInit
  BY InvInit DEF Init, SoleInv, SoleOK, Diffed, Ledger!LedgerInit, EmptyTable
<1>2. J /\ [Next]_vars => J'
  BY SoleStep, TypeStep, TransactionStep, CallStep DEF IInv
<1>3. J /\ [Next]_vars => [Ledger!LedgerNext]_(Ledger!ledgerVars)
  <2> SUFFICES ASSUME J, [Next]_vars
               PROVE  Ledger!LedgerNext \/ UNCHANGED Ledger!ledgerVars
    OBVIOUS
  <2>1. CASE \E w \in Writers : Commit(w)
    BY <2>1, CommitPuts
  <2>2. CASE \A w \in Writers : ~Commit(w)
    <3>1. UNCHANGED <<store, revisions>>
      BY <2>2, TableStep
    <3> QED
      BY <2>2, <3>1, ClockStep
      DEF Ledger!LedgerNext, Ledger!Elsewhere, Ledger!ledgerVars
  <2> QED
    BY <2>1, <2>2
<1> QED
  BY <1>1, <1>2, <1>3, PTL DEF Spec, ImplementsLedgerStore, Ledger!LedgerSpec

-----------------------------------------------------------------------------
(* The arrival log of a sole writer whose job ends with an exception *)

\* An exception of upsert_hourly ends the job, and with it the session.
JobsEnd == \A w \in Writers : Policy[w] = "end"

\* The session's pending arrivals: that of the batch, once it is diffed and until
\* it is committed, and none before and after.
OneArrival(b, ex) == [NoArrivals EXCEPT ![b.series][b.zone] = Arrival(b, ex)]

PendingOK(w) ==
    /\ pc[w] \in {"chunks", "commit"} =>
           pending[w] = OneArrival(batch[w], existing[w])
    /\ pc[w] \notin {"chunks", "commit", "failed"} => pending[w] = NoArrivals

PendingInv == \A w \in Writers : PendingOK(w)

\* The revisions on record are finitely many and older than the next commit.
RevisionsOld ==
    /\ IsFiniteSet(revisions)
    /\ \A r \in revisions : r.at < version

\* A pending arrival added to none is the batch's alone.
LEMMA FirstArrival ==
    ASSUME NEW b \in Batches, NEW e
    PROVE  [NoArrivals EXCEPT ![b.series][b.zone] = Plus(@, Arrival(b, e))] =
               OneArrival(b, e)
<1>1. NoArrivals[b.series][b.zone] = Nothing
  BY BatchParts DEF NoArrivals
<1>2. Plus(Nothing, Arrival(b, e)) = Arrival(b, e)
  BY ArrivalType DEF Plus, Nothing, Arrival, Tally
<1>3. [NoArrivals EXCEPT ![b.series][b.zone] = Plus(@, Arrival(b, e))] =
      [NoArrivals EXCEPT ![b.series][b.zone] =
          Plus(NoArrivals[b.series][b.zone], Arrival(b, e))]
  OBVIOUS
<1> QED
  BY <1>1, <1>2, <1>3 DEF OneArrival

\* Every action preserves PendingInv when jobs end with their exception.
LEMMA PendingStep ==
    ASSUME JobsEnd
    PROVE  IInv /\ PendingInv /\ [Next]_vars => PendingInv'
<1> SUFFICES ASSUME IInv, PendingInv, [Next]_vars, NEW v \in Writers
             PROVE  PendingOK(v)'
  BY DEF PendingInv
<1>p. PendingOK(v)
  BY DEF PendingInv
<1> USE ConstantAssumption DEF IInv, TypeOK, Locations
<1>1. ASSUME pc'[v] = pc[v], batch'[v] = batch[v],
             existing'[v] = existing[v], pending'[v] = pending[v]
      PROVE  PendingOK(v)'
  BY <1>1, <1>p DEF PendingOK, OneArrival, Arrival, NewHours, MovedHours, HoursOf
<1>2. ASSUME NEW w \in Writers, Submit(w) PROVE PendingOK(v)'
  <2>1. CASE w = v
    BY <1>2, <1>p, <2>1 DEF Submit, txn, PendingOK
  <2> QED
    BY <1>1, <1>2, <2>1 DEF Submit, txn
<1>3. ASSUME NEW w \in Writers, LookupDim(w) PROVE PendingOK(v)'
  <2>1. CASE w = v
    BY <1>3, <1>p, <2>1 DEF LookupDim, txn, PendingOK
  <2> QED
    BY <1>1, <1>3, <2>1 DEF LookupDim, txn
<1>4. ASSUME NEW w \in Writers, NEW e, Raises(w, e), UNCHANGED batch,
             UNCHANGED pending \/ Resets(w)
      PROVE  PendingOK(v)'
  <2>1. CASE w = v
    BY <1>4, <2>1 DEF Raises, PendingOK
  <2> QED
    BY <1>1, <1>4, <2>1 DEF Raises, Resets
<1>5. ASSUME NEW w \in Writers, CreateDim(w) PROVE PendingOK(v)'
  <2>1. CASE w = v
    BY <1>5, <1>p, <2>1 DEF CreateDim, PendingOK
  <2> QED
    BY <1>1, <1>5, <2>1 DEF CreateDim
<1>6. ASSUME NEW w \in Writers, ReadExisting(w) PROVE PendingOK(v)'
  <2>1. CASE w = v
    BY <1>6, <1>p, <2>1 DEF ReadExisting, txn, PendingOK
  <2> QED
    BY <1>1, <1>6, <2>1 DEF ReadExisting, txn
<1>7. ASSUME NEW w \in Writers, RecordLedger(w) PROVE PendingOK(v)'
  <2>1. CASE w = v
    <3>1. /\ pc[v] = "revise" /\ pc'[v] = "chunks"
          /\ batch'[v] = batch[v] /\ existing'[v] = existing[v]
      BY <1>7, <2>1 DEF RecordLedger
    <3>2. pending[v] = NoArrivals /\ batch[v] \in Batches
      BY <1>p, <3>1 DEF PendingOK, CallInv, CallOK, InCall
    <3>3. pending'[v] = [pending[v] EXCEPT ![batch[v].series][batch[v].zone] =
                             Plus(@, Arrival(batch[v], existing[v]))]
      BY <1>7, <2>1 DEF RecordLedger, AddArrival
    <3>4. pending'[v] = OneArrival(batch[v], existing[v])
      BY <3>2, <3>3, FirstArrival
    <3> QED
      BY <3>1, <3>4 DEF PendingOK, OneArrival, Arrival, NewHours, MovedHours, HoursOf
  <2>2. CASE w # v
    BY <1>1, <1>7, <2>2 DEF RecordLedger, AddArrival
  <2> QED
    BY <2>1, <2>2
<1>8. ASSUME NEW w \in Writers, UpsertChunk(w) PROVE PendingOK(v)'
  <2>1. CASE w = v
    <3>1. /\ pc[v] = "chunks" /\ pc'[v] \in {"chunks", "commit"}
          /\ batch'[v] = batch[v] /\ existing'[v] = existing[v]
          /\ pending'[v] = pending[v]
      BY <1>8, <2>1 DEF UpsertChunk
    <3> QED
      BY <1>p, <3>1 DEF PendingOK, OneArrival, Arrival, NewHours, MovedHours, HoursOf
  <2> QED
    BY <1>1, <1>8, <2>1 DEF UpsertChunk
<1>9. ASSUME NEW w \in Writers, Done(w), Resets(w) PROVE PendingOK(v)'
  <2>1. CASE w = v
    BY <1>9, <2>1 DEF Done, Resets, PendingOK
  <2> QED
    BY <1>1, <1>9, <2>1 DEF Done, Resets
<1>10. ASSUME NEW w \in Writers, EndJob(w) PROVE PendingOK(v)'
  <2>1. CASE w = v
    BY <1>10, <2>1 DEF EndJob, Resets, PendingOK
  <2> QED
    BY <1>1, <1>10, <2>1 DEF EndJob, Resets
<1>11. CASE UNCHANGED <<pc, batch, existing, pending>>
  BY <1>1, <1>11
<1>12. ASSUME NEW w \in Writers, Handle(w) PROVE PendingOK(v)'
  <2>1. CallerEnds(w)
    BY <1>12 DEF JobsEnd, Handle, CallerContinues, CallerRetries, CallerGivesUp
  <2> QED
    BY <1>9, <2>1 DEF CallerEnds
<1>15. ASSUME NEW w \in Writers, ReturnEmpty(w) PROVE PendingOK(v)'
  <2>1. CASE w = v
    BY <1>15, <1>p, <2>1 DEF ReturnEmpty, Done, txn, PendingOK
  <2> QED
    BY <1>1, <1>15, <2>1 DEF ReturnEmpty, Done, txn
<1>13. ASSUME NEW w \in Writers, Upsert(w) PROVE PendingOK(v)'
  BY <1>3, <1>4, <1>5, <1>6, <1>7, <1>8, <1>9, <1>13, <1>15
  DEF Upsert, LookupInactive, CreateDimFails, FlushFails, RecordLedgerFails,
      UpsertChunkFails, ExecuteFails, Commit, txn
<1>14. OtherLocks \/ OtherCommits \/ UNCHANGED vars =>
          UNCHANGED <<pc, batch, existing, pending>>
  BY DEF OtherLocks, OtherCommits, vars, txn
<1> QED
  BY <1>2, <1>9, <1>10, <1>11, <1>12, <1>13, <1>14 DEF Next, Crash

\* As many revision rows are inserted as hours of the batch moved.
LEMMA RevisionRowsCounted ==
    ASSUME NEW b \in Batches, NEW e, b.series \notin Excluded
    PROVE  /\ IsFiniteSet(RevisionRows(b, e))
           /\ Cardinality(RevisionRows(b, e)) = Cardinality(MovedHours(b, e))
<1> DEFINE M == MovedHours(b, e)
           R == RevisionRows(b, e)
           f == [h \in M |-> Revision(b, h, e[h], version)]
<1>1. IsFiniteSet(M)
  BY BatchParts, FS_Subset, ConstantAssumption DEF MovedHours
<1>2. R = {Revision(b, h, e[h], version) : h \in M}
  BY DEF RevisionRows
<1>3. f \in [M -> R]
  BY <1>2
<1>4. \A g, h \in M : f[g] = f[h] => g = h
  BY DEF Revision
<1>5. \A r \in R : \E h \in M : f[h] = r
  BY <1>2
<1>6. f \in Bijection(M, R)
  BY <1>3, <1>4, <1>5 DEF Bijection, Injection, IsInjective, Surjection
<1>7. ExistsBijection(M, R)
  BY <1>6 DEF ExistsBijection
<1> QED
  BY <1>1, <1>7, FS_Bijection

\* A commit of the sole writer adds as many rows and revisions to the batch's
\* series and zone as its arrival counts.
LEMMA CommitTotals ==
    ASSUME IInv, SoleInv, PendingInv, RevisionsOld, ArrivalTotals,
           NEW w \in Writers, Commit(w)
    PROVE  ArrivalTotals' /\ RevisionsOld'
<1>b. PICK b : b = batch[w]
  OBVIOUS
<1>e. PICK ex : ex = ValuesAt(store, b)
  OBVIOUS
<1>1. /\ b \in Batches /\ written[w] = HoursOf(b) /\ store \in Table
      /\ arrivals \in Tallies /\ version \in Nat
      /\ revisions \subseteq RevisionType
  BY <1>b DEF Commit, IInv, TypeOK, CallInv, CallOK, InCall, Locations
<1>2. existing[w] = ex /\ newRevs[w] = RevisionRows(b, ex)
  BY <1>b, <1>e DEF Commit, SoleInv, SoleOK, Diffed
<1>3. pending[w] = OneArrival(b, ex)
  BY <1>b, <1>2 DEF Commit, PendingInv, PendingOK
<1>4. /\ store' = Overwritten(b, HoursOf(b))
      /\ revisions' = revisions \cup RevisionRows(b, ex)
      /\ version' = version + 1
      /\ arrivals' = [s \in Series |-> [z \in Zones |->
                          Plus(arrivals[s][z], OneArrival(b, ex)[s][z])]]
  BY <1>b, <1>1, <1>2, <1>3 DEF Commit
<1>5. \A h \in HoursOf(b) : /\ h \in Hours
                            /\ ex[h] = store[b.series][b.zone][h]
                            /\ b.points[h] \in Values
  BY <1>1, <1>e, BatchParts, ValuesAtType
<1>6. \A r \in RevisionRows(b, ex) :
         r.series = b.series /\ r.zone = b.zone /\ r.at = version
  BY DEF RevisionRows, Revision
<1>7. IsFiniteSet(RevisionRows(b, ex))
  <2>1. CASE b.series \in Excluded
    BY <2>1, FS_EmptySet DEF RevisionRows
  <2> QED
    BY <1>1, <2>1, RevisionRowsCounted
<1>8. RevisionsOld'
  <2>1. IsFiniteSet(revisions')
    BY <1>4, <1>7, FS_Union DEF RevisionsOld
  <2>2. ASSUME NEW r \in revisions' PROVE r.at < version'
    <3>1. CASE r \in revisions
      <4>1. r.at \in Nat /\ r.at < version
        BY <1>1, <3>1 DEF RevisionsOld, RevisionType
      <4> QED
        BY <1>1, <1>4, <4>1
    <3>2. CASE r \in RevisionRows(b, ex)
      BY <1>1, <1>4, <1>6, <3>2
    <3> QED
      BY <1>4, <2>2, <3>1, <3>2
  <2> QED
    BY <2>1, <2>2 DEF RevisionsOld
<1>9. ASSUME NEW s \in Series, NEW z \in Zones
      PROVE  /\ arrivals'[s][z].new = Cardinality(RowsOf(s, z)')
             /\ s \notin Excluded =>
                   arrivals'[s][z].changed = Cardinality(RevisionsOf(s, z)')
  <2>1. \A h \in Hours : store'[s][z][h] =
           IF s = b.series /\ z = b.zone /\ h \in HoursOf(b)
           THEN b.points[h] ELSE store[s][z][h]
    BY <1>1, <1>4, OverwrittenAt, BatchParts
  <2>2. /\ arrivals'[s][z] = Plus(arrivals[s][z], OneArrival(b, ex)[s][z])
        /\ arrivals[s][z] \in Tally
    BY <1>1, <1>4 DEF Tallies
  <2>3. /\ arrivals[s][z].new = Cardinality(RowsOf(s, z))
        /\ s \notin Excluded =>
              arrivals[s][z].changed = Cardinality(RevisionsOf(s, z))
    BY DEF ArrivalTotals
  <2>4. RevisionsOf(s, z)' = RevisionsOf(s, z) \cup
             {r \in RevisionRows(b, ex) : r.series = s /\ r.zone = z}
    BY <1>4 DEF RevisionsOf
  <2>5. IsFiniteSet(RowsOf(s, z)) /\ IsFiniteSet(RevisionsOf(s, z))
    BY FS_Subset, ConstantAssumption DEF RowsOf, RevisionsOf, RevisionsOld
  <2>6. CASE s = b.series /\ z = b.zone
    <3>1. OneArrival(b, ex)[s][z] = Arrival(b, ex) /\ Arrival(b, ex) \in Tally
      BY <1>1, <2>6, ArrivalType DEF OneArrival, NoArrivals
    <3>2. RowsOf(s, z)' = RowsOf(s, z) \cup NewHours(b, ex)
      BY <1>5, <2>1, <2>6, ConstantAssumption DEF RowsOf, NewHours
    <3>3. RowsOf(s, z) \cap NewHours(b, ex) = {}
      BY <1>5, <2>6 DEF RowsOf, NewHours
    <3>4. IsFiniteSet(NewHours(b, ex))
      BY <1>1, BatchParts, FS_Subset, ConstantAssumption DEF NewHours
    <3>5. Cardinality(RowsOf(s, z)') =
             Cardinality(RowsOf(s, z)) + Cardinality(NewHours(b, ex))
      <4>1. Cardinality(RowsOf(s, z) \cup NewHours(b, ex)) =
               Cardinality(RowsOf(s, z)) + Cardinality(NewHours(b, ex))
                 - Cardinality(RowsOf(s, z) \cap NewHours(b, ex))
        BY <2>5, <3>4, FS_Union
      <4>2. /\ Cardinality(RowsOf(s, z)) \in Nat
            /\ Cardinality(NewHours(b, ex)) \in Nat
        BY <2>5, <3>4, FS_CardinalityType
      <4>3. Cardinality(RowsOf(s, z) \cap NewHours(b, ex)) = 0
        BY <3>3, FS_EmptySet
      <4>4. Cardinality(RowsOf(s, z) \cup NewHours(b, ex)) =
               Cardinality(RowsOf(s, z)) + Cardinality(NewHours(b, ex))
        BY <4>1, <4>2, <4>3
      <4> QED
        BY <3>2, <4>4
    <3>6. ASSUME s \notin Excluded
          PROVE  Cardinality(RevisionsOf(s, z)') =
                    Cardinality(RevisionsOf(s, z)) + Cardinality(MovedHours(b, ex))
      <4>1. RevisionsOf(s, z)' = RevisionsOf(s, z) \cup RevisionRows(b, ex)
        BY <1>6, <2>4, <2>6
      <4>2. RevisionsOf(s, z) \cap RevisionRows(b, ex) = {}
        <5> SUFFICES ASSUME NEW r \in RevisionsOf(s, z), r \in RevisionRows(b, ex)
                     PROVE  FALSE
          OBVIOUS
        <5>1. r.at < version
          BY DEF RevisionsOf, RevisionsOld
        <5>2. r.at = version
          BY <1>6
        <5> QED
          BY <1>1, <5>1, <5>2
      <4>3. Cardinality(RevisionsOf(s, z) \cup RevisionRows(b, ex)) =
               Cardinality(RevisionsOf(s, z)) + Cardinality(RevisionRows(b, ex))
                 - Cardinality(RevisionsOf(s, z) \cap RevisionRows(b, ex))
        BY <1>7, <2>5, FS_Union
      <4>4. /\ Cardinality(RevisionsOf(s, z)) \in Nat
            /\ Cardinality(RevisionRows(b, ex)) \in Nat
        BY <1>7, <2>5, FS_CardinalityType
      <4>5. Cardinality(RevisionRows(b, ex)) = Cardinality(MovedHours(b, ex))
        BY <1>1, <2>6, <3>6, RevisionRowsCounted
      <4>6. Cardinality(RevisionsOf(s, z) \cap RevisionRows(b, ex)) = 0
        BY <4>2, FS_EmptySet
      <4>7. Cardinality(RevisionsOf(s, z) \cup RevisionRows(b, ex)) =
               Cardinality(RevisionsOf(s, z)) + Cardinality(RevisionRows(b, ex))
        BY <4>3, <4>4, <4>6
      <4> QED
        BY <4>1, <4>5, <4>7
    <3> QED
      BY <2>2, <2>3, <3>1, <3>5, <3>6 DEF Plus, Arrival
  <2>7. CASE ~(s = b.series /\ z = b.zone)
    <3>1. OneArrival(b, ex)[s][z] = Nothing
      BY <1>1, <2>7, BatchParts DEF OneArrival, NoArrivals
    <3>2. RowsOf(s, z)' = RowsOf(s, z)
      BY <2>1, <2>7 DEF RowsOf
    <3>3. RevisionsOf(s, z)' = RevisionsOf(s, z)
      BY <1>6, <2>4, <2>7
    <3> QED
      BY <2>2, <2>3, <3>1, <3>2, <3>3 DEF Plus, Nothing, Tally
  <2> QED
    BY <2>6, <2>7
<1> QED
  BY <1>8, <1>9 DEF ArrivalTotals

\* With one writer whose job ends with an exception of upsert_hourly, the
\* arrival log adds up, whatever locks, stale snapshots and crashes it meets:
\* n_new is the number of rows, n_changed that of the revisions (ArrivalTotals).
THEOREM SoleWriterArrivals ==
    ASSUME SoleWriter, JobsEnd PROVE Spec => []ArrivalTotals
<1> DEFINE J == IInv /\ SoleInv /\ PendingInv /\ RevisionsOld /\ ArrivalTotals
<1>1. Init => J
  <2> SUFFICES ASSUME Init PROVE PendingInv /\ RevisionsOld /\ ArrivalTotals
    BY InvInit DEF Init, SoleInv, SoleOK, Diffed
  <2>1. PendingInv
    BY DEF Init, PendingInv, PendingOK
  <2>2. RevisionsOld
    BY FS_EmptySet DEF Init, RevisionsOld
  <2>3. ASSUME NEW s \in Series, NEW z \in Zones
        PROVE  /\ arrivals[s][z].new = Cardinality(RowsOf(s, z))
               /\ arrivals[s][z].changed = Cardinality(RevisionsOf(s, z))
    <3>1. RowsOf(s, z) = {} /\ RevisionsOf(s, z) = {}
      BY DEF Init, RowsOf, RevisionsOf, EmptyTable
    <3>2. arrivals[s][z].new = 0 /\ arrivals[s][z].changed = 0
      BY DEF Init, NoArrivals, Nothing
    <3> QED
      BY <3>1, <3>2, FS_EmptySet
  <2> QED
    BY <2>1, <2>2, <2>3 DEF ArrivalTotals
<1>2. J /\ [Next]_vars => J'
  <2> SUFFICES ASSUME J, [Next]_vars PROVE RevisionsOld' /\ ArrivalTotals'
    BY SoleStep, PendingStep, TypeStep, TransactionStep, CallStep DEF IInv
  <2>1. CASE \E w \in Writers : Commit(w)
    BY <2>1, CommitTotals
  <2>2. CASE \A w \in Writers : ~Commit(w)
    <3>1. UNCHANGED <<store, revisions, arrivals>>
      BY <2>2, TableStep
    <3>2. ArrivalTotals'
      BY <3>1, ZenonT(60) DEF ArrivalTotals, RowsOf, RevisionsOf
    <3>3. RevisionsOld'
      <4>1. version' = version \/ version' = version + 1
        BY <2>2, ClockStep
      <4>2. version \in Nat /\ \A r \in revisions : r.at \in Nat
        BY DEF IInv, TypeOK, RevisionType
      <4> QED
        BY <3>1, <4>1, <4>2 DEF RevisionsOld
    <3> QED
      BY <3>2, <3>3
  <2> QED
    BY <2>1, <2>2
<1>3. J => ArrivalTotals
  OBVIOUS
<1> QED
  BY <1>1, <1>2, <1>3, PTL DEF Spec

-----------------------------------------------------------------------------
(* The inductive invariant *)

\* Between the hourly commit and the daily one, a run has days to bring in line.
Writing == {"means", "daily"}
Agrees(d) == daily[d] = Mean(hourly[d]) /\ DetailAgrees(d)

\* One run at most is past its fetch.
OneWriter == \A j, k \in Jobs : j # k => stage[j] \in Waiting \/ stage[k] \in Waiting

\* Only the days of the document being written may disagree.
OthersAgree ==
    \A d \in Days :
        (\A j \in Jobs : stage[j] \in Writing => d \notin DocDays(j)) => Agrees(d)

\* The hours of the document being written are stored.
DocumentStored ==
    \A j \in Jobs : stage[j] \in Writing =>
        \A d \in Days, h \in DayHours :
            doc[j][d][h] # NoPrice => hourly[d][h] = doc[j][d][h]

\* What the run read to write the daily rows is still so.
ReadsCurrent ==
    \A j \in Jobs : stage[j] = "daily" =>
        /\ \A d \in DocDays(j) : means[j][d] = Mean(hourly[d])
        /\ seen[j] = {d \in Days : daily[d] # NoMean}

AppInv == OneWriter /\ OthersAgree /\ DocumentStored /\ ReadsCurrent

\* The jobs that are at work are those of one process.
Together ==
    \A j, k \in Jobs : stage[j] # "idle" /\ stage[k] # "idle" => Process[j] = Process[k]

-----------------------------------------------------------------------------
(* Means and documents *)

\* A day without hours has no mean.
LEMMA EmptyMean == Empty \in Curves /\ Mean(Empty) = NoMean /\ NoMean \in Means
<1>1. Empty \in Curves
  BY DEF Empty, Curves
<1>2. Priced(Empty) = {}
  BY DEF Priced, Empty
<1>3. Mean(Empty) = NoMean
  BY <1>2 DEF Mean
<1> QED
  BY <1>1, <1>3 DEF Means

\* A curve has a mean.
LEMMA MeanType == ASSUME NEW c \in Curves PROVE Mean(c) \in Means
BY DEF Means

\* An upsert of a document: a document whose hours are the new ones, where there
\* is one, and which keeps the days the new one has nothing for.
LEMMA Merged ==
    ASSUME NEW old \in Docs, NEW new \in Docs
    PROVE  /\ Merge(old, new) \in Docs
           /\ \A d \in Days, h \in DayHours :
                 new[d][h] # NoPrice => Merge(old, new)[d][h] = new[d][h]
           /\ \A d \in Days : Priced(new[d]) = {} => Merge(old, new)[d] = old[d]
<1>1. PICK m : m = Merge(old, new)
  OBVIOUS
<1>2. \A d \in Days : m[d] = [h \in DayHours |->
                           IF new[d][h] # NoPrice THEN new[d][h] ELSE old[d][h]]
  BY <1>1 DEF Merge
<1>3. m \in Docs
  <2>1. ASSUME NEW d \in Days PROVE m[d] \in Curves
    <3>1. old[d] \in Curves /\ new[d] \in Curves
      BY DEF Docs
    <3>2. PICK o, n : o = old[d] /\ n = new[d]
      OBVIOUS
    <3>3. m[d] = [h \in DayHours |-> IF n[h] # NoPrice THEN n[h] ELSE o[h]]
      BY <1>2, <3>2
    <3> QED
      BY <3>1, <3>2, <3>3 DEF Curves
  <2>2. m = [d \in Days |-> m[d]]
    BY <1>1 DEF Merge
  <2> QED
    BY <2>1, <2>2 DEF Docs
<1>4. ASSUME NEW d \in Days, Priced(new[d]) = {} PROVE m[d] = old[d]
  <2>1. \A h \in DayHours : m[d][h] = old[d][h]
    BY <1>2, <1>4, ZenonT(60) DEF Priced
  <2>2. m[d] \in Curves /\ old[d] \in Curves
    BY <1>3 DEF Docs
  <2> QED
    BY <2>1, <2>2 DEF Curves
<1> QED
  BY <1>1, <1>2, <1>3, <1>4, ZenonT(60)

\* What a run keeps of a document is a document.
LEMMA Kept ==
    ASSUME NEW days, NEW document \in Docs
    PROVE  /\ Only(days, document) \in Docs
           /\ \A d \in Days : Only(days, document)[d] = IF d \in days THEN document[d] ELSE Empty
BY EmptyMean DEF Only, Docs

-----------------------------------------------------------------------------
(* Types *)

\* The end of a run leaves its variables with their types.
LEMMA EndsTypes ==
    ASSUME DayAheadAssumption, DayAheadTypeOK, NEW j \in Jobs, Ends(j)
    PROVE  /\ stage' \in [Jobs -> Waiting \cup {"hourly", "means", "daily", "quarter"}]
           /\ wanted' \in [Jobs -> SUBSET Days]
           /\ doc' \in [Jobs -> Docs \cup {NoDoc}]
           /\ \A k \in Jobs : doc'[k] = NoDoc <=> stage'[k] \in {"idle", "fetch"}
           /\ means' \in [Jobs -> [Days -> Means]]
           /\ seen' \in [Jobs -> SUBSET Days]
<1>1. means' \in [Jobs -> [Days -> Means]]
  BY EmptyMean DEF DayAheadTypeOK, Ends
<1> QED
  BY <1>1 DEF DayAheadTypeOK, Ends, Goto, Waiting

\* Every step keeps the types.
LEMMA DayAheadTypeStep == ASSUME DayAheadAssumption, DayAheadTypeOK, DayAheadNext PROVE DayAheadTypeOK'
<1>0. /\ published \in Docs /\ hourly \in Docs /\ quarter \in Docs /\ detail \in Docs
      /\ \A j \in Jobs : stage[j] \notin {"idle", "fetch"} => doc[j] \in Docs
  BY DEF DayAheadTypeOK
<1>a. MaxFaults \in Nat /\ MaxPublish \in Nat /\ NoDoc \notin Docs
  BY DEF DayAheadAssumption, Docs
<1>1. CASE Publish
  <2>1. published' \in Docs /\ publications' \in 0 .. MaxPublish
    BY <1>1, <1>a DEF DayAheadTypeOK, Publish, Docs
  <2> QED
    BY <1>1, <2>1 DEF Publish, DayAheadTypeOK, tables, local
<1>13. CASE Tick
  <2>1. today' \in 0 .. LastDay
    BY <1>13 DEF Tick, DayAheadTypeOK, DayAheadAssumption
  <2> QED
    BY <1>13, <2>1 DEF Tick, DayAheadTypeOK, tables, local
<1>2. ASSUME NEW j \in Jobs, Start(j) PROVE DayAheadTypeOK'
  <2>1. PICK W \in SUBSET Days :
          /\ wanted' = [wanted EXCEPT ![j] = W]
          /\ IF UsesCache(j)
             THEN doc' = [doc EXCEPT ![j] = Only(W, cache)] /\ Goto(j, "hourly")
             ELSE Goto(j, "fetch") /\ UNCHANGED doc
    BY <1>2 DEF Start, Asks
  <2>2. wanted' \in [Jobs -> SUBSET Days] /\ UNCHANGED <<published, cache, tables, today, means, seen,
          publications, faults>> /\ stage[j] = "idle"
    BY <1>2, <2>1 DEF Start, DayAheadTypeOK
  <2>3. CASE UsesCache(j)
    <3>1. cache \in Docs
      BY <2>3 DEF UsesCache, DayAheadTypeOK
    <3>2. PICK n \in Docs : n = Only(W, cache)
      BY <3>1, Kept
    <3>3. doc' = [doc EXCEPT ![j] = n] /\ stage' = [stage EXCEPT ![j] = "hourly"]
      BY <2>1, <2>3, <3>2 DEF Goto
    <3>4. /\ doc' \in [Jobs -> Docs \cup {NoDoc}]
          /\ \A k \in Jobs : doc'[k] = NoDoc <=> stage'[k] \in {"idle", "fetch"}
      BY <1>a, <3>3 DEF DayAheadTypeOK
    <3> QED
      BY <2>2, <3>3, <3>4 DEF DayAheadTypeOK, tables, Waiting
  <2>4. CASE ~UsesCache(j)
    BY <2>1, <2>2, <2>4 DEF Goto, DayAheadTypeOK, tables, Waiting
  <2> QED
    BY <2>3, <2>4
<1>3. ASSUME NEW j \in Jobs, Answer(j) PROVE DayAheadTypeOK'
  BY <1>3, <1>0, <1>a DEF Answer, Goto, DayAheadTypeOK, tables, Waiting
<1>4. ASSUME NEW j \in Jobs, HttpFails(j) PROVE DayAheadTypeOK'
  BY <1>4, EndsTypes DEF HttpFails, DayAheadTypeOK, tables
<1>5. ASSUME NEW j \in Jobs, Resume(j) PROVE DayAheadTypeOK'
  <2>1. cache' \in Docs \cup {NoDoc}
    BY <1>5, <1>0 DEF Resume, DayAheadTypeOK, Waiting
  <2>2. PICK n \in Docs : n = Only(wanted[j], doc[j])
    BY <1>5, <1>0, Kept DEF Resume
  <2> QED
    BY <1>5, <1>a, <2>1, <2>2 DEF Resume, Goto, DayAheadTypeOK, tables, Waiting
<1>6. ASSUME NEW j \in Jobs, WriteHourly(j) PROVE DayAheadTypeOK'
  <2>1. hourly' \in Docs
    BY <1>6, <1>0, Merged DEF WriteHourly
  <2> QED
    BY <1>6, <2>1 DEF WriteHourly, Goto, DayAheadTypeOK, local, Waiting
<1>7. ASSUME NEW j \in Jobs, ReadMeans(j) PROVE DayAheadTypeOK'
  <2>1. \A d \in Days : Mean(hourly[d]) \in Means
    BY <1>0, MeanType DEF Docs
  <2>2. PICK m : m = [d \in Days |-> IF d \in DocDays(j) THEN CanonicalMean(j, d) ELSE NoMean]
    OBVIOUS
  <2>3. m \in [Days -> Means]
    BY <2>1, <2>2, EmptyMean DEF CanonicalMean
  <2>4. means' = [means EXCEPT ![j] = m]
    BY <1>7, <2>2 DEF ReadMeans
  <2>5. means' \in [Jobs -> [Days -> Means]] /\ seen' \in [Jobs -> SUBSET Days]
    BY <1>7, <2>3, <2>4 DEF ReadMeans, DayAheadTypeOK
  <2> QED
    BY <1>7, <2>5 DEF ReadMeans, Goto, DayAheadTypeOK, tables, Waiting
<1>8. ASSUME NEW j \in Jobs, WriteDaily(j) PROVE DayAheadTypeOK'
  <2>1. doc[j] \in Docs
    BY <1>8, <1>0 DEF WriteDaily
  <2>2. daily' \in [Days -> Means]
    BY <1>8 DEF WriteDaily, DayAheadTypeOK
  <2>3. detail' \in Docs
    BY <1>8, <1>0, <2>1 DEF WriteDaily, Docs
  <2> QED
    BY <1>8, <2>2, <2>3 DEF WriteDaily, Goto, DayAheadTypeOK, local, Waiting
<1>9. ASSUME NEW j \in Jobs, DailyClashes(j) PROVE DayAheadTypeOK'
  BY <1>9, EndsTypes DEF DailyClashes, DayAheadTypeOK, tables
<1>10. ASSUME NEW j \in Jobs, WriteQuarter(j) PROVE DayAheadTypeOK'
  <2>1. quarter' \in Docs
    BY <1>10, <1>0, Merged DEF WriteQuarter
  <2> QED
    BY <1>10, <2>1, EndsTypes DEF WriteQuarter, DayAheadTypeOK
<1>11. ASSUME NEW j \in Jobs, CommitFails(j) PROVE DayAheadTypeOK'
  <2>1. faults' \in 0 .. MaxFaults
    BY <1>11, <1>a DEF CommitFails, DayAheadTypeOK
  <2> QED
    BY <1>11, <2>1, EndsTypes DEF CommitFails, DayAheadTypeOK, tables
<1>12. ASSUME NEW j \in Jobs, Kill(j) PROVE DayAheadTypeOK'
  <2>1. faults' \in 0 .. MaxFaults
    BY <1>12, <1>a DEF Kill, DayAheadTypeOK
  <2>2. means' \in [Jobs -> [Days -> Means]]
    BY <1>12, EmptyMean DEF Kill, Cleared, DayAheadTypeOK
  <2> QED
    BY <1>12, <2>1, <2>2 DEF Kill, Cleared, DayAheadTypeOK, tables, Waiting
<1> QED
  BY <1>1, <1>2, <1>3, <1>4, <1>5, <1>6, <1>7, <1>8, <1>9, <1>10, <1>11, <1>12, <1>13
     DEF DayAheadNext, Ingest

-----------------------------------------------------------------------------
(* The views *)

\* A step that touches neither the views nor a run that is writing them.
LEMMA QuietStep ==
    ASSUME OthersAgree, DocumentStored, ReadsCurrent,
           UNCHANGED <<hourly, daily, detail>>,
           \A k \in Jobs : stage[k] \in Writing \/ stage'[k] \in Writing =>
               /\ stage'[k] = stage[k] /\ doc'[k] = doc[k]
               /\ means'[k] = means[k] /\ seen'[k] = seen[k]
    PROVE  (OthersAgree /\ DocumentStored /\ ReadsCurrent)'
<1>1. \A k \in Jobs : stage'[k] \in Writing => DocDays(k)' = DocDays(k)
  BY DEF DocDays
<1>2. \A d \in Days : Agrees(d) => Agrees(d)'
  BY DEF Agrees, DetailAgrees
<1>3. OthersAgree'
  BY <1>1, <1>2 DEF OthersAgree
<1>4. DocumentStored'
  BY DEF DocumentStored
<1>5. ReadsCurrent'
  BY <1>1 DEF ReadsCurrent, Writing
<1> QED
  BY <1>3, <1>4, <1>5

\* Nothing changes when nothing happens.
LEMMA Stutters == ASSUME DayAheadTypeOK, UNCHANGED dayAheadVars PROVE DayAheadTypeOK' /\ (AppInv => AppInv')
<1>1. /\ UNCHANGED <<published, cache, hourly, quarter, daily, detail>>
      /\ UNCHANGED <<today, stage, wanted, doc, means, seen, publications, faults>>
  BY DEF dayAheadVars, tables, local
<1>2. DayAheadTypeOK'
  BY <1>1 DEF DayAheadTypeOK
<1>3. AppInv => AppInv'
  BY <1>1, QuietStep DEF AppInv, OneWriter
<1> QED
  BY <1>2, <1>3

\* A step of jobs of one process without a fault keeps the views in line.
LEMMA AppStep ==
    ASSUME DayAheadTypeOK, AppInv, DayAheadNext, Together', faults' = faults
    PROVE  AppInv'
<1>0. OneWriter /\ OthersAgree /\ DocumentStored /\ ReadsCurrent
  BY DEF AppInv
<1>a. stage \in [Jobs -> Waiting \cup {"hourly", "means", "daily", "quarter"}]
  BY DEF DayAheadTypeOK
<1>b. /\ hourly \in Docs /\ detail \in Docs
      /\ \A j \in Jobs : stage[j] \notin {"idle", "fetch"} => doc[j] \in Docs
  BY DEF DayAheadTypeOK
\* A job that goes on from its fetch finds the loop free.
<1>c. ASSUME NEW j \in Jobs, LoopFree(j), stage' = [stage EXCEPT ![j] = "hourly"]
      PROVE  OneWriter'
  <2>1. \A k \in Jobs \ {j} : stage'[k] = stage[k] /\ stage'[j] = "hourly"
    BY <1>a, <1>c
  <2>2. \A k \in Jobs \ {j} : stage[k] # "idle" => Process[k] = Process[j]
    BY <2>1 DEF Together
  <2>3. \A k \in Jobs \ {j} : stage[k] \in Waiting
    BY <1>c, <2>2 DEF LoopFree, Waiting
  <2> QED
    BY <2>1, <2>3 DEF OneWriter
\* A job that waits, or was past its fetch before, takes the loop from nobody.
<1>d. ASSUME NEW j \in Jobs, NEW l, stage' = [stage EXCEPT ![j] = l],
             l \in Waiting \/ stage[j] \notin Waiting
      PROVE  OneWriter'
  BY <1>0, <1>a, <1>d DEF OneWriter
<1>1. CASE Publish
  BY <1>0, <1>1, QuietStep DEF Publish, AppInv, OneWriter, tables, local
<1>12. CASE Tick
  BY <1>0, <1>12, QuietStep DEF Tick, AppInv, OneWriter, tables, local
<1>2. ASSUME NEW j \in Jobs, Start(j) PROVE AppInv'
  <2>1. stage[j] \notin Writing
    BY <1>2 DEF Start, Writing
  <2>2. CASE UsesCache(j)
    <3>1. stage' = [stage EXCEPT ![j] = "hourly"] /\ LoopFree(j)
      BY <1>2, <2>2 DEF Start, Goto
    <3>2. OneWriter'
      BY <1>c, <3>1
    <3>3. \A k \in Jobs : stage[k] \in Writing \/ stage'[k] \in Writing =>
            stage'[k] = stage[k] /\ doc'[k] = doc[k]
      BY <1>2, <1>a, <2>1, <2>2, <3>1 DEF Start, Writing, DayAheadTypeOK
    <3> QED
      BY <1>0, <1>2, <3>2, <3>3, QuietStep DEF Start, AppInv, tables
  <2>3. CASE ~UsesCache(j)
    <3>1. stage' = [stage EXCEPT ![j] = "fetch"] /\ UNCHANGED doc
      BY <1>2, <2>3 DEF Start, Goto
    <3>2. OneWriter'
      BY <1>d, <3>1 DEF Waiting
    <3>3. \A k \in Jobs : stage[k] \in Writing \/ stage'[k] \in Writing => stage'[k] = stage[k]
      BY <1>a, <2>1, <3>1 DEF Writing
    <3> QED
      BY <1>0, <1>2, <3>1, <3>2, <3>3, QuietStep DEF Start, AppInv, tables
  <2> QED
    BY <2>2, <2>3
<1>3. ASSUME NEW j \in Jobs, Answer(j) PROVE AppInv'
  <2>1. OneWriter'
    BY <1>3, <1>d DEF Answer, Goto, Waiting
  <2>2. \A k \in Jobs : stage[k] \in Writing \/ stage'[k] \in Writing =>
          stage'[k] = stage[k] /\ doc'[k] = doc[k]
    BY <1>3, <1>a DEF Answer, Goto, Writing, DayAheadTypeOK
  <2> QED
    BY <1>0, <1>3, <2>1, <2>2, QuietStep DEF Answer, AppInv, tables
\* The end of a run that is not writing is quiet.
<1>e. ASSUME NEW j \in Jobs, Ends(j), stage[j] \notin Writing,
             UNCHANGED <<hourly, daily, detail>>
      PROVE  AppInv'
  <2>1. OneWriter'
    BY <1>e, <1>d DEF Ends, Goto, Waiting
  <2>2. \A k \in Jobs : stage[k] \in Writing \/ stage'[k] \in Writing =>
          /\ stage'[k] = stage[k] /\ doc'[k] = doc[k]
          /\ means'[k] = means[k] /\ seen'[k] = seen[k]
    BY <1>e, <1>a DEF Ends, Goto, Writing, DayAheadTypeOK
  <2> QED
    BY <1>0, <1>e, <2>1, <2>2, QuietStep DEF AppInv
<1>4. ASSUME NEW j \in Jobs, HttpFails(j) PROVE AppInv'
  BY <1>4, <1>e DEF HttpFails, Writing, tables
<1>5. ASSUME NEW j \in Jobs, Resume(j) PROVE AppInv'
  <2>1. stage' = [stage EXCEPT ![j] = "hourly"] /\ LoopFree(j)
    BY <1>5 DEF Resume, Goto
  <2>2. OneWriter'
    BY <1>c, <2>1
  <2>3. \A k \in Jobs : stage[k] \in Writing \/ stage'[k] \in Writing =>
          stage'[k] = stage[k] /\ doc'[k] = doc[k]
    BY <1>5, <1>a, <2>1 DEF Resume, Writing, DayAheadTypeOK
  <2> QED
    BY <1>0, <1>5, <2>2, <2>3, QuietStep DEF Resume, AppInv, tables
\* While a run is past its fetch, no other writes.
<1>f. ASSUME NEW j \in Jobs, stage[j] \notin Waiting, NEW k \in Jobs \ {j}
      PROVE  stage[k] \notin Writing
  BY <1>0, <1>f DEF OneWriter, Waiting, Writing
<1>6. ASSUME NEW j \in Jobs, WriteHourly(j) PROVE AppInv'
  <2>1. /\ stage[j] = "hourly" /\ stage[j] \notin Waiting
        /\ stage' = [stage EXCEPT ![j] = "means"]
        /\ UNCHANGED <<daily, detail, doc>>
        /\ hourly' = Merge(hourly, doc[j])
    BY <1>6 DEF WriteHourly, Goto, Waiting, local
  <2>2. OneWriter'
    BY <1>d, <2>1
  <2>3. stage'[j] = "means" /\ \A k \in Jobs \ {j} : stage'[k] = stage[k] /\ stage'[k] \notin Writing
    BY <1>a, <1>f, <2>1
  <2>4. doc[j] \in Docs
    BY <1>b, <2>1
  <2>5. /\ \A d \in Days, h \in DayHours : doc[j][d][h] # NoPrice => hourly'[d][h] = doc[j][d][h]
        /\ \A d \in Days : Priced(doc[j][d]) = {} => hourly'[d] = hourly[d]
    BY <1>b, <2>1, <2>4, Merged
  <2>6. DocumentStored'
    BY <2>1, <2>3, <2>5 DEF DocumentStored
  <2>7. ReadsCurrent'
    BY <2>3 DEF ReadsCurrent, Writing
  <2>8. OthersAgree'
    <3>1. SUFFICES ASSUME NEW d \in Days, d \notin DocDays(j)' PROVE Agrees(d)'
      BY <2>3 DEF OthersAgree, Writing
    <3>2. hourly'[d] = hourly[d]
      BY <2>1, <2>5, <3>1 DEF DocDays
    <3>3. Agrees(d)
      <4>1. \A k \in Jobs : stage[k] \notin Writing
        BY <1>f, <2>1 DEF Writing
      <4> QED
        BY <1>0, <4>1 DEF OthersAgree
    <3> QED
      BY <2>1, <3>2, <3>3 DEF Agrees, DetailAgrees
  <2> QED
    BY <2>2, <2>6, <2>7, <2>8 DEF AppInv
<1>7. ASSUME NEW j \in Jobs, ReadMeans(j) PROVE AppInv'
  <2>1. /\ stage[j] = "means" /\ stage[j] \notin Waiting
        /\ stage' = [stage EXCEPT ![j] = "daily"]
        /\ UNCHANGED <<hourly, daily, detail, doc>>
    BY <1>7 DEF ReadMeans, Goto, Waiting, tables
  <2>2. OneWriter'
    BY <1>d, <2>1
  <2>3. stage'[j] = "daily" /\ \A k \in Jobs \ {j} : stage'[k] = stage[k] /\ stage'[k] \notin Writing
    BY <1>a, <1>f, <2>1
  <2>4. DocumentStored'
    BY <1>0, <2>1, <2>3 DEF DocumentStored, Writing
  <2>5. OthersAgree'
    <3>1. DocDays(j)' = DocDays(j)
      BY <2>1 DEF DocDays
    <3>2. SUFFICES ASSUME NEW d \in Days, d \notin DocDays(j) PROVE Agrees(d)'
      BY <2>3, <3>1 DEF OthersAgree, Writing
    <3>3. Agrees(d)
      BY <1>0, <1>f, <2>1, <3>2 DEF OthersAgree
    <3> QED
      BY <2>1, <3>3 DEF Agrees, DetailAgrees
  <2>6. ReadsCurrent'
    <3>1. DocDays(j)' = DocDays(j) /\ DocDays(j) \subseteq Days
      BY <2>1 DEF DocDays
    <3>2. /\ \A d \in DocDays(j) : means'[j][d] = Mean(hourly[d])
          /\ seen'[j] = {d \in Days : daily[d] # NoMean}
      BY <1>7, <3>1 DEF ReadMeans, CanonicalMean, DayAheadTypeOK
    <3> QED
      BY <2>1, <2>3, <3>1, <3>2 DEF ReadsCurrent, Writing
  <2> QED
    BY <2>2, <2>4, <2>5, <2>6 DEF AppInv
<1>8. ASSUME NEW j \in Jobs, WriteDaily(j) PROVE AppInv'
  <2>1. /\ stage[j] = "daily" /\ stage[j] \notin Waiting
        /\ stage' = [stage EXCEPT ![j] = "quarter"]
        /\ UNCHANGED <<hourly, doc>>
    BY <1>8 DEF WriteDaily, Goto, Waiting, local
  <2>2. OneWriter'
    BY <1>d, <2>1
  <2>3. \A k \in Jobs : stage'[k] \notin Writing
    BY <1>a, <1>f, <2>1 DEF Writing
  <2>4. DocumentStored' /\ ReadsCurrent'
    BY <2>3 DEF DocumentStored, ReadsCurrent, Writing
  <2>5. ASSUME NEW d \in Days PROVE Agrees(d)'
    <3>1. CASE d \in DocDays(j)
      <4>1. daily'[d] = means[j][d] /\ detail'[d] = doc[j][d]
        BY <1>8, <3>1 DEF WriteDaily
      <4>2. means[j][d] = Mean(hourly[d])
        BY <1>0, <2>1, <3>1 DEF ReadsCurrent
      <4>3. \A h \in DayHours : doc[j][d][h] # NoPrice => hourly[d][h] = doc[j][d][h]
        BY <1>0, <2>1 DEF DocumentStored, Writing
      <4> QED
        BY <2>1, <4>1, <4>2, <4>3 DEF Agrees, DetailAgrees, Priced
    <3>2. CASE d \notin DocDays(j)
      <4>1. daily'[d] = daily[d] /\ detail'[d] = detail[d]
        BY <1>8, <3>2 DEF WriteDaily
      <4>2. Agrees(d)
        BY <1>0, <1>f, <2>1, <3>2 DEF OthersAgree
      <4> QED
        BY <2>1, <4>1, <4>2 DEF Agrees, DetailAgrees
    <3> QED
      BY <3>1, <3>2
  <2>6. OthersAgree'
    BY <2>5 DEF OthersAgree
  <2> QED
    BY <2>2, <2>4, <2>6 DEF AppInv
\* The daily commit has no row another job inserted meanwhile.
<1>9. ASSUME NEW j \in Jobs, DailyClashes(j) PROVE FALSE
  <2>1. seen[j] = {d \in Days : daily[d] # NoMean}
    BY <1>0, <1>9 DEF ReadsCurrent, DailyClashes
  <2> QED
    BY <1>9, <2>1 DEF DailyClashes, Clashes, DocDays
<1>10. ASSUME NEW j \in Jobs, WriteQuarter(j) PROVE AppInv'
  BY <1>10, <1>e DEF WriteQuarter, Writing
<1>11. ASSUME NEW j \in Jobs, CommitFails(j) \/ Kill(j) PROVE FALSE
  BY <1>11 DEF CommitFails, Kill, DayAheadTypeOK
<1> QED
  BY <1>1, <1>2, <1>3, <1>4, <1>5, <1>6, <1>7, <1>8, <1>9, <1>10, <1>11, <1>12
     DEF DayAheadNext, Ingest

-----------------------------------------------------------------------------
(* What the history variables follow *)

\* The stages of a run that has a document to write.
Working == {"hourly", "means", "daily", "quarter"}

HistoryTypeOK ==
    /\ behind \in [Jobs -> SUBSET Days]
    /\ crossed \in [Jobs -> SUBSET Days]
    /\ stored \subseteq Days
    /\ torn \subseteq Days

\* A run that overwrites is of the app.
LEMMA OverwritesInApp ==
    /\ \A j \in Jobs : Overwrite[j] => j \in Cron
    /\ \A j \in Cron : Overwrite[j]
    /\ \A j, k \in Jobs : Overwrite[j] /\ Overwrite[k] => Process[j] = Process[k]
BY AppAssumption, BackfillAssumption DEF Cron

\* Which action a run's step is.
LEMMA Moves ==
    ASSUME DayAheadTypeOK, DayAheadNext, NEW j \in Jobs
    PROVE  /\ StoresHours(j) => WriteHourly(j)
           /\ StoresRows(j) => WriteDaily(j)
<1>1. stage \in [Jobs -> Waiting \cup {"hourly", "means", "daily", "quarter"}]
  BY DEF DayAheadTypeOK
<1>2. ASSUME NEW k \in Jobs, NEW l, stage' = [stage EXCEPT ![k] = l], k # j PROVE stage'[j] = stage[j]
  BY <1>1, <1>2
<1>3. ASSUME NEW k \in Jobs, NEW l \in {"idle", "fetch", "answered", "hourly"},
             stage' = [stage EXCEPT ![k] = l]
      PROVE  ~StoresHours(j) /\ ~StoresRows(j)
  BY <1>1, <1>3 DEF StoresHours, StoresRows
<1>4. ASSUME NEW k \in Jobs, Start(k) \/ Answer(k) \/ Ends(k) \/ Resume(k)
      PROVE  ~StoresHours(j) /\ ~StoresRows(j)
  BY <1>3, <1>4 DEF Start, Answer, Ends, Resume, Goto
<1>5. CASE \E k \in Jobs : WriteHourly(k)
  BY <1>1, <1>5 DEF WriteHourly, Goto, StoresHours, StoresRows
<1>6. CASE \E k \in Jobs : ReadMeans(k)
  BY <1>1, <1>6 DEF ReadMeans, Goto, StoresHours, StoresRows
<1>7. CASE \E k \in Jobs : WriteDaily(k)
  BY <1>1, <1>7 DEF WriteDaily, Goto, StoresHours, StoresRows
<1>8. CASE \E k \in Jobs : Kill(k)
  BY <1>1, <1>8 DEF Kill, Cleared, StoresHours, StoresRows
<1>9. CASE Publish \/ Tick
  BY <1>9 DEF Publish, Tick, StoresHours, StoresRows
<1> QED
  BY <1>4, <1>5, <1>6, <1>7, <1>8, <1>9
  DEF DayAheadNext, Ingest, HttpFails, DailyClashes, WriteQuarter, CommitFails

\* The history keeps its types.
LEMMA HistoryTypeStep ==
    ASSUME DayAheadTypeOK, HistoryTypeOK, Recorded PROVE HistoryTypeOK'
<1>1. behind' \in [Jobs -> SUBSET Days]
  BY DEF Recorded, Answers, HistoryTypeOK, Restated
<1>2. crossed' \in [Jobs -> SUBSET Days]
  BY DEF Recorded, Crosses, HistoryTypeOK, Shared, DocDays
<1>3. stored' \subseteq Days
  BY DEF Recorded, Stores, HistoryTypeOK
<1>4. torn' \subseteq Days
  <2>1. \A j \in Jobs : DocDays(j) \subseteq Days /\ Shared(j) \subseteq Days
    BY DEF DocDays, Shared
  <2> DEFINE Mended == UNION {DocDays(j) \ crossed[j] : j \in {k \in Jobs : StoresRows(k)}}
             Cut == UNION {DocDays(j) : j \in {k \in Jobs : Between(k) /\ Over(k)}}
             Met == UNION {Shared(j) : j \in {k \in Jobs : StoresHours(k)}}
  <2>2. Cut \subseteq Days /\ Met \subseteq Days
    BY <2>1, Zenon
  <2>3. torn' = (torn \ Mended) \cup Cut \cup Met
    BY DEF Recorded, Tears
  <2> HIDE DEF Mended, Cut, Met
  <2> QED
    BY <2>2, <2>3 DEF HistoryTypeOK
<1> QED
  BY <1>1, <1>2, <1>3, <1>4 DEF HistoryTypeOK

-----------------------------------------------------------------------------
(* What is stored as published stays *)

\* A run has the published prices of the days it is not behind on, of those it was
\* asked for once it has resumed, and the cache has them while it is about to write.
Fresh ==
    /\ \A j \in Jobs : ~Overwrite[j] /\ stage[j] # "idle" => behind[j] = Days
    /\ \A j \in Jobs : \A d \in Days \ behind[j] :
         /\ stage[j] = "answered" => doc[j][d] = published[d]
         /\ stage[j] \in Working => doc[j][d] = IF d \in wanted[j] THEN published[d] ELSE Empty
         /\ stage[j] = "hourly" => cache # NoDoc /\ cache[d] = published[d]

\* A day that is stored as published is so in the cache, and no run under way has
\* anything else for it.
Held(d) ==
    /\ \A h \in DayHours : published[d][h] # NoPrice => hourly[d][h] = published[d][h]
    /\ cache # NoDoc /\ cache[d] = published[d]
    /\ \A k \in Jobs : /\ stage[k] = "answered" => doc[k][d] = published[d]
                       /\ stage[k] \in Working => doc[k][d] \in {published[d], Empty}
AllHeld == \A d \in stored : Held(d)

\* What a run is behind on after a step.
LEMMA BehindNext ==
    ASSUME HistoryTypeOK, Answers, NEW j \in Jobs, stage'[j] # "idle"
    PROVE  behind'[j] = IF stage[j] = "idle" THEN (IF Overwrite[j] THEN {} ELSE Days)
                        ELSE behind[j] \cup Restated
BY DEF Answers, Over, Begins

\* A step in which the run itself does not move keeps it fresh.
LEMMA FreshOther ==
    ASSUME HistoryTypeOK, Fresh, Answers, NEW j \in Jobs, stage'[j] # "idle", stage'[j] = stage[j],
           doc'[j] = doc[j], wanted'[j] = wanted[j],
           stage[j] = "hourly" => \A d \in Days \ behind[j] : cache' # NoDoc /\ cache'[d] = cache[d]
    PROVE  /\ ~Overwrite[j] => behind'[j] = Days
           /\ \A d \in Days \ behind'[j] :
                /\ stage'[j] = "answered" => doc'[j][d] = published'[d]
                /\ stage'[j] \in Working =>
                     doc'[j][d] = IF d \in wanted'[j] THEN published'[d] ELSE Empty
                /\ stage'[j] = "hourly" => cache' # NoDoc /\ cache'[d] = published'[d]
<1>1. behind'[j] = behind[j] \cup Restated
  BY BehindNext
<1>2. \A d \in Days \ behind'[j] : d \in Days \ behind[j] /\ published'[d] = published[d]
  BY <1>1 DEF Restated
<1>3. Restated \subseteq Days
  BY DEF Restated
<1> QED
  BY <1>1, <1>2, <1>3 DEF Fresh

\* Every step keeps what runs have fresh.
LEMMA FreshStep ==
    ASSUME DayAheadTypeOK, HistoryTypeOK, Fresh, DayAheadNext, Answers
    PROVE  Fresh'
<1> DEFINE FreshOf(j) ==
        /\ ~Overwrite[j] /\ stage'[j] # "idle" => behind'[j] = Days
        /\ \A d \in Days \ behind'[j] :
             /\ stage'[j] = "answered" => doc'[j][d] = published'[d]
             /\ stage'[j] \in Working =>
                  doc'[j][d] = IF d \in wanted'[j] THEN published'[d] ELSE Empty
             /\ stage'[j] = "hourly" => cache' # NoDoc /\ cache'[d] = published'[d]
<1>0. /\ stage \in [Jobs -> Waiting \cup {"hourly", "means", "daily", "quarter"}]
      /\ doc \in [Jobs -> Docs \cup {NoDoc}] /\ wanted \in [Jobs -> SUBSET Days]
      /\ \A j \in Jobs : stage[j] \notin {"idle", "fetch"} => doc[j] \in Docs
  BY DEF DayAheadTypeOK
<1>a. ASSUME NEW j \in Jobs, stage'[j] = "idle" PROVE FreshOf(j)
  BY <1>a DEF Working
<1>b. ASSUME NEW j \in Jobs, stage'[j] = stage[j], doc'[j] = doc[j], wanted'[j] = wanted[j],
             stage[j] = "hourly" => \A d \in Days \ behind[j] : cache' # NoDoc /\ cache'[d] = cache[d]
      PROVE  FreshOf(j)
  BY <1>a, <1>b, FreshOther
<1>c. \A j \in Jobs : stage[j] = "hourly" => \A d \in Days \ behind[j] : cache # NoDoc
  BY DEF Fresh
<1>1. CASE Publish \/ Tick
  BY <1>1, <1>b, <1>c DEF Publish, Tick, local, Fresh
<1>2. ASSUME NEW j \in Jobs, Start(j), NEW k \in Jobs PROVE FreshOf(k)
  <2>1. CASE k # j
    BY <1>0, <1>2, <1>b, <1>c, <2>1 DEF Start, Goto
  <2>2. CASE k = j
    <3>1. behind'[j] = (IF Overwrite[j] THEN {} ELSE Days) \/ stage'[j] = "idle"
      BY <1>2, BehindNext DEF Start
    <3>2. Overwrite[j] => stage'[j] = "fetch"
      BY <1>0, <1>2 DEF Start, UsesCache, Goto
    <3> QED
      BY <1>a, <2>2, <3>1, <3>2 DEF Working
  <2> QED
    BY <2>1, <2>2
<1>3. ASSUME NEW j \in Jobs, Answer(j), NEW k \in Jobs PROVE FreshOf(k)
  <2>1. CASE k # j
    BY <1>0, <1>3, <1>b, <1>c, <2>1 DEF Answer, Goto
  <2>2. CASE k = j
    <3>1. stage[j] = "fetch" /\ stage'[j] = "answered" /\ doc'[j] = published /\ published' = published
      BY <1>0, <1>3 DEF Answer, Goto
    <3>2. behind'[j] = behind[j] \cup Restated /\ Restated = {}
      BY <3>1, BehindNext DEF Restated
    <3> QED
      BY <2>2, <3>1, <3>2 DEF Working, Fresh
  <2> QED
    BY <2>1, <2>2
<1>4. ASSUME NEW j \in Jobs, Ends(j), UNCHANGED <<published, cache>>, NEW k \in Jobs PROVE FreshOf(k)
  <2>1. CASE k # j
    BY <1>0, <1>4, <1>b, <1>c, <2>1 DEF Ends, Goto
  <2>2. CASE k = j
    BY <1>0, <1>4, <1>a, <2>2 DEF Ends, Goto
  <2> QED
    BY <2>1, <2>2
<1>5. ASSUME NEW j \in Jobs, Resume(j), NEW k \in Jobs PROVE FreshOf(k)
  <2>0. /\ stage[j] = "answered" /\ LoopFree(j) /\ stage' = [stage EXCEPT ![j] = "hourly"]
        /\ doc' = [doc EXCEPT ![j] = Only(wanted[j], doc[j])] /\ UNCHANGED <<published, wanted>>
        /\ cache' = IF Overwrite[j] \/ cache = NoDoc THEN doc[j] ELSE cache
    BY <1>5 DEF Resume, Goto
  <2>1. CASE k # j
    <3>1. stage'[k] = stage[k] /\ doc'[k] = doc[k] /\ wanted'[k] = wanted[k]
      BY <1>0, <2>0, <2>1
    <3>2. ASSUME stage[k] = "hourly", NEW d \in Days \ behind[k] PROVE cache' = cache /\ cache # NoDoc
      <4>1. Overwrite[k] /\ cache # NoDoc
        BY <3>2 DEF Fresh
      <4>2. ~Overwrite[j]
        BY <2>0, <2>1, <3>2, <4>1, OverwritesInApp DEF LoopFree, Waiting
      <4> QED
        BY <2>0, <4>1, <4>2
    <3> QED
      BY <1>b, <3>1, <3>2
  <2>2. CASE k = j
    <3>1. /\ stage'[j] = "hourly" /\ doc[j] \in Docs
          /\ \A d \in Days : doc'[j][d] = IF d \in wanted[j] THEN doc[j][d] ELSE Empty
      BY <1>0, <2>0, Kept
    <3>2. behind'[j] = behind[j] \cup Restated /\ Restated = {}
      BY <2>0, <3>1, BehindNext DEF Restated
    <3>3. \A d \in Days \ behind[j] : doc[j][d] = published[d] /\ Overwrite[j]
      BY <2>0 DEF Fresh
    <3>4. ~Overwrite[j] => behind[j] = Days
      BY <2>0 DEF Fresh
    <3>5. doc[j] # NoDoc
      BY <2>0 DEF DayAheadTypeOK
    <3> QED
      BY <2>0, <2>2, <3>1, <3>2, <3>3, <3>4, <3>5 DEF Working
  <2> QED
    BY <2>1, <2>2
<1>6. ASSUME NEW j \in Jobs, NEW l \in Working \ {"hourly"}, stage[j] \in Working,
             stage' = [stage EXCEPT ![j] = l], UNCHANGED <<published, cache, doc, wanted>>,
             NEW k \in Jobs
      PROVE  FreshOf(k)
  <2>1. CASE k # j
    BY <1>0, <1>6, <1>b, <1>c, <2>1
  <2>2. CASE k = j
    <3>1. stage'[j] = l /\ l # "idle" /\ stage[j] # "idle"
      BY <1>0, <1>6 DEF Working
    <3>2. behind'[j] = behind[j] \cup Restated /\ Restated = {}
      BY <1>6, <3>1, BehindNext DEF Restated
    <3> QED
      BY <1>6, <2>2, <3>1, <3>2 DEF Working, Fresh
  <2> QED
    BY <2>1, <2>2
<1>7. ASSUME NEW j \in Jobs, WriteHourly(j) \/ ReadMeans(j) \/ WriteDaily(j), NEW k \in Jobs
      PROVE  FreshOf(k)
  BY <1>6, <1>7 DEF WriteHourly, ReadMeans, WriteDaily, Goto, Working, tables, local
<1>8. ASSUME NEW j \in Jobs, Kill(j), NEW k \in Jobs PROVE FreshOf(k)
  <2>1. CASE k \in Peers(j)
    BY <1>8, <1>a, <2>1 DEF Kill, Cleared
  <2>2. CASE k \notin Peers(j)
    BY <1>8, <1>b, <1>c, <2>2 DEF Kill, Cleared
  <2> QED
    BY <2>1, <2>2
<1>10. ASSUME NEW j \in Jobs, HttpFails(j) \/ DailyClashes(j) \/ WriteQuarter(j) \/ CommitFails(j)
       PROVE  Ends(j) /\ UNCHANGED <<published, cache>>
  BY <1>10 DEF HttpFails, DailyClashes, WriteQuarter, CommitFails
<1> HIDE DEF FreshOf
<1>9. ASSUME NEW k \in Jobs, ~(Publish \/ Tick) PROVE FreshOf(k)
  <2>1. CASE \E j \in Jobs : Start(j) \/ Answer(j) \/ Resume(j)
    BY <1>2, <1>3, <1>5, <2>1
  <2>2. CASE \E j \in Jobs : HttpFails(j) \/ DailyClashes(j) \/ WriteQuarter(j) \/ CommitFails(j)
    BY <1>4, <1>10, <2>2
  <2>3. CASE \E j \in Jobs : WriteHourly(j) \/ ReadMeans(j) \/ WriteDaily(j) \/ Kill(j)
    BY <1>7, <1>8, <2>3
  <2> QED
    BY <1>9, <2>1, <2>2, <2>3 DEF DayAheadNext, Ingest
<1> QED
  BY <1>1, <1>9 DEF Fresh, FreshOf

\* A step that does not touch a day's hours, and gives runs and cache nothing else
\* than what is published, holds it.
LEMMA HeldQuiet ==
    ASSUME NEW d \in Days, Held(d), published'[d] = published[d], hourly'[d] = hourly[d],
           cache' # NoDoc /\ cache'[d] = published[d],
           \A k \in Jobs : stage'[k] \in Working \cup {"answered"} =>
              \/ stage'[k] = stage[k] /\ doc'[k] = doc[k]
              \/ stage[k] \in Working /\ stage'[k] \in Working /\ doc'[k] = doc[k]
              \/ doc'[k][d] = published[d]
              \/ stage'[k] \in Working /\ doc'[k][d] = Empty
    PROVE  Held(d)'
BY DEF Held, Working

\* Every step keeps what is stored as published.
LEMMA KeptStep ==
    ASSUME DayAheadTypeOK, HistoryTypeOK, Fresh, AllHeld, DayAheadNext, Stores
    PROVE  AllHeld'
<1>0. /\ stage \in [Jobs -> Waiting \cup {"hourly", "means", "daily", "quarter"}]
      /\ doc \in [Jobs -> Docs \cup {NoDoc}] /\ hourly \in Docs
      /\ \A j \in Jobs : stage[j] \notin {"idle", "fetch"} => doc[j] \in Docs
  BY DEF DayAheadTypeOK
<1>1. ASSUME \A j \in Jobs : ~WriteHourly(j), NEW d \in stored' PROVE Held(d)'
  <2>0. d \in stored /\ d \in Days /\ published'[d] = published[d]
    BY <1>1, Moves DEF Stores, Restated, HistoryTypeOK, Cron
  <2>1. Held(d) /\ cache # NoDoc /\ cache[d] = published[d]
    BY <2>0 DEF AllHeld, Held
  <2>2. CASE Publish \/ Tick
    BY <2>0, <2>1, <2>2, HeldQuiet DEF Publish, Tick, tables, local
  <2>3. ASSUME NEW j \in Jobs, Start(j) PROVE Held(d)'
    <3>1. \A k \in Jobs \ {j} : stage'[k] = stage[k] /\ doc'[k] = doc[k]
      BY <1>0, <2>3 DEF Start, Goto
    <3>2. CASE UsesCache(j)
      <4>1. PICK W \in SUBSET Days : doc'[j] = Only(W, cache)
        BY <1>0, <2>3, <3>2 DEF Start, Asks
      <4>2. doc'[j][d] \in {published[d], Empty}
        BY <2>0, <2>1, <4>1 DEF Only
      <4>3. stage'[j] \in Working
        BY <1>0, <2>3, <3>2 DEF Start, Goto, Working
      <4>4. UNCHANGED <<cache, hourly>>
        BY <2>3 DEF Start, tables
      <4> QED
        BY <2>0, <2>1, <3>1, <4>2, <4>3, <4>4, HeldQuiet
    <3>3. CASE ~UsesCache(j)
      <4>1. stage'[j] \notin Working \cup {"answered"}
        BY <1>0, <2>3, <3>3 DEF Start, Goto, Working
      <4>2. UNCHANGED <<cache, hourly>>
        BY <2>3 DEF Start, tables
      <4> QED
        BY <2>0, <2>1, <3>1, <4>1, <4>2, HeldQuiet
    <3> QED
      BY <3>2, <3>3
  <2>4. ASSUME NEW j \in Jobs, Answer(j) PROVE Held(d)'
    <3>1. /\ \A k \in Jobs \ {j} : stage'[k] = stage[k] /\ doc'[k] = doc[k]
          /\ doc'[j] = published /\ UNCHANGED <<cache, hourly>>
      BY <1>0, <2>4 DEF Answer, Goto, tables
    <3> QED
      BY <2>0, <2>1, <3>1, HeldQuiet
  <2>5. ASSUME NEW j \in Jobs, Ends(j), UNCHANGED <<cache, hourly>> PROVE Held(d)'
    <3>1. /\ \A k \in Jobs \ {j} : stage'[k] = stage[k] /\ doc'[k] = doc[k]
          /\ stage'[j] \notin Working \cup {"answered"}
      BY <1>0, <2>5 DEF Ends, Goto, Working
    <3> QED
      BY <2>0, <2>1, <2>5, <3>1, HeldQuiet
  <2>6. ASSUME NEW j \in Jobs, Resume(j) PROVE Held(d)'
    <3>1. /\ \A k \in Jobs \ {j} : stage'[k] = stage[k] /\ doc'[k] = doc[k]
          /\ stage'[j] \in Working /\ doc'[j] = Only(wanted[j], doc[j])
          /\ UNCHANGED hourly /\ cache' \in {doc[j], cache}
      BY <1>0, <2>6 DEF Resume, Goto, Working, tables
    <3>2. doc[j][d] = published[d] /\ doc[j] # NoDoc
      BY <2>1, <2>6 DEF Resume, Held, DayAheadTypeOK
    <3>3. doc'[j][d] \in {published[d], Empty}
      BY <2>0, <3>1, <3>2 DEF Only
    <3> QED
      BY <2>0, <2>1, <3>1, <3>2, <3>3, HeldQuiet
  <2>7. ASSUME NEW j \in Jobs, ReadMeans(j) \/ WriteDaily(j) PROVE Held(d)'
    <3>1. /\ \A k \in Jobs \ {j} : stage'[k] = stage[k]
          /\ stage[j] \in Working /\ stage'[j] \in Working /\ UNCHANGED <<doc, cache, hourly>>
      BY <1>0, <2>7 DEF ReadMeans, WriteDaily, Goto, Working, tables, local
    <3> QED
      BY <2>0, <2>1, <3>1, HeldQuiet
  <2>8. ASSUME NEW j \in Jobs, Kill(j) PROVE Held(d)'
    <3>1. /\ \A k \in Jobs : stage'[k] = "idle" \/ (stage'[k] = stage[k] /\ doc'[k] = doc[k])
          /\ UNCHANGED <<cache, hourly>>
      BY <2>8 DEF Kill, Cleared, tables
    <3> QED
      BY <2>0, <2>1, <3>1, HeldQuiet DEF Working
  <2> QED
    BY <1>1, <2>2, <2>3, <2>4, <2>5, <2>6, <2>7, <2>8
    DEF DayAheadNext, Ingest, HttpFails, DailyClashes, WriteQuarter, CommitFails, tables
<1>2. ASSUME NEW j \in Jobs, WriteHourly(j), NEW d \in stored' PROVE Held(d)'
  <2>0. /\ stage[j] = "hourly" /\ stage' = [stage EXCEPT ![j] = "means"]
        /\ hourly' = Merge(hourly, doc[j]) /\ UNCHANGED <<published, cache, doc>>
        /\ doc[j] \in Docs
    BY <1>0, <1>2 DEF WriteHourly, Goto, local
  <2>1. \A k \in Jobs : /\ stage'[k] = "answered" => stage[k] = "answered"
                        /\ stage'[k] \in Working => stage[k] \in Working
    BY <1>0, <2>0 DEF Working
  <2>2. ASSUME Held(d), d \in Days PROVE Held(d)'
    <3>1. doc[j][d] \in {published[d], Empty}
      BY <2>0, <2>2 DEF Held, Working
    <3>2. \A h \in DayHours : published[d][h] # NoPrice => hourly'[d][h] = published[d][h]
      <4>1. \A h \in DayHours : hourly'[d][h] = IF doc[j][d][h] # NoPrice THEN doc[j][d][h]
                                                ELSE hourly[d][h]
        BY <2>0, <2>2 DEF Merge
      <4>2. CASE doc[j][d] = published[d]
        BY <4>1, <4>2
      <4>3. CASE doc[j][d] = Empty
        <5>1. \A h \in DayHours : doc[j][d][h] = NoPrice
          BY <4>3 DEF Empty
        <5> QED
          BY <2>2, <4>1, <5>1 DEF Held
      <4> QED
        BY <3>1, <4>2, <4>3
    <3> QED
      BY <2>0, <2>1, <2>2, <3>2 DEF Held
  <2>3. CASE d \in stored
    BY <2>2, <2>3 DEF AllHeld, HistoryTypeOK
  <2>4. CASE d \notin stored
    <3>1. PICK k \in Jobs : StoresHours(k) /\ d \in wanted[k] /\ \A i \in Jobs : d \notin behind[i]
      BY <2>4 DEF Stores, Cron
    <3>2. k = j /\ d \in Days
      BY <1>0, <2>0, <2>4, <3>1 DEF StoresHours, Stores
    <3>3. doc[j][d] = published[d] /\ cache # NoDoc /\ cache[d] = published[d]
      BY <2>0, <3>1, <3>2 DEF Fresh, Working
    <3>4. \A i \in Jobs : /\ stage[i] = "answered" => doc[i][d] = published[d]
                          /\ stage[i] \in Working => doc[i][d] \in {published[d], Empty}
      BY <3>1, <3>2 DEF Fresh
    <3>5. \A h \in DayHours : published[d][h] # NoPrice => hourly'[d][h] = published[d][h]
      BY <2>0, <3>2, <3>3 DEF Merge
    <3> QED
      BY <2>0, <2>1, <3>3, <3>4, <3>5 DEF Held
  <2> QED
    BY <2>3, <2>4
<1> QED
  BY <1>1, <1>2 DEF AllHeld

-----------------------------------------------------------------------------
(* The theorems *)

LEMMA DayAheadStart == ASSUME DayAheadAssumption, DayAheadInit PROVE DayAheadTypeOK /\ AppInv
<1>1. DayAheadTypeOK
  BY EmptyMean DEF DayAheadAssumption, DayAheadInit, DayAheadTypeOK, Docs, Waiting
<1>2. AppInv
  <2>1. \A j \in Jobs : stage[j] = "idle"
    BY DEF DayAheadInit
  <2>2. \A d \in Days : Agrees(d)
    <3>1. \A d \in Days : daily[d] = NoMean /\ hourly[d] = Empty /\ detail[d] = Empty
      BY DEF DayAheadInit
    <3> QED
      BY <3>1, EmptyMean DEF Agrees, DetailAgrees
  <2> QED
    BY <2>1, <2>2 DEF AppInv, OneWriter, OthersAgree, DocumentStored, ReadsCurrent,
                      Writing, Waiting
<1> QED
  BY <1>1, <1>2

\* When no run is between its commits, no day is being written.
LEMMA InvAgrees == ASSUME AppInv PROVE ViewsAgree
BY DEF AppInv, OthersAgree, ViewsAgree, Settled, Agrees, Writing, Waiting

\* _canonical_daily_mean: `no two views of the desk ever disagree on a zone's
\* daily price`.  With every job of ingest_day_ahead in one process and commits
\* that succeed, the daily rows are the means of the hourly series and carry its
\* prices whenever no run is between its commits.
THEOREM ViewsAgreeAlone ==
    ASSUME \A j, k \in Jobs : Process[j] = Process[k], MaxFaults = 0
    PROVE  DayAheadSpec => []ViewsAgree
<1>1. DayAheadInit => DayAheadTypeOK /\ AppInv
  BY DayAheadStart, DayAheadAssumption
<1>2. ASSUME DayAheadTypeOK /\ AppInv, [DayAheadNext]_dayAheadVars PROVE (DayAheadTypeOK /\ AppInv)'
  <2>1. CASE DayAheadNext
    <3>1. DayAheadTypeOK'
      BY <1>2, <2>1, DayAheadTypeStep, DayAheadAssumption
    <3>2. faults' = faults
      BY <1>2, <3>1 DEF DayAheadTypeOK
    <3>3. Together'
      BY DEF Together
    <3> QED
      BY <1>2, <2>1, <3>1, <3>2, <3>3, AppStep
  <2>2. CASE UNCHANGED dayAheadVars
    BY <1>2, <2>2, Stutters
  <2> QED
    BY <1>2, <2>1, <2>2
<1>3. DayAheadTypeOK /\ AppInv => ViewsAgree
  BY InvAgrees
<1> QED
  BY <1>1, <1>2, <1>3, PTL DEF DayAheadSpec

\* The same beside the backfill script: in a behaviour in which the backfill is
\* not run and no commit fails, the jobs of the app keep the views in line
\* (ViewsAgreeInApp), and whatever runs and fails, every variable has its type.
THEOREM ViewsAgreeOfApp == ScenarioSpec => []ViewsAgreeInApp
<1> DEFINE Quiet == /\ faults = 0
                    /\ \A j \in Jobs : j = "backfill" => stage[j] = "idle"
           Inv == DayAheadTypeOK /\ (scenario = "app" => Quiet /\ AppInv)
<1>1. ScenarioInit => Inv
  BY DayAheadStart, DayAheadAssumption DEF ScenarioInit, DayAheadInit
<1>2. ASSUME Inv, [ScenarioNext]_mcVars PROVE Inv'
  <2>1. CASE ScenarioNext
    <3>1. DayAheadNext /\ Within
      BY <2>1 DEF ScenarioNext
    <3>2. DayAheadTypeOK'
      BY <1>2, <3>1, DayAheadTypeStep, DayAheadAssumption
    <3>3. ASSUME scenario' = "app" PROVE Quiet' /\ AppInv'
      <4>1. scenario = "app" /\ stage'["backfill"] = "idle" /\ faults' = 0
        BY <3>1, <3>3 DEF Within
      <4>2. Quiet'
        BY <4>1
      <4>3. Together'
        BY <4>2, AppAssumption DEF Together, Cron
      <4>4. faults' = faults
        BY <1>2, <4>1
      <4> QED
        BY <1>2, <3>1, <4>1, <4>2, <4>3, <4>4, AppStep
    <3> QED
      BY <3>2, <3>3
  <2>2. CASE UNCHANGED mcVars
    <3>1. UNCHANGED dayAheadVars /\ UNCHANGED scenario /\ UNCHANGED <<stage, faults>>
      BY <2>2 DEF mcVars, dayAheadVars
    <3> QED
      BY <1>2, <3>1, Stutters
  <2> QED
    BY <1>2, <2>1, <2>2
<1>3. Inv => ViewsAgreeInApp
  BY InvAgrees DEF ViewsAgreeInApp
<1> QED
  BY <1>1, <1>2, <1>3, PTL DEF ScenarioSpec

\* At first nothing is stored and no run is under way.
LEMMA HistoryStart ==
    ASSUME DayAheadAssumption, DayAheadInit, HistoryInit
    PROVE  DayAheadTypeOK /\ HistoryTypeOK /\ Fresh /\ AllHeld
<1>1. DayAheadTypeOK /\ HistoryTypeOK
  BY DayAheadStart DEF HistoryInit, HistoryTypeOK
<1>2. Fresh /\ AllHeld
  BY DEF DayAheadInit, HistoryInit, Fresh, AllHeld, Working
<1> QED
  BY <1>1, <1>2

\* Every recorded step keeps what runs have fresh and what is stored as published.
LEMMA HistoryStep ==
    ASSUME DayAheadTypeOK, HistoryTypeOK, Fresh, AllHeld,
           (DayAheadNext /\ Recorded) \/ UNCHANGED mcVars
    PROVE  (DayAheadTypeOK /\ HistoryTypeOK /\ Fresh /\ AllHeld)'
<1>1. CASE DayAheadNext /\ Recorded
  BY <1>1, DayAheadAssumption, DayAheadTypeStep, HistoryTypeStep, FreshStep, KeptStep DEF Recorded
<1>2. CASE UNCHANGED mcVars
  <2>1. /\ UNCHANGED dayAheadVars /\ UNCHANGED <<behind, stored, crossed, torn>>
        /\ UNCHANGED <<published, cache, hourly, stage, wanted, doc>>
    BY <1>2 DEF mcVars, dayAheadVars, tables, local
  <2>2. DayAheadTypeOK' /\ HistoryTypeOK'
    BY <2>1, Stutters DEF HistoryTypeOK
  <2>3. Fresh'
    BY <2>1 DEF Fresh
  <2>4. AllHeld'
    BY <2>1 DEF AllHeld, Held
  <2> QED
    BY <2>2, <2>3, <2>4
<1> QED
  BY <1>1, <1>2

\* ingest_day_ahead: with any jobs, in any processes, with commits that fail, kills
\* and a backfill that writes old answers out of the cache, the hours of a day that a
\* run of the scheduler stored as published, while no older answer for the day was on
\* its way, stay as published until the source restates the day.
THEOREM RestatementsKept ==
    /\ ScenarioSpec => []RestatementsStay
    /\ FreeSpec => []RestatementsStay
<1> DEFINE Inv == DayAheadTypeOK /\ HistoryTypeOK /\ Fresh /\ AllHeld
<1>1. DayAheadInit /\ HistoryInit => Inv
  BY HistoryStart, DayAheadAssumption
<1>2. ASSUME Inv, (DayAheadNext /\ Recorded) \/ UNCHANGED mcVars PROVE Inv'
  BY <1>2, HistoryStep
<1>3. Inv => RestatementsStay
  BY DEF AllHeld, Held, RestatementsStay
<1>4. ScenarioInit => Inv
  BY <1>1 DEF ScenarioInit
<1>5. Inv /\ [ScenarioNext]_mcVars => Inv'
  BY <1>2 DEF ScenarioNext
<1>6. Inv /\ [DayAheadNext /\ Recorded /\ scenario' = scenario]_mcVars => Inv'
  BY <1>2
<1> HIDE DEF Inv
<1>7. ScenarioSpec => []RestatementsStay
  BY <1>3, <1>4, <1>5, PTL DEF ScenarioSpec
<1>8. FreeSpec => []RestatementsStay
  BY <1>1, <1>3, <1>6, PTL DEF FreeSpec
<1> QED
  BY <1>7, <1>8
=============================================================================
