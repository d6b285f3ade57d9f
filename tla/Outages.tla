------------------------------ MODULE Outages ------------------------------
(***************************************************************************)
(* power/entsoe_outages.py and the two jobs around it.  The source keeps a *)
(* board of outage messages per query (a zone for A77, a directed border   *)
(* for A78); a message is revised, withdrawn and taken down while the job  *)
(* reads the board by pages, and a snapshot job writes down every hour     *)
(* what the stored messages say is offline.  A message stands for its      *)
(* megawatts: a snapshot is the set of messages it counts.                 *)
(***************************************************************************)
EXTENDS Integers, Sequences, FiniteSets, SequencesExt

CONSTANTS None,
          Passes,        \* the queries of the A77 pass and of the A78 pass
          MaxMrid,       \* bound: messages
          PAGE_SIZE,     \* documents of a page (200)
          LOOKBACK_DAYS, \* days an ended message stays listed (7)
          MaxDay, MaxRevision,
          MaxChanges,    \* bound: changes of the boards
          MaxFaults      \* bound: failed requests, failed commits and kills

Days == 0..MaxDay
Mrids == 1..MaxMrid
Queries == UNION {Range(Passes[k]) : k \in DOMAIN Passes}

VARIABLES
    board,     \* query -> the messages it lists, newest first or not
    today,
    rows,      \* the committed (mrid, revision) rows
    job,       \* None, or [pass, query, offset] of the run under way
    snap,      \* day -> the messages its snapshot counts, or None
    changes, faults

vars == <<board, today, rows, job, snap, changes, faults>>

-----------------------------------------------------------------------------
(* The source.  external                                                     *)

\* A document: good is what parse_unavailability can read.
Message == [mrid : Mrids, revision : 1..MaxRevision, active : BOOLEAN, good : BOOLEAN,
            start : Days, end : Days]
Listed(q) == SelectSeq(board[q], LAMBDA m : m.end >= today - LOOKBACK_DAYS)
OnBoard == UNION {Range(board[q]) : q \in Queries}
Changed(q, list) ==
    /\ changes < MaxChanges /\ changes' = changes + 1
    /\ board' = [board EXCEPT ![q] = list]
    /\ UNCHANGED <<today, rows, job, snap, faults>>

\* A new message, at either end of the list.
Post(q, end, good) ==
    /\ Cardinality(OnBoard) < MaxMrid /\ end >= today
    /\ LET id == Cardinality(OnBoard) + 1
           m == [mrid |-> id, revision |-> 1, active |-> TRUE, good |-> good,
                 start |-> today, end |-> end]
       IN  Changed(q, <<m>> \o board[q]) \/ Changed(q, Append(board[q], m))
\* A revision moves the end or withdraws the message, which keeps its place
\* or comes to the front; it is listed for a while even when it ends at once.
Revise(q, i, end, active) ==
    /\ i \in DOMAIN board[q] /\ board[q][i].revision < MaxRevision
    /\ \A j \in DOMAIN board[q] : board[q][j].mrid = board[q][i].mrid => j = i
    /\ end >= today
    /\ LET m == [board[q][i] EXCEPT !.revision = @ + 1, !.end = end, !.active = active]
       IN  Changed(q, ReplaceAt(board[q], i, m)) \/ Changed(q, <<m>> \o RemoveAt(board[q], i))

Tick ==
    /\ today < MaxDay /\ today' = today + 1
    /\ UNCHANGED <<board, rows, job, snap, changes, faults>>

-----------------------------------------------------------------------------
(* _run_outages, ingest_outages                                              *)

Fault == faults < MaxFaults /\ faults' = faults + 1

\* The next query of the pass, the next pass, or the end of the job.
NextPass(k) == IF k = Len(Passes) THEN None ELSE [pass |-> k + 1, query |-> 1, offset |-> 0]
NextQuery(j) ==
    IF j.query < Len(Passes[j.pass])
    THEN [pass |-> j.pass, query |-> j.query + 1, offset |-> 0] ELSE NextPass(j.pass)

_run_outages ==
    /\ job = None /\ job' = NextPass(0)
    /\ UNCHANGED <<board, today, rows, snap, changes, faults>>

_fetch_outages_page(q, offset) ==
    LET list == Listed(q)
        upto == IF offset + PAGE_SIZE < Len(list) THEN offset + PAGE_SIZE ELSE Len(list)
    IN  IF offset < Len(list) THEN SubSeq(list, offset + 1, upto) ELSE <<>>

\* parse_unavailability and the query for (mrid, revision): the documents that
\* are added. The query does not see the rows added before it in the page.
NewIn(page) ==
    {i \in DOMAIN page : /\ page[i].good
                         /\ \A r \in rows : <<r.mrid, r.revision>> # <<page[i].mrid, page[i].revision>>}
UniqueIn(page, I) ==
    \A i, j \in I : <<page[i].mrid, page[i].revision>> = <<page[j].mrid, page[j].revision>> => i = j

\* A variant that measures the page by what could be read.
LastIfFewRead(page) == Cardinality({i \in DOMAIN page : page[i].good}) < PAGE_SIZE
LastPage(page) == Len(page) < PAGE_SIZE

\* One page: fetched, stored and committed; the pager moves on by PAGE_SIZE.
ingest_outages ==
    /\ job # None
    /\ LET q == Passes[job.pass][job.query]
           page == _fetch_outages_page(q, job.offset)
       IN  /\ UniqueIn(page, NewIn(page))
           /\ rows' = rows \cup {page[i] : i \in NewIn(page)}
           /\ job' = IF LastPage(page) THEN NextQuery(job)
                     ELSE [job EXCEPT !.offset = @ + PAGE_SIZE]
    /\ UNCHANGED <<board, today, snap, changes, faults>>
\* An HTTP error, a 400 or a bad ZIP ends the query.
FetchFails ==
    /\ job # None /\ Fault /\ job' = NextQuery(job)
    /\ UNCHANGED <<board, today, rows, snap, changes>>
\* Two rows of one page break the unique constraint; a database error does the
\* same: the page is rolled back and the pass ends.
PassFails ==
    /\ job # None
    /\ LET page == _fetch_outages_page(Passes[job.pass][job.query], job.offset)
       IN  IF UniqueIn(page, NewIn(page)) THEN Fault ELSE faults' = faults
    /\ job' = NextPass(job.pass)
    /\ UNCHANGED <<board, today, rows, snap, changes>>
Kill ==
    /\ job # None /\ Fault /\ job' = None
    /\ UNCHANGED <<board, today, rows, snap, changes>>

-----------------------------------------------------------------------------
(* _run_outage_snapshot                                                      *)

\* A variant that drops withdrawn messages before it ranks the revisions.
LatestActive(R) ==
    LET A == {r \in R : r.active}
    IN  {r \in A : \A s \in A : s.mrid = r.mrid => s.revision <= r.revision}
latest_revisions(R) == {r \in R : \A s \in R : s.mrid = r.mrid => s.revision <= r.revision}
\* A message matters when any revision of it has not ended.
Relevant(R, t) == {r \in R : \E s \in R : s.mrid = r.mrid /\ s.end >= t}
offline_at(R, t) ==
    {r.mrid : r \in {s \in latest_revisions(Relevant(R, t)) : s.active /\ s.start <= t /\ t <= s.end}}

_run_outage_snapshot ==
    /\ Relevant(rows, today) # {}
    /\ snap' = [snap EXCEPT ![today] = offline_at(rows, today)]
    /\ UNCHANGED <<board, today, rows, job, changes, faults>>

-----------------------------------------------------------------------------
Init ==
    /\ board = [q \in Queries |-> <<>>]
    /\ today = 0 /\ rows = {} /\ job = None
    /\ snap = [d \in Days |-> None]
    /\ changes = 0 /\ faults = 0

ReadBoard == ingest_outages \/ FetchFails \/ PassFails
Next ==
    \/ \E q \in Queries, end \in Days, good \in BOOLEAN : Post(q, end, good)
    \/ \E q \in Queries, i \in 1..MaxChanges, end \in Days, active \in BOOLEAN :
          Revise(q, i, end, active)
    \/ Tick
    \/ _run_outages \/ ReadBoard \/ Kill
    \/ _run_outage_snapshot

(* The scheduler starts the job every six hours and the snapshot every hour, *)
(* and a started run goes on; nothing says that a request succeeds.          *)
Fairness ==
    /\ WF_vars(_run_outages) /\ WF_vars(ReadBoard)
    /\ WF_vars(_run_outage_snapshot)
Spec == Init /\ [][Next]_vars /\ Fairness

-----------------------------------------------------------------------------

ListedGood == {m \in UNION {Range(Listed(q)) : q \in Queries} : m.good}

(* Pages are read by offset from a board that moves, requests fail and the   *)
(* process dies, so one run may miss a message; ingest_outages                *)
(* (entsoe_outages.py:243-339) reads the whole board every time and stores    *)
(* what it lacks, so every listed revision is stored in the end.              *)
OutagesComplete == <>[](\A m \in ListedGood : m \in rows)

(* The hourly record (outage_history.py:85-109) settles on exactly the listed *)
(* messages that stand and run: a withdrawn or shortened one, of which older  *)
(* revisions stay stored, is not counted again (the 26 ghosts of the module's *)
(* docstring), and no running one is missing.                                 *)
SnapshotTrue ==
    LET Mine == {m.mrid : m \in ListedGood}
        Running == {m.mrid : m \in {n \in ListedGood : n.active /\ n.start <= today /\ today <= n.end}}
    IN  Mine # {} /\ snap[today] # None => snap[today] \cap Mine = Running
SnapshotSettles == <>[]SnapshotTrue
=============================================================================
