------------------------------ MODULE StoresMC ------------------------------
(***************************************************************************)
(* What is kept, and by whom it is written beside others: the derived      *)
(* tables and the archive under the nightly jobs, an entry of the raw      *)
(* cache under two coroutines and the migration.  A behaviour moves one of *)
(* the two and leaves the other in its first state, as they share no row   *)
(* and no file.                                                            *)
(***************************************************************************)
EXTENDS Nightly, RawCacheMC

MCPrices == {-1, 20}
MCTail == [sum |-> 1, n |-> 2]

ASSUME CacheConstants == CacheAssumption /\ OneLoop

VARIABLE part
allVars == <<part, vars, mcVars>>

StoresInit ==
    /\ part \in {"nightly", "cache"}
    /\ Init /\ RaceInit
    /\ part # "cache" => legacy = Nothing

OfNightly(A) == part = "nightly" /\ A /\ UNCHANGED <<part, mcVars>>
OfCache(A) == part = "cache" /\ A /\ UNCHANGED <<part, vars>>

StoresNext == OfNightly(Next) \/ OfCache(RaceNext)

\* The fairness of Nightly; what is asked of the cache needs none.
StoresFairness == WF_allVars(OfNightly(Proceeds))

StoresSpec == StoresInit /\ [][StoresNext]_allVars /\ StoresFairness

-----------------------------------------------------------------------------
\* TablesMatch (forecast_score.py, episodes.py, records.py), where the nightly
\* jobs run.
NightlyMatches == part = "nightly" => TablesMatch
\* Once publications stop, the convergence series of the window agree with their
\* hours (convergence.py:158, four commits), and manifest, files and record of the hot
\* years agree (archive.py), whichever commits failed and builds were cut off.
NightlySettles == <>[](part = "nightly" => BandsStored /\ HotYearsListed)
=============================================================================
