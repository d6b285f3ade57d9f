----------------------------- MODULE RawCacheMC -----------------------------
(***************************************************************************)
(* Instances of RawCache for TLC: callers of the app, with and without     *)
(* overwrite, and the migration, every interleaving of their system calls. *)
(* The migration converts the plain blob it read at its start; a caller    *)
(* that writes the entry meanwhile is undone or has its file taken away    *)
(* (RawCacheMigrationLoses.cfg).  A history variable remembers that they   *)
(* met, and what is claimed is claimed until then.                         *)
(***************************************************************************)
EXTENDS RawCache

\* All callers are coroutines of the app, or each is a process of its own.
OneProcess  == [w \in Writers |-> "app"]
OwnProcess  == [w \in Writers |-> w]

VARIABLE raced    \* history: a caller wrote while the migration converted
mcVars == <<cacheVars, raced>>

\* Between reading the blob and judging the archive made of it.
Converting ==
    /\ Migration # NoInode
    /\ pc[Migration] \in {"open", "write", "verify", "replace", "weigh"}
Storing(w) == pc[w] \in {"write", "replace"}
Collide == Converting /\ \E w \in Writers : Storing(w)

RaceInit == CacheInit /\ raced = FALSE
RaceNext == CacheNext /\ raced' = (raced \/ Collide')
RaceSpec == RaceInit /\ [][RaceNext]_mcVars

-----------------------------------------------------------------------------
\* raw_cache.py:5, `Atomic writes (tmp + os.replace) avoid partial files`: the
\* entry's blob decodes, whichever process was killed where, unless a caller wrote
\* while the migration converted.
NoPartialFileUnlessRaced == ~raced => NoPartialFile

\* What was fetched is kept: a call leaves a readable entry, and no step of another
\* call, of the migration or of a kill takes it away (raw_cache.py:3-5).
FetchedIsKept ==
    [][~raced' =>
          /\ Cached # Nothing => Cached' # Nothing
          /\ \A w \in Writers : Check(w) /\ pc'[w] = "idle" => Cached' # Nothing]_mcVars

\* raw_cache.py:88-89, `leaving it would let a stale payload resurface`: once there is
\* an entry, what the cache returns changes only in the step that moves the payload
\* some caller fetched into place.  The migration's own move and removals, the removal
\* of the plain blob by a caller and a kill between the two never bring back another.
NoStaleResurfaces ==
    [][~raced' /\ Cached # Nothing /\ Cached' # Cached =>
          \E w \in Writers : Replace(w) /\ Cached' = payload[w]]_mcVars
=============================================================================
