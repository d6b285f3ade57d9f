------------------------------ MODULE RawCache ------------------------------
(***************************************************************************)
(* One entry of the write-once raw-response cache of                       *)
(* backend/gas/raw_cache.py, the processes that read and write it through  *)
(* `fetch_or_cache`, and the one-off migration of                          *)
(* backend/scripts/compress_raw_cache.py.                                  *)
(*                                                                         *)
(* The entry is up to three directory entries: <key>.json.gz, the legacy   *)
(* <key>.json and <key>.json.gz.tmp, whose name every writer of the entry  *)
(* and the migration share.  Steps are system calls, because the writers   *)
(* are different processes: the app, a backfill, the migration.  A file's  *)
(* data lives in an inode: an open file keeps it when the name moves.      *)
(***************************************************************************)
EXTENDS Naturals, FiniteSets

CONSTANTS
    Writers,      \* concurrent callers of fetch_or_cache (coroutines)
    Process,      \* Process[w]: the process w runs in
    Overwrites,   \* values callers pass for overwrite
    Migration,    \* the process of compress_raw_cache, or NoInode if none runs
    MaxVersion,   \* bound: versions of the payload the source publishes
    MaxCalls,     \* bound: calls of fetch_or_cache
    NoInode,      \* no such directory entry
    Garbled       \* file data that does not decode

Actors == Writers \cup ({Migration} \ {NoInode})
Versions == 1 .. MaxVersion
Nothing == 0                       \* an empty (truncated) file, or no payload
Inodes == Actors \X {0, 1}         \* two inodes per actor are enough: see Fresh
Data == Versions \cup {Nothing, Garbled}

\* What is assumed of the constants.
CacheAssumption ==
    /\ MaxVersion \in Nat \ {0}
    /\ Overwrites \subseteq BOOLEAN
    /\ Migration \notin Writers /\ Migration # NoInode
    /\ NoInode \notin Inodes
    /\ Garbled \notin Versions \cup {Nothing}

\* The callers are coroutines of one event loop.
OneLoop == \A v, w \in Writers : Process[v] = Process[w]

VARIABLES
    data,      \* data[i]: what inode i holds
    gz,        \* the inode of <key>.json.gz
    tmp,       \* the inode of <key>.json.gz.tmp
    legacy,    \* the payload in <key>.json, Nothing if the file is absent
    source,    \* the version the upstream API serves
    pc, overwrite, payload, fd,   \* per actor: the call in progress
    got,       \* per actor: what its last fetch_or_cache returned
    calls

cacheFiles == <<data, gz, tmp, legacy>>
cacheVars == <<cacheFiles, source, pc, overwrite, payload, fd, got, calls>>

Readable(i) == i # NoInode /\ data[i] \in Versions

\* read_cached: the compressed blob wins; an unreadable one is a miss.
Cached == IF gz # NoInode THEN IF Readable(gz) THEN data[gz] ELSE Nothing
                          ELSE legacy

\* An inode nobody refers to, for a file that open() creates.
Fresh(a) == CHOOSE i \in {a} \X {0, 1} : i \notin {gz, tmp}

CacheInit ==
    /\ data = [i \in Inodes |-> Nothing]
    /\ gz = NoInode
    /\ tmp = NoInode
    /\ legacy \in {Nothing, 1}        \* written before the cache was compressed
    /\ source = 1
    /\ pc = [a \in Actors |-> "idle"]
    /\ overwrite = [a \in Actors |-> FALSE]
    /\ payload = [a \in Actors |-> Nothing]
    /\ fd = [a \in Actors |-> NoInode]
    /\ got = [a \in Actors |-> Nothing]
    /\ calls = 0

\* The upstream source restates the payload.
SourcePublishes ==
    /\ source < MaxVersion
    /\ source' = source + 1
    /\ UNCHANGED <<cacheFiles, pc, overwrite, payload, fd, got, calls>>

Goto(a, l) == pc' = [pc EXCEPT ![a] = l]

\* write_cached does not await: no other coroutine of w's process runs while
\* one is between resuming with an answer and its return.
LoopFree(w) ==
    \A v \in Writers \ {w} :
        Process[v] = Process[w] => pc[v] \in {"idle", "fetch", "answered"}

-----------------------------------------------------------------------------
(* fetch_or_cache and write_cached *)

\* A call that forces a re-fetch goes to the source at once; one that does not
\* reads the cache first and returns a hit.
Call(w) ==
    /\ pc[w] = "idle"
    /\ LoopFree(w)
    /\ calls < MaxCalls
    /\ calls' = calls + 1
    /\ \E o \in Overwrites :
         /\ overwrite' = [overwrite EXCEPT ![w] = o]
         /\ IF ~o /\ Cached # Nothing
            THEN /\ got' = [got EXCEPT ![w] = Cached]
                 /\ UNCHANGED pc
            ELSE /\ Goto(w, "fetch")
                 /\ UNCHANGED got
    /\ UNCHANGED <<cacheFiles, source, payload, fd>>

\* The source answers the awaited request, with the payload of that moment.
Answer(w) ==
    /\ pc[w] = "fetch"
    /\ payload' = [payload EXCEPT ![w] = source]
    /\ Goto(w, "answered")
    /\ UNCHANGED <<cacheFiles, source, overwrite, fd, got, calls>>

\* The coroutine resumes with the answer and enters write_cached.
Resume(w) ==
    /\ pc[w] = "answered"
    /\ LoopFree(w)
    /\ Goto(w, "check")
    /\ UNCHANGED <<cacheFiles, source, overwrite, payload, fd, got, calls>>

\* The request fails: nothing is written, the exception goes to the caller.
FetchFails(w) ==
    /\ pc[w] = "fetch"
    /\ LoopFree(w)
    /\ Goto(w, "idle")
    /\ UNCHANGED <<cacheFiles, source, overwrite, payload, fd, got, calls>>

\* write_cached: an entry that exists is only replaced when asked to.
Check(w) ==
    /\ pc[w] = "check"
    /\ IF ~overwrite[w] /\ (gz # NoInode \/ legacy # Nothing)
       THEN /\ got' = [got EXCEPT ![w] = payload[w]]
            /\ Goto(w, "idle")
       ELSE /\ Goto(w, "open")
            /\ UNCHANGED got
    /\ UNCHANGED <<cacheFiles, source, overwrite, payload, fd, calls>>

\* Mutations: the file is written under its final name; the old archive is
\* removed before the new one is written.
OpenInPlace(a) ==
    LET i == IF gz = NoInode THEN Fresh(a) ELSE gz IN
    /\ pc[a] = "open"
    /\ gz' = i
    /\ fd' = [fd EXCEPT ![a] = i]
    /\ data' = [data EXCEPT ![i] = Nothing]
    /\ Goto(a, "write")
    /\ UNCHANGED <<tmp, legacy, source, overwrite, payload, got, calls>>

OpenTmpUnlinkFirst(a) ==
    LET i == IF tmp = NoInode THEN Fresh(a) ELSE tmp IN
    /\ pc[a] = "open"
    /\ tmp' = i
    /\ gz' = NoInode
    /\ legacy' = Nothing
    /\ fd' = [fd EXCEPT ![a] = i]
    /\ data' = [data EXCEPT ![i] = Nothing]
    /\ Goto(a, "write")
    /\ UNCHANGED <<source, overwrite, payload, got, calls>>

\* tmp.open("wb"): creates the file, or truncates the one that is there.
OpenTmp(a) ==
    LET i == IF tmp = NoInode THEN Fresh(a) ELSE tmp IN
    /\ pc[a] = "open"
    /\ tmp' = i
    /\ fd' = [fd EXCEPT ![a] = i]
    /\ data' = [data EXCEPT ![i] = Nothing]
    /\ Goto(a, "write")
    /\ UNCHANGED <<gz, legacy, source, overwrite, payload, got, calls>>

\* The compressed bytes are written from offset 0 of the open file, which is
\* then closed: over another writer's bytes they leave a mixture, unless those
\* are the same.
WriteTmp(a) ==
    /\ pc[a] = "write"
    /\ data' = [data EXCEPT ![fd[a]] =
                  IF @ \in {Nothing, payload[a]} THEN payload[a] ELSE Garbled]
    /\ Goto(a, IF a = Migration THEN "verify" ELSE "replace")
    /\ fd' = [fd EXCEPT ![a] = NoInode]
    /\ UNCHANGED <<gz, tmp, legacy, source, overwrite, payload, got, calls>>

\* os.replace(tmp, path); it raises when another process moved tmp away.
Replace(a) ==
    /\ pc[a] = "replace"
    /\ IF tmp # NoInode
       THEN /\ gz' = tmp
            /\ tmp' = NoInode
            /\ Goto(a, IF a = Migration THEN "weigh" ELSE "unlink")
       ELSE /\ Goto(a, "idle")
            /\ UNCHANGED <<gz, tmp>>
    /\ UNCHANGED <<data, legacy, source, overwrite, payload, fd, got, calls>>

\* The overwritten entry's pre-compression copy is removed, the call returns.
UnlinkLegacy(w) ==
    /\ pc[w] = "unlink"
    /\ w # Migration
    /\ legacy' = Nothing
    /\ got' = [got EXCEPT ![w] = payload[w]]
    /\ Goto(w, "idle")
    /\ UNCHANGED <<data, gz, tmp, source, overwrite, payload, fd, calls>>

\* A process is killed, with all its coroutines, and started again.
Peers(a) == IF a \in Writers THEN {w \in Writers : Process[w] = Process[a]} ELSE {a}

Crash(a) ==
    /\ pc[a] # "idle"
    /\ pc' = [b \in Actors |-> IF b \in Peers(a) THEN "idle" ELSE pc[b]]
    /\ fd' = [b \in Actors |-> IF b \in Peers(a) THEN NoInode ELSE fd[b]]
    /\ UNCHANGED <<cacheFiles, source, overwrite, payload, got, calls>>

-----------------------------------------------------------------------------
(* compress_tree, for the entry's plain blob *)

\* Mutation: the blob is converted whatever lies beside it.
MigrationScansBlind ==
    /\ pc[Migration] = "idle"
    /\ legacy # Nothing
    /\ payload' = [payload EXCEPT ![Migration] = legacy]
    /\ Goto(Migration, "open")
    /\ UNCHANGED <<cacheFiles, source, overwrite, fd, got, calls>>

\* The blob is read; with a readable archive beside it, it is redundant.
MigrationScans ==
    /\ pc[Migration] = "idle"
    /\ legacy # Nothing
    /\ payload' = [payload EXCEPT ![Migration] = legacy]
    /\ Goto(Migration, IF Readable(gz) THEN "unlink" ELSE "open")
    /\ UNCHANGED <<cacheFiles, source, overwrite, fd, got, calls>>

\* _compress: the archive is read back before it is moved into place; one that
\* does not read back is removed (by name) and the run ends.
MigrationVerifies ==
    /\ pc[Migration] = "verify"
    /\ IF Readable(tmp)
       THEN Goto(Migration, "replace") /\ UNCHANGED tmp
       ELSE Goto(Migration, "idle") /\ tmp' = NoInode
    /\ UNCHANGED <<data, gz, legacy, source, overwrite, payload, fd, got, calls>>

\* An archive that is no smaller than the blob is removed again.
MigrationWeighs ==
    /\ pc[Migration] = "weigh"
    /\ \/ gz' = NoInode /\ Goto(Migration, "idle")
       \/ UNCHANGED gz /\ Goto(Migration, "unlink")
    /\ UNCHANGED <<data, tmp, legacy, source, overwrite, payload, fd, got, calls>>

MigrationUnlinks ==
    /\ pc[Migration] = "unlink"
    /\ legacy' = Nothing
    /\ Goto(Migration, "idle")
    /\ UNCHANGED <<data, gz, tmp, source, overwrite, payload, fd, got, calls>>

-----------------------------------------------------------------------------
Writes(a) == OpenTmp(a) \/ WriteTmp(a) \/ Replace(a)

FetchOrCache(w) ==
    Answer(w) \/ Resume(w) \/ FetchFails(w) \/ Check(w) \/ Writes(w) \/ UnlinkLegacy(w)

Migrates ==
    /\ Migration # NoInode
    /\ \/ MigrationScans \/ Writes(Migration) \/ MigrationVerifies
       \/ MigrationWeighs \/ MigrationUnlinks

CacheNext ==
    \/ SourcePublishes
    \/ \E w \in Writers : Call(w) \/ FetchOrCache(w)
    \/ \E a \in Actors : Crash(a)
    \/ Migrates

CacheSpec == CacheInit /\ [][CacheNext]_cacheVars

-----------------------------------------------------------------------------
(* Properties *)

\* Every variable has its type; a descriptor is open exactly while its file is
\* being written (the with blocks of write_cached and _compress).
CacheTypeOK ==
    /\ data \in [Inodes -> Data]
    /\ gz \in Inodes \cup {NoInode}
    /\ tmp \in Inodes \cup {NoInode}
    /\ legacy \in Versions \cup {Nothing}
    /\ source \in Versions
    /\ pc \in [Actors -> {"idle", "fetch", "answered", "check", "open", "write",
                          "verify", "replace", "weigh", "unlink"}]
    /\ overwrite \in [Actors -> BOOLEAN]
    /\ payload \in [Actors -> Versions \cup {Nothing}]
    /\ fd \in [Actors -> Inodes \cup {NoInode}]
    /\ \A a \in Actors : fd[a] # NoInode <=> pc[a] = "write"
    /\ got \in [Actors -> Versions \cup {Nothing}]
    /\ calls \in Nat

\* raw_cache.py:5, `Atomic writes (tmp + os.replace) avoid partial files`: the
\* blob under the entry's name always decodes, also after a crash.  It holds
\* for one writing process.
NoPartialFile == gz # NoInode => Readable(gz)

\* A payload that was cached once stays cached, whatever process dies where.
NeverLost == [][Cached # Nothing => Cached' # Nothing]_cacheVars
=============================================================================
