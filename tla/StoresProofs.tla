---------------------------- MODULE StoresProofs ----------------------------
(***************************************************************************)
(* Proofs about what is kept and by whom it is written.                    *)
(*                                                                         *)
(* An entry of the raw cache (RawCache): for any number of coroutines of   *)
(* one process, with and without overwrite, any versions and any kills,    *)
(* and the migration beside them, until a caller writes while it converts. *)
(*                                                                         *)
(* The derived tables (Nightly): for any days, prices, windows, and any    *)
(* publications, failing jobs and kills between the nightly jobs.          *)
(***************************************************************************)
EXTENDS StoresMC, DataTheorems, TLAPS

-----------------------------------------------------------------------------
(* The inductive invariant *)

Busy     == {"check", "open", "write", "replace", "unlink"}
Holding  == {"write", "verify", "replace", "weigh"}
Before   == {"open", "write", "verify", "replace"}
PcValues == {"idle", "fetch", "answered", "check", "open", "write", "verify", "replace", "weigh",
             "unlink"}

\* One coroutine at a time is between resuming with an answer and its return, and
\* only the migration reads its archive back and weighs it.
Turns ==
    /\ \A v, w \in Writers : v # w /\ pc[w] \in Busy => pc[v] \notin Busy
    /\ \A w \in Writers : pc[w] \notin {"verify", "weigh"}
    /\ pc[Migration] \notin {"fetch", "answered", "check"}

\* While the migration converts, the blob it read is there, no caller is at the
\* files, and there is no archive until it moves its own into place.
Scenes ==
    /\ Converting => legacy # Nothing /\ payload[Migration] = legacy
    /\ Converting => \A w \in Writers : ~Storing(w) /\ pc[w] # "unlink"
    /\ pc[Migration] \in Before => gz = NoInode

\* What the files hold at each step of a write.
Contents ==
    /\ tmp # NoInode => tmp # gz
    /\ \A w \in Writers : pc[w] \in Busy \cup {"answered"} => payload[w] \in Versions
    /\ \A a \in Actors :
         /\ pc[a] = "write" => tmp # NoInode /\ fd[a] = tmp /\ data[tmp] = Nothing
         /\ pc[a] \in {"verify", "replace"} => tmp # NoInode /\ data[tmp] = payload[a]
         /\ pc[a] \in {"weigh", "unlink"} => gz # NoInode
    /\ pc[Migration] = "weigh" => data[gz] = legacy
    /\ NoPartialFile

Unraced == Scenes /\ Contents
CacheInv == CacheTypeOK /\ Turns /\ (~raced => Unraced)

\* Who the actors are.
LEMMA Names ==
    ASSUME CacheAssumption
    PROVE  /\ Migration \in Actors /\ Writers \subseteq Actors
           /\ \A a \in Actors : a \in Writers \/ a = Migration
           /\ \A a \in Actors : <<a, 0>> \in Inodes /\ <<a, 1>> \in Inodes
           /\ 1 \in Versions /\ 0 \notin Versions /\ Versions \subseteq Nat
BY DEF CacheAssumption, Actors, Inodes, Versions

\* One actor at a time has a file open or on its way, after a step in which no
\* caller met the migration.
LEMMA Alone ==
    ASSUME CacheAssumption, Turns', ~Collide', NEW a \in Actors, NEW b \in Actors,
           pc'[a] \in Holding, pc'[b] \in Holding
    PROVE  a = b
<1>1. CASE a \in Writers /\ b \in Writers
  BY <1>1 DEF Turns, Holding, Busy
<1>2. CASE a = Migration \/ b = Migration
  <2>1. Converting'
    BY <1>2 DEF Converting, Holding, CacheAssumption
  <2>2. \A w \in Writers : pc'[w] \notin Holding
    BY <2>1 DEF Collide, Storing, Holding, Turns
  <2> QED
    BY <2>2, Names
<1> QED
  BY <1>1, <1>2, Names

\* open() creates a file of its own.
LEMMA FreshInode ==
    ASSUME CacheAssumption, NEW a \in Actors, tmp = NoInode
    PROVE  Fresh(a) \in Inodes /\ Fresh(a) # gz
<1>1. <<a, 0>> # <<a, 1>>
  OBVIOUS
<1>2. \E i \in {a} \X {0, 1} : i \notin {gz, tmp}
  <2>1. <<a, 0>> # tmp /\ <<a, 1>> # tmp
    BY Names DEF CacheAssumption
  <2> QED
    BY <1>1, <2>1
<1>3. Fresh(a) \in {a} \X {0, 1} /\ Fresh(a) \notin {gz, tmp}
  BY <1>2 DEF Fresh
<1> QED
  BY <1>3 DEF Inodes

-----------------------------------------------------------------------------
(* Types *)

\* What the cache returns is a version or nothing.
LEMMA CachedType == ASSUME CacheTypeOK PROVE Cached \in Versions \cup {Nothing}
BY DEF CacheTypeOK, Cached, Readable

\* Every action preserves the types.
LEMMA TypesStep == ASSUME CacheAssumption, CacheTypeOK, [CacheNext]_cacheVars PROVE CacheTypeOK'
<1> USE Names DEF CacheTypeOK, Goto
<1>1. CASE SourcePublishes
  <2>1. source' \in Versions
    BY <1>1 DEF SourcePublishes, Versions, CacheAssumption
  <2> QED
    BY <1>1, <2>1 DEF SourcePublishes, cacheFiles
<1>2. ASSUME NEW w \in Writers, Call(w) PROVE CacheTypeOK'
  <2>1. PICK o \in Overwrites :
          /\ overwrite' = [overwrite EXCEPT ![w] = o]
          /\ IF ~o /\ Cached # Nothing
             THEN got' = [got EXCEPT ![w] = Cached] /\ UNCHANGED pc
             ELSE Goto(w, "fetch") /\ UNCHANGED got
    BY <1>2 DEF Call
  <2>2. PICK c \in Versions \cup {Nothing} : c = Cached
    BY CachedType
  <2>3. pc[w] = "idle" /\ calls' \in Nat /\ UNCHANGED <<cacheFiles, source, payload, fd>>
    BY <1>2 DEF Call
  <2>4. o \in BOOLEAN
    BY DEF CacheAssumption
  <2> QED
    BY <2>1, <2>2, <2>3, <2>4 DEF cacheFiles
<1>3. ASSUME NEW w \in Writers, Answer(w) PROVE CacheTypeOK'
  BY <1>3 DEF Answer, cacheFiles
<1>4. ASSUME NEW w \in Writers, Resume(w) \/ FetchFails(w) PROVE CacheTypeOK'
  BY <1>4 DEF Resume, FetchFails, cacheFiles
<1>5. ASSUME NEW w \in Writers, Check(w) PROVE CacheTypeOK'
  BY <1>5 DEF Check, cacheFiles
<1>6. ASSUME NEW a \in Actors, OpenTmp(a) PROVE CacheTypeOK'
  <2>1. PICK i : i = IF tmp = NoInode THEN Fresh(a) ELSE tmp
    OBVIOUS
  <2>2. i \in Inodes /\ i # NoInode
    BY <2>1, FreshInode DEF CacheAssumption
  <2>3. /\ pc' = [pc EXCEPT ![a] = "write"] /\ tmp' = i /\ fd' = [fd EXCEPT ![a] = i]
        /\ data' = [data EXCEPT ![i] = Nothing]
        /\ UNCHANGED <<gz, legacy, source, overwrite, payload, got, calls>>
    BY <1>6, <2>1 DEF OpenTmp
  <2>4. data' \in [Inodes -> Data]
    BY <2>2, <2>3 DEF Data
  <2>5. \A b \in Actors : fd'[b] # NoInode <=> pc'[b] = "write"
    BY <2>2, <2>3
  <2> QED
    BY <2>2, <2>3, <2>4, <2>5
<1>7. ASSUME NEW a \in Actors, WriteTmp(a) PROVE CacheTypeOK'
  <2>1. PICK v : v = IF data[fd[a]] \in {Nothing, payload[a]} THEN payload[a] ELSE Garbled
    OBVIOUS
  <2>2. v \in Data
    BY <2>1 DEF Data
  <2>3. PICK l \in {"verify", "replace"} : pc' = [pc EXCEPT ![a] = l]
    BY <1>7 DEF WriteTmp
  <2>4. /\ data' = [data EXCEPT ![fd[a]] = v] /\ fd' = [fd EXCEPT ![a] = NoInode]
        /\ UNCHANGED <<gz, tmp, legacy, source, overwrite, payload, got, calls>>
    BY <1>7, <2>1 DEF WriteTmp
  <2> QED
    BY <2>2, <2>3, <2>4
<1>8. ASSUME NEW a \in Actors, Replace(a) PROVE CacheTypeOK'
  <2>1. PICK l \in {"weigh", "unlink", "idle"} : pc' = [pc EXCEPT ![a] = l]
    BY <1>8 DEF Replace
  <2> QED
    BY <1>8, <2>1 DEF Replace
<1>9. ASSUME NEW w \in Writers, UnlinkLegacy(w) PROVE CacheTypeOK'
  BY <1>9 DEF UnlinkLegacy
<1>10. ASSUME NEW a \in Actors, Crash(a) PROVE CacheTypeOK'
  BY <1>10 DEF Crash, cacheFiles
<1>11. CASE MigrationScans
  <2>1. PICK l \in {"unlink", "open"} : pc' = [pc EXCEPT ![Migration] = l]
    BY <1>11 DEF MigrationScans
  <2> QED
    BY <1>11, <2>1 DEF MigrationScans, cacheFiles
<1>12. CASE MigrationVerifies
  BY <1>12 DEF MigrationVerifies
<1>13. CASE MigrationWeighs
  BY <1>13 DEF MigrationWeighs
<1>14. CASE MigrationUnlinks
  BY <1>14 DEF MigrationUnlinks
<1>15. CASE UNCHANGED cacheVars
  BY <1>15 DEF cacheVars, cacheFiles
<1> QED
  BY <1>1, <1>2, <1>3, <1>4, <1>5, <1>6, <1>7, <1>8, <1>9, <1>10, <1>11, <1>12, <1>13,
     <1>14, <1>15
  DEF CacheNext, FetchOrCache, Writes, Migrates

-----------------------------------------------------------------------------
(* Turns *)

\* A coroutine that resumes finds the event loop free.
LEMMA LoopIsFree ==
    ASSUME OneLoop, NEW w \in Writers, LoopFree(w)
    PROVE  \A v \in Writers \ {w} : pc[v] \notin Busy
BY DEF OneLoop, LoopFree, Busy

\* Every action preserves the turns.
LEMMA TurnsStep ==
    ASSUME CacheAssumption, OneLoop, CacheTypeOK, Turns, [CacheNext]_cacheVars
    PROVE  Turns'
<1> USE Names DEF CacheTypeOK, Goto, Turns, Busy
<1>1. ASSUME NEW w \in Writers, Call(w) PROVE Turns'
  <2>1. pc' = pc \/ pc' = [pc EXCEPT ![w] = "fetch"]
    BY <1>1 DEF Call
  <2> QED
    BY <2>1 DEF CacheAssumption
<1>2. ASSUME NEW w \in Writers, Resume(w) PROVE Turns'
  BY <1>2, LoopIsFree DEF Resume, CacheAssumption
<1>3. ASSUME NEW w \in Writers, NEW l \in {"idle", "fetch", "answered"},
             pc' = [pc EXCEPT ![w] = l]
      PROVE  Turns'
  BY <1>3 DEF CacheAssumption
<1>4. ASSUME NEW w \in Writers, NEW l \in {"open", "write", "replace", "unlink"},
             pc[w] \in Busy, pc' = [pc EXCEPT ![w] = l]
      PROVE  Turns'
  BY <1>4 DEF CacheAssumption
<1>5. ASSUME NEW l \in {"idle", "open", "write", "verify", "replace", "weigh", "unlink"},
             pc' = [pc EXCEPT ![Migration] = l]
      PROVE  Turns'
  BY <1>5 DEF CacheAssumption
<1>6. ASSUME NEW w \in Writers, FetchOrCache(w) PROVE Turns'
  <2>1. CASE Answer(w) \/ FetchFails(w)
    BY <1>3, <2>1 DEF Answer, FetchFails
  <2>2. CASE Check(w)
    BY <1>3, <1>4, <2>2 DEF Check
  <2>3. CASE OpenTmp(w)
    BY <1>4, <2>3 DEF OpenTmp
  <2>4. CASE WriteTmp(w)
    BY <1>4, <2>4 DEF WriteTmp, CacheAssumption
  <2>5. CASE Replace(w)
    BY <1>3, <1>4, <2>5 DEF Replace, CacheAssumption
  <2>6. CASE UnlinkLegacy(w)
    BY <1>3, <2>6 DEF UnlinkLegacy
  <2> QED
    BY <1>2, <1>6, <2>1, <2>2, <2>3, <2>4, <2>5, <2>6 DEF FetchOrCache, Writes
<1>7. CASE Migrates
  <2>1. CASE MigrationScans
    BY <1>5, <2>1 DEF MigrationScans
  <2>2. CASE OpenTmp(Migration) \/ WriteTmp(Migration) \/ Replace(Migration)
    BY <1>5, <2>2 DEF OpenTmp, WriteTmp, Replace
  <2>3. CASE MigrationVerifies \/ MigrationWeighs \/ MigrationUnlinks
    BY <1>5, <2>3 DEF MigrationVerifies, MigrationWeighs, MigrationUnlinks
  <2> QED
    BY <1>7, <2>1, <2>2, <2>3 DEF Migrates, Writes
<1>8. ASSUME NEW a \in Actors, Crash(a) PROVE Turns'
  BY <1>8 DEF Crash
<1>9. CASE UNCHANGED pc
  BY <1>9
<1> QED
  BY <1>1, <1>6, <1>7, <1>8, <1>9 DEF CacheNext, SourcePublishes, cacheVars

-----------------------------------------------------------------------------
(* Scenes *)

\* Every action after which caller and migration have not met preserves the scenes.
LEMMA ScenesStep ==
    ASSUME CacheAssumption, CacheTypeOK, Turns, Unraced, [CacheNext]_cacheVars, ~Collide'
    PROVE  Scenes'
<1>0. pc \in [Actors -> PcValues] /\ DOMAIN payload = Actors /\ Contents /\ Scenes
  BY DEF CacheTypeOK, PcValues, Unraced
<1> USE <1>0, Names DEF Goto, Scenes, Converting, Storing, Before, Collide
<1>1. ASSUME NEW w \in Writers, NEW l \in {"idle", "fetch", "answered", "check", "open"},
             pc' = [pc EXCEPT ![w] = l], UNCHANGED <<gz, legacy>>,
             payload'[Migration] = payload[Migration]
      PROVE  Scenes'
  BY <1>1 DEF CacheAssumption
<1>2. ASSUME NEW w \in Writers, Call(w) PROVE Scenes'
  <2>1. pc' = pc \/ pc' = [pc EXCEPT ![w] = "fetch"]
    BY <1>2 DEF Call
  <2>2. UNCHANGED <<gz, legacy, payload>>
    BY <1>2 DEF Call, cacheFiles
  <2> QED
    BY <1>1, <2>1, <2>2
<1>3. ASSUME NEW w \in Writers, Answer(w) \/ Resume(w) \/ FetchFails(w) PROVE Scenes'
  BY <1>1, <1>3 DEF Answer, Resume, FetchFails, cacheFiles, CacheAssumption
<1>4. ASSUME NEW w \in Writers, Check(w) PROVE Scenes'
  BY <1>1, <1>4 DEF Check, cacheFiles
<1>5. ASSUME NEW w \in Writers, NEW l \in {"write", "replace"}, pc' = [pc EXCEPT ![w] = l]
      PROVE  Scenes'
  <2>1. pc'[w] = l /\ ~Converting'
    BY <1>5
  <2> QED
    BY <2>1 DEF CacheAssumption
<1>6. ASSUME NEW w \in Writers, pc[w] \in {"replace", "unlink"}, NEW l \in {"unlink", "idle"},
             pc' = [pc EXCEPT ![w] = l]
      PROVE  Scenes'
  <2>1. ~Converting /\ pc'[Migration] = pc[Migration]
    BY <1>6 DEF CacheAssumption
  <2> QED
    BY <2>1 DEF CacheAssumption
<1>7. ASSUME NEW w \in Writers, Writes(w) \/ UnlinkLegacy(w) PROVE Scenes'
  BY <1>5, <1>6, <1>7 DEF Writes, OpenTmp, WriteTmp, Replace, UnlinkLegacy, CacheAssumption
<1>8. ASSUME NEW l \in Before, pc[Migration] \in Before, pc' = [pc EXCEPT ![Migration] = l],
             UNCHANGED <<gz, legacy, payload>>
      PROVE  Scenes'
  BY <1>8 DEF CacheAssumption
<1>9. ASSUME NEW l \in {"idle", "unlink"}, pc' = [pc EXCEPT ![Migration] = l] PROVE Scenes'
  <2>1. pc'[Migration] = l
    BY <1>9
  <2> QED
    BY <2>1
<1>10. CASE OpenTmp(Migration) \/ WriteTmp(Migration)
  BY <1>8, <1>10 DEF OpenTmp, WriteTmp
<1>11. CASE Replace(Migration)
  <2>1. CASE pc' = [pc EXCEPT ![Migration] = "weigh"]
    <3>1. pc[Migration] = "replace" /\ UNCHANGED <<legacy, payload>>
      BY <1>11 DEF Replace
    <3> QED
      BY <2>1, <3>1 DEF CacheAssumption
  <2> QED
    BY <1>9, <1>11, <2>1 DEF Replace
<1>12. CASE MigrationScans
  <2>1. /\ legacy # Nothing /\ payload'[Migration] = legacy /\ UNCHANGED <<gz, legacy>>
        /\ pc' = [pc EXCEPT ![Migration] = IF Readable(gz) THEN "unlink" ELSE "open"]
    BY <1>12 DEF MigrationScans, cacheFiles
  <2>2. CASE Readable(gz)
    BY <1>9, <2>1, <2>2
  <2>3. CASE ~Readable(gz)
    <3>1. gz = NoInode /\ \A w \in Writers : pc[w] # "unlink"
      BY <2>3 DEF Contents, NoPartialFile
    <3>2. pc'[Migration] = "open" /\ \A w \in Writers : pc'[w] = pc[w]
      BY <2>1, <2>3 DEF CacheAssumption
    <3> QED
      BY <2>1, <3>1, <3>2
  <2> QED
    BY <2>2, <2>3
<1>13. CASE MigrationVerifies
  <2>1. /\ pc[Migration] = "verify" /\ UNCHANGED <<gz, legacy, payload>>
        /\ \/ pc' = [pc EXCEPT ![Migration] = "replace"]
           \/ pc' = [pc EXCEPT ![Migration] = "idle"]
    BY <1>13 DEF MigrationVerifies
  <2> QED
    BY <1>8, <1>9, <2>1
<1>14. CASE MigrationWeighs \/ MigrationUnlinks
  BY <1>9, <1>14 DEF MigrationWeighs, MigrationUnlinks
<1>15. ASSUME NEW a \in Actors, Crash(a) PROVE Scenes'
  BY <1>15 DEF Crash, cacheFiles
<1>16. CASE UNCHANGED <<pc, gz, legacy, payload>>
  BY <1>16
<1> QED
  BY <1>2, <1>3, <1>4, <1>7, <1>10, <1>11, <1>12, <1>13, <1>14, <1>15, <1>16
  DEF CacheNext, FetchOrCache, Writes, Migrates, SourcePublishes, cacheVars, cacheFiles

-----------------------------------------------------------------------------
(* Contents *)

\* What an actor writes and puts in place is a payload.
LEMMA PayloadReal ==
    ASSUME CacheAssumption, CacheTypeOK, Turns, Unraced, NEW a \in Actors,
           pc[a] \in {"open", "write", "verify", "replace", "weigh"}
    PROVE  payload[a] \in Versions
<1>1. CASE a \in Writers
  BY <1>1 DEF Turns, Unraced, Contents, Busy
<1>2. CASE a = Migration
  BY <1>2 DEF CacheTypeOK, Unraced, Scenes, Converting, CacheAssumption
<1> QED
  BY <1>1, <1>2, Names

\* A step that leaves the archive and the temporary file alone.
LEMMA FilesAlone ==
    ASSUME CacheAssumption, CacheTypeOK, Unraced, UNCHANGED <<data, gz, tmp>>, NEW a \in Actors,
           NEW l \in {"idle", "fetch", "answered", "check", "open", "unlink"},
           pc' = [pc EXCEPT ![a] = l], fd' = fd,
           l = "unlink" => gz # NoInode,
           a \in Writers /\ l \in Busy \cup {"answered"} => payload'[a] \in Versions,
           \A b \in Actors \ {a} : payload'[b] = payload[b],
           legacy' = legacy \/ pc[Migration] # "weigh"
    PROVE  Contents'
<1>0. pc \in [Actors -> PcValues] /\ Contents
  BY DEF CacheTypeOK, PcValues, Unraced
<1>1. \A w \in Writers : pc'[w] \in Busy \cup {"answered"} => payload'[w] \in Versions
  BY <1>0, Names DEF Contents
<1>2. \A b \in Actors :
         /\ pc'[b] = "write" => tmp' # NoInode /\ fd'[b] = tmp' /\ data'[tmp'] = Nothing
         /\ pc'[b] \in {"verify", "replace"} => tmp' # NoInode /\ data'[tmp'] = payload'[b]
         /\ pc'[b] \in {"weigh", "unlink"} => gz' # NoInode
  BY <1>0 DEF Contents
<1>3. pc'[Migration] = "weigh" => data'[gz'] = legacy'
  BY <1>0, Names DEF Contents
<1>4. NoPartialFile' /\ (tmp' # NoInode => tmp' # gz')
  BY <1>0 DEF Contents, NoPartialFile, Readable
<1> QED
  BY <1>1, <1>2, <1>3, <1>4 DEF Contents

\* Every action after which caller and migration have not met preserves what the
\* files hold.
LEMMA ContentsStep ==
    ASSUME CacheAssumption, CacheTypeOK, Turns, Unraced, CacheTypeOK', Turns',
           [CacheNext]_cacheVars, ~Collide'
    PROVE  Contents'
<1>0. /\ pc \in [Actors -> PcValues] /\ pc' \in [Actors -> PcValues]
      /\ Scenes /\ Contents
      /\ data \in [Inodes -> Data] /\ DOMAIN fd = Actors /\ DOMAIN payload = Actors
  BY DEF CacheTypeOK, PcValues, Unraced
<1>00. ASSUME NEW a \in Actors, pc'[a] \in Holding
       PROVE  \A b \in Actors \ {a} : pc'[b] \notin Holding
  BY <1>00, Alone
<1>1. CASE SourcePublishes
  BY <1>0, <1>1 DEF SourcePublishes, cacheFiles, Contents, NoPartialFile, Readable
<1>2. ASSUME NEW w \in Writers, Call(w) PROVE Contents'
  <2>1. pc' = [pc EXCEPT ![w] = "idle"] \/ pc' = [pc EXCEPT ![w] = "fetch"]
    BY <1>0, <1>2, Names DEF Call, Goto
  <2> QED
    BY <1>2, <2>1, FilesAlone, Names DEF Call, Busy, cacheFiles
<1>3. ASSUME NEW w \in Writers, Answer(w) PROVE Contents'
  <2>1. payload'[w] \in Versions /\ \A b \in Actors \ {w} : payload'[b] = payload[b]
    BY <1>0, <1>3, Names DEF Answer, CacheTypeOK
  <2> QED
    BY <1>3, <2>1, FilesAlone, Names DEF Answer, Goto, cacheFiles
<1>4. ASSUME NEW w \in Writers, Resume(w) \/ FetchFails(w) \/ Check(w) PROVE Contents'
  <2>1. pc[w] \in {"answered", "check"} => payload[w] \in Versions
    BY <1>0 DEF Contents, Busy
  <2>2. CASE Resume(w)
    BY <2>1, <2>2, FilesAlone, Names DEF Resume, Goto, cacheFiles
  <2>3. CASE FetchFails(w)
    BY <2>3, FilesAlone, Names DEF FetchFails, Goto, Busy, cacheFiles
  <2>4. CASE Check(w)
    BY <2>1, <2>4, FilesAlone, Names DEF Check, Goto, cacheFiles
  <2> QED
    BY <1>4, <2>2, <2>3, <2>4
<1>5. ASSUME NEW a \in Actors, OpenTmp(a) PROVE Contents'
  <2>1. PICK i : i = IF tmp = NoInode THEN Fresh(a) ELSE tmp
    OBVIOUS
  <2>2. i \in Inodes /\ i # NoInode /\ i # gz
    BY <1>0, <2>1, FreshInode DEF CacheAssumption, CacheTypeOK, Contents
  <2>3. /\ pc[a] = "open" /\ pc' = [pc EXCEPT ![a] = "write"] /\ tmp' = i
        /\ fd' = [fd EXCEPT ![a] = i] /\ data' = [data EXCEPT ![i] = Nothing]
        /\ UNCHANGED <<gz, legacy, payload>>
    BY <1>5, <2>1 DEF OpenTmp, Goto
  <2>4. pc'[a] = "write" /\ fd'[a] = i /\ data'[i] = Nothing
    BY <1>0, <2>2, <2>3
  <2>5. \A b \in Actors \ {a} : pc'[b] \notin Holding /\ pc'[b] = pc[b]
    BY <1>0, <1>00, <2>3, <2>4 DEF Holding
  <2>6. \A b \in Actors :
         /\ pc'[b] = "write" => tmp' # NoInode /\ fd'[b] = tmp' /\ data'[tmp'] = Nothing
         /\ pc'[b] \in {"verify", "replace"} => tmp' # NoInode /\ data'[tmp'] = payload'[b]
         /\ pc'[b] \in {"weigh", "unlink"} => gz' # NoInode
    BY <1>0, <2>2, <2>3, <2>4, <2>5 DEF Holding, Contents
  <2>7. \A w \in Writers : pc'[w] \in Busy \cup {"answered"} => payload'[w] \in Versions
    BY <1>0, <2>3, Names DEF Contents, Busy
  <2>8. pc'[Migration] # "weigh"
    BY <2>4, <2>5, Names DEF Holding
  <2>9. NoPartialFile'
    BY <1>0, <2>2, <2>3 DEF Contents, NoPartialFile, Readable
  <2> QED
    BY <2>2, <2>3, <2>6, <2>7, <2>8, <2>9 DEF Contents
<1>6. ASSUME NEW a \in Actors, WriteTmp(a) PROVE Contents'
  <2>1. pc[a] = "write" /\ tmp # NoInode /\ fd[a] = tmp /\ data[tmp] = Nothing /\ tmp # gz
        /\ tmp \in Inodes
    BY <1>0, <1>6 DEF WriteTmp, Contents, CacheTypeOK
  <2>2. PICK l \in {"verify", "replace"} : pc' = [pc EXCEPT ![a] = l]
    BY <1>6 DEF WriteTmp, Goto
  <2>3. data' = [data EXCEPT ![tmp] = payload[a]] /\ UNCHANGED <<gz, tmp, legacy, payload>>
    BY <1>0, <1>6, <2>1 DEF WriteTmp
  <2>4. pc'[a] \in {"verify", "replace"} /\ data'[tmp] = payload[a]
    BY <1>0, <2>1, <2>2, <2>3
  <2>5. \A b \in Actors \ {a} : pc'[b] \notin Holding /\ pc'[b] = pc[b]
    BY <1>0, <1>00, <2>2, <2>4 DEF Holding
  <2>6. \A b \in Actors :
         /\ pc'[b] = "write" => tmp' # NoInode /\ fd'[b] = tmp' /\ data'[tmp'] = Nothing
         /\ pc'[b] \in {"verify", "replace"} => tmp' # NoInode /\ data'[tmp'] = payload'[b]
         /\ pc'[b] \in {"weigh", "unlink"} => gz' # NoInode
    BY <1>0, <2>1, <2>3, <2>4, <2>5 DEF Holding, Contents
  <2>7. \A w \in Writers : pc'[w] \in Busy \cup {"answered"} => payload'[w] \in Versions
    BY <1>0, <2>1, <2>2, <2>3, Names DEF Contents, Busy
  <2>8. pc'[Migration] # "weigh"
    BY <2>4, <2>5, Names DEF Holding
  <2>9. NoPartialFile'
    BY <1>0, <2>1, <2>3 DEF Contents, NoPartialFile, Readable
  <2> QED
    BY <2>1, <2>3, <2>6, <2>7, <2>8, <2>9 DEF Contents
<1>7. ASSUME NEW a \in Actors, Replace(a) PROVE Contents'
  <2>1. pc[a] = "replace" /\ tmp # NoInode /\ data[tmp] = payload[a] /\ payload[a] \in Versions
    BY <1>0, <1>7, PayloadReal DEF Replace, Contents
  <2>2. /\ pc' = [pc EXCEPT ![a] = IF a = Migration THEN "weigh" ELSE "unlink"]
        /\ gz' = tmp /\ tmp' = NoInode /\ UNCHANGED <<data, legacy, payload>>
    BY <1>7, <2>1 DEF Replace, Goto
  <2>3. pc'[a] = (IF a = Migration THEN "weigh" ELSE "unlink")
    BY <1>0, <2>2
  <2>4. \A b \in Actors \ {a} : pc'[b] \notin Holding
    <3>1. CASE a = Migration
      BY <1>00, <2>3, <3>1 DEF Holding
    <3>2. CASE a # Migration
      <4>1. a \in Writers /\ pc'[Migration] = pc[Migration]
        BY <2>2, <3>2, Names
      <4>2. pc[Migration] \notin Holding
        BY <1>0, <2>1, <4>1 DEF Scenes, Converting, Storing, Holding, CacheAssumption
      <4>3. \A w \in Writers \ {a} : pc[w] \notin Holding
        BY <2>1, <4>1 DEF Turns, Busy, Holding
      <4> QED
        BY <1>0, <2>2, <4>1, <4>2, <4>3, Names
    <3> QED
      BY <3>1, <3>2
  <2>5. \A b \in Actors :
         /\ pc'[b] = "write" => tmp' # NoInode /\ fd'[b] = tmp' /\ data'[tmp'] = Nothing
         /\ pc'[b] \in {"verify", "replace"} => tmp' # NoInode /\ data'[tmp'] = payload'[b]
         /\ pc'[b] \in {"weigh", "unlink"} => gz' # NoInode
    BY <2>1, <2>2, <2>3, <2>4 DEF Holding
  <2>6. \A w \in Writers : pc'[w] \in Busy \cup {"answered"} => payload'[w] \in Versions
    BY <1>0, <2>1, <2>2, Names DEF Contents, Busy
  <2>7. pc'[Migration] = "weigh" => data'[gz'] = legacy'
    <3>1. CASE a = Migration
      BY <1>0, <2>1, <2>2, <3>1 DEF Scenes, Converting, CacheAssumption
    <3> QED
      BY <2>4, <3>1, Names DEF Holding
  <2>8. NoPartialFile'
    BY <2>1, <2>2 DEF NoPartialFile, Readable
  <2> QED
    BY <2>2, <2>5, <2>6, <2>7, <2>8 DEF Contents
<1>8. ASSUME NEW w \in Writers, UnlinkLegacy(w) PROVE Contents'
  <2>1. pc[Migration] # "weigh"
    BY <1>0, <1>8 DEF UnlinkLegacy, Scenes, Converting, CacheAssumption
  <2> QED
    BY <1>8, <2>1, FilesAlone, Names DEF UnlinkLegacy, Goto, Busy
<1>9. ASSUME NEW a \in Actors, Crash(a) PROVE Contents'
  <2>1. UNCHANGED <<data, gz, tmp, legacy, payload>>
    BY <1>9 DEF Crash, cacheFiles
  <2>2. \A b \in Actors : pc'[b] = "idle" \/ (pc'[b] = pc[b] /\ fd'[b] = fd[b])
    BY <1>0, <1>9 DEF Crash
  <2>3. \A w \in Writers : pc'[w] \in Busy \cup {"answered"} => payload'[w] \in Versions
    BY <1>0, <2>1, <2>2, Names DEF Contents, Busy
  <2>4. NoPartialFile'
    BY <1>0, <2>1 DEF Contents, NoPartialFile, Readable
  <2> QED
    BY <1>0, <2>1, <2>2, <2>3, <2>4, Names DEF Contents
<1>10. CASE MigrationScans
  <2>1. Readable(gz) => gz # NoInode
    BY DEF Readable
  <2> QED
    BY <1>0, <1>10, <2>1, FilesAlone, Names DEF MigrationScans, Goto, CacheAssumption, cacheFiles
<1>11. CASE MigrationVerifies
  <2>1. pc[Migration] = "verify" /\ Readable(tmp)
    BY <1>0, <1>11, PayloadReal, Names DEF MigrationVerifies, Contents, Readable
  <2>2. /\ pc' = [pc EXCEPT ![Migration] = "replace"]
        /\ UNCHANGED <<data, gz, tmp, legacy, fd, payload>>
    BY <1>11, <2>1 DEF MigrationVerifies, Goto
  <2>3. NoPartialFile'
    BY <1>0, <2>2 DEF Contents, NoPartialFile, Readable
  <2>4. \A w \in Writers : pc'[w] = pc[w]
    BY <2>2, Names DEF CacheAssumption
  <2> QED
    BY <1>0, <2>1, <2>2, <2>3, <2>4, Names DEF Contents
<1>12. CASE MigrationWeighs
  <2>0. pc[Migration] = "weigh" /\ UNCHANGED <<data, tmp, legacy, fd, payload>>
    BY <1>12 DEF MigrationWeighs
  <2>1. CASE UNCHANGED gz /\ Goto(Migration, "unlink")
    BY <1>0, <2>0, <2>1, FilesAlone, Names DEF Goto, Contents, CacheAssumption
  <2>2. CASE gz' = NoInode /\ Goto(Migration, "idle")
    <3>1. \A w \in Writers : pc'[w] = pc[w] /\ pc[w] \notin {"write", "verify", "replace", "weigh", "unlink"}
      BY <1>0, <2>0, <2>2 DEF Goto, Scenes, Converting, Storing, Turns, CacheAssumption
    <3>2. pc'[Migration] = "idle"
      BY <1>0, <2>2, Names DEF Goto
    <3> QED
      BY <1>0, <2>0, <2>2, <3>1, <3>2, Names DEF Contents, NoPartialFile, CacheAssumption
  <2> QED
    BY <1>12, <2>1, <2>2 DEF MigrationWeighs
<1>13. CASE MigrationUnlinks
  BY <1>13, FilesAlone, Names DEF MigrationUnlinks, Goto, CacheAssumption
<1>14. CASE UNCHANGED cacheVars
  BY <1>0, <1>14 DEF cacheVars, cacheFiles, Contents, NoPartialFile, Readable
<1> QED
  BY <1>1, <1>2, <1>3, <1>4, <1>5, <1>6, <1>7, <1>8, <1>9, <1>10, <1>11, <1>12, <1>13,
     <1>14, Names DEF CacheNext, FetchOrCache, Writes, Migrates

-----------------------------------------------------------------------------
(* The theorems *)

\* The invariant of the cache is one.
LEMMA CacheInvariant ==
    ASSUME CacheAssumption, OneLoop PROVE RaceSpec => []CacheInv
<1>1. RaceInit => CacheInv
  <2> SUFFICES ASSUME RaceInit PROVE CacheInv
    OBVIOUS
  <2> USE Names DEF RaceInit, CacheInit
  <2>1. CacheTypeOK
    BY DEF CacheTypeOK, Data
  <2>2. Turns /\ Scenes
    BY DEF Turns, Scenes, Converting, Busy, Before
  <2>3. Contents
    BY DEF Contents, NoPartialFile, Busy
  <2> QED
    BY <2>1, <2>2, <2>3 DEF CacheInv, Unraced
<1>2. ASSUME CacheInv, [RaceNext]_mcVars PROVE CacheInv'
  <2>1. [CacheNext]_cacheVars /\ CacheTypeOK /\ Turns
    BY <1>2 DEF CacheInv, RaceNext, mcVars
  <2>2. CacheTypeOK' /\ Turns'
    BY <2>1, TypesStep, TurnsStep
  <2>3. ASSUME ~raced', RaceNext PROVE Unraced'
    <3>1. Unraced /\ ~Collide'
      BY <1>2, <2>3 DEF RaceNext, CacheInv
    <3> QED
      BY <2>1, <2>2, <3>1, ScenesStep, ContentsStep DEF Unraced
  <2>4. ASSUME ~raced', UNCHANGED mcVars PROVE Unraced'
    BY <1>2, <2>4 DEF mcVars, cacheVars, cacheFiles, CacheInv, Unraced, Scenes, Contents, Converting,
       Storing, NoPartialFile, Readable
  <2> QED
    BY <1>2, <2>2, <2>3, <2>4 DEF CacheInv
<1> QED
  BY <1>1, <1>2, PTL DEF RaceSpec

\* The blob under the entry's name decodes, after a kill too (NoPartialFileUnlessRaced;
\* raw_cache.py:5, `Atomic writes (tmp + os.replace) avoid partial files`), for any
\* number of coroutines of one process and the migration beside them, until a caller
\* writes while the migration converts.
THEOREM EntryDecodes ==
    ASSUME CacheAssumption, OneLoop
    PROVE  RaceSpec => [](CacheTypeOK /\ NoPartialFileUnlessRaced)
<1>1. CacheInv => CacheTypeOK /\ NoPartialFileUnlessRaced
  BY DEF CacheInv, Unraced, Contents, NoPartialFileUnlessRaced
<1> QED
  BY <1>1, CacheInvariant, PTL

\* What a step that the claims are about starts from and ends in.
LEMMA Unmet ==
    ASSUME CacheInv, CacheInv', [RaceNext]_mcVars, ~raced'
    PROVE  Unraced /\ Unraced' /\ CacheTypeOK /\ Turns /\ [CacheNext]_cacheVars
BY DEF CacheInv, RaceNext, mcVars

\* The cache answers exactly when one of the entry's two names is there.
LEMMA Answers ==
    ASSUME CacheAssumption, Unraced
    PROVE  Cached # Nothing <=> gz # NoInode \/ legacy # Nothing
BY Names DEF Unraced, Contents, NoPartialFile, Readable, Cached, Nothing

\* The same after a step.
LEMMA AnswersNext ==
    ASSUME CacheAssumption, Unraced'
    PROVE  Cached' # Nothing <=> gz' # NoInode \/ legacy' # Nothing
BY Names DEF Unraced, Contents, NoPartialFile, Readable, Cached, Nothing

\* No step takes both of the entry's names away.
LEMMA NameStays ==
    ASSUME CacheAssumption, Unraced, [CacheNext]_cacheVars, gz # NoInode \/ legacy # Nothing
    PROVE  gz' # NoInode \/ legacy' # Nothing
<1>0. Contents /\ Scenes
  BY DEF Unraced
<1>1. ASSUME NEW a \in Actors, Replace(a) PROVE gz' # NoInode
  BY <1>0, <1>1 DEF Replace, Contents
<1>2. ASSUME NEW w \in Writers, UnlinkLegacy(w) PROVE gz' # NoInode
  BY <1>0, <1>2, Names DEF UnlinkLegacy, Contents
<1>3. CASE MigrationUnlinks
  BY <1>0, <1>3, Names DEF MigrationUnlinks, Contents
<1>4. CASE MigrationWeighs
  BY <1>0, <1>4 DEF MigrationWeighs, Scenes, Converting, CacheAssumption
<1>5. CASE UNCHANGED <<gz, legacy>>
  BY <1>5
<1> QED
  BY <1>1, <1>2, <1>3, <1>4, <1>5, Names
  DEF CacheNext, FetchOrCache, Writes, Migrates, SourcePublishes, Call, Answer, Resume, FetchFails,
      Check, OpenTmp, WriteTmp, Crash, MigrationScans, MigrationVerifies, cacheVars, cacheFiles

\* A call that fetched leaves a readable entry, and neither another call nor the
\* migration nor a kill takes the last readable one away (FetchedIsKept;
\* raw_cache.py:3-4, 68-103), until a caller writes while the migration converts.
THEOREM FetchedStays ==
    ASSUME CacheAssumption, OneLoop PROVE RaceSpec => FetchedIsKept
<1> DEFINE Stays == Cached # Nothing => Cached' # Nothing
           Leaves == \A w \in Writers : Check(w) /\ pc'[w] = "idle" => Cached' # Nothing
<1>1. ASSUME CacheInv, CacheInv', [RaceNext]_mcVars, ~raced' PROVE Stays
  BY <1>1, Unmet, Answers, AnswersNext, NameStays
<1>2. ASSUME CacheInv, CacheInv', [RaceNext]_mcVars, ~raced' PROVE Leaves
  <2> SUFFICES ASSUME NEW w \in Writers, Check(w), pc'[w] = "idle" PROVE Cached' # Nothing
    OBVIOUS
  <2>1. pc \in [Actors -> PcValues]
    BY <1>2, Unmet DEF CacheTypeOK, PcValues
  <2>2. gz' # NoInode \/ legacy' # Nothing
    BY <2>1, Names DEF Check, Goto, cacheFiles
  <2> QED
    BY <1>2, <2>2, Unmet, AnswersNext
<1>3. ASSUME CacheInv, CacheInv', [RaceNext]_mcVars PROVE [~raced' => Stays /\ Leaves]_mcVars
  BY <1>1, <1>2, <1>3
<1> QED
  BY <1>3, CacheInvariant, PTL DEF RaceSpec, FetchedIsKept

\* Once there is an entry, what the cache answers changes only in the step that moves
\* the payload of a caller into place (NoStaleResurfaces; raw_cache.py:88-89,
\* `leaving it would let a stale payload resurface`), for any number of coroutines,
\* overwriting or not, and the migration, until a caller writes while it converts.
THEOREM NoneResurfaces ==
    ASSUME CacheAssumption, OneLoop PROVE RaceSpec => NoStaleResurfaces
<1> DEFINE Moved == Cached # Nothing /\ Cached' # Cached =>
                       \E w \in Writers : Replace(w) /\ Cached' = payload[w]
<1>1. ASSUME CacheInv, CacheInv', [RaceNext]_mcVars, ~raced' PROVE Moved
  <2> SUFFICES ASSUME Cached # Nothing
               PROVE  Cached' = Cached \/ \E w \in Writers : Replace(w) /\ Cached' = payload[w]
    OBVIOUS
  <2>0. /\ [CacheNext]_cacheVars /\ CacheTypeOK /\ Turns /\ Contents /\ Scenes
        /\ data \in [Inodes -> Data] /\ NoPartialFile'
    BY <1>1, Unmet DEF Unraced, Contents, CacheTypeOK
  <2>1. ASSUME NEW a \in Actors, OpenTmp(a) \/ WriteTmp(a) PROVE Cached' = Cached
    <3>1. PICK i, v : data' = [data EXCEPT ![i] = v] /\ i # gz /\ UNCHANGED <<gz, legacy>>
      <4>1. CASE OpenTmp(a)
        BY <2>0, <4>1, FreshInode DEF OpenTmp, Contents
      <4>2. CASE WriteTmp(a)
        BY <2>0, <4>2 DEF WriteTmp, Contents
      <4> QED
        BY <2>1, <4>1, <4>2
    <3>2. gz # NoInode => data'[gz] = data[gz]
      BY <2>0, <3>1
    <3> QED
      BY <3>1, <3>2 DEF Cached, Readable
  <2>2. ASSUME NEW a \in Actors, Replace(a)
        PROVE  Cached' = payload[a] /\ (a = Migration => Cached' = Cached)
    <3>1. pc[a] = "replace" /\ tmp # NoInode /\ data[tmp] = payload[a] /\ gz' = tmp /\ data' = data
      BY <2>0, <2>2 DEF Replace, Contents
    <3>2. Cached' = payload[a]
      BY <2>0, <3>1 DEF Cached, NoPartialFile
    <3>3. a = Migration => gz = NoInode /\ payload[a] = legacy
      BY <2>0, <3>1 DEF Scenes, Before, Converting, CacheAssumption
    <3> QED
      BY <3>2, <3>3 DEF Cached
  <2>3. ASSUME NEW w \in Writers, UnlinkLegacy(w) PROVE Cached' = Cached
    <3>1. gz # NoInode /\ UNCHANGED <<gz, data>>
      BY <2>0, <2>3, Names DEF UnlinkLegacy, Contents
    <3> QED
      BY <3>1 DEF Cached, Readable
  <2>4. ASSUME MigrationUnlinks PROVE Cached' = Cached
    <3>1. gz # NoInode /\ UNCHANGED <<gz, data>>
      BY <2>0, <2>4, Names DEF MigrationUnlinks, Contents
    <3> QED
      BY <3>1 DEF Cached, Readable
  <2>5. ASSUME MigrationWeighs PROVE Cached' = Cached
    <3>1. gz # NoInode /\ Readable(gz) /\ data[gz] = legacy
      BY <2>0, <2>5, Names DEF MigrationWeighs, Contents, NoPartialFile
    <3> QED
      BY <2>5, <3>1 DEF MigrationWeighs, Cached, Readable
  <2>6. ASSUME UNCHANGED <<data, gz, legacy>> PROVE Cached' = Cached
    BY <2>6 DEF Cached, Readable
  <2> QED
    BY <2>0, <2>1, <2>2, <2>3, <2>4, <2>5, <2>6, Names
    DEF CacheNext, FetchOrCache, Writes, Migrates, SourcePublishes, Call, Answer, Resume, FetchFails,
        Check, Crash, MigrationScans, MigrationVerifies, cacheVars, cacheFiles
<1>2. ASSUME CacheInv, CacheInv', [RaceNext]_mcVars
      PROVE  [~raced' /\ Cached # Nothing /\ Cached' # Cached =>
                 \E w \in Writers : Replace(w) /\ Cached' = payload[w]]_mcVars
  BY <1>1, <1>2
<1> QED
  BY <1>2, CacheInvariant, PTL DEF RaceSpec, NoStaleResurfaces

-----------------------------------------------------------------------------
(* The derived tables: what they are derived from *)

\* A day of the model is one hour.
LEMMA OneHour ==
    ASSUME NEW d \in Nat
    PROVE  HoursOf(d) = {d}
<1>1. \A H : H = 1 => (d * H)..(d * H + H - 1) = {d}
  OBVIOUS
<1> QED
  BY <1>1, NightlyAssumption DEF HoursOf

\* Two series agree on an hour: both lack it, or both have the same value.
AgreeAt(f, g, h) == (h \in DOMAIN f <=> h \in DOMAIN g) /\ (h \in DOMAIN f => f[h] = g[h])

\* The baseline error of one hour reads that hour and the one a lag back.
LEMMA BaselineLocal ==
    ASSUME NEW e \in Nat, NEW lag \in Nat, NEW H \in SUBSET {e}, NEW a, NEW b,
           H \subseteq DOMAIN a, AgreeAt(a, b, e), AgreeAt(a, b, e - lag)
    PROVE  _baseline_mae(a, H, lag) = _baseline_mae(b, H, lag)
<1>1. PICK S : S = {h \in H : h - lag \in DOMAIN a}
  OBVIOUS
<1>2. S = {h \in H : h - lag \in DOMAIN b}
  BY <1>1 DEF AgreeAt
<1>3. PICK p, q : /\ p = [h \in S |-> Abs(a[h] - a[h - lag])]
                  /\ q = [h \in S |-> Abs(b[h] - b[h - lag])]
  OBVIOUS
<1>4. \A h \in S : h = e /\ a[h] = b[h] /\ a[h - lag] = b[h - lag]
  BY <1>1 DEF AgreeAt
<1>5. p = q
  BY <1>3, <1>4
<1>6. /\ _baseline_mae(a, H, lag) = IF S = {} THEN None ELSE MeanOver(p, S)
      /\ _baseline_mae(b, H, lag) = IF S = {} THEN None ELSE MeanOver(q, S)
  BY <1>1, <1>2, <1>3 DEF _baseline_mae
<1> QED
  BY <1>5, <1>6

\* The scores of a day read the day in both series, and in the actuals the day
\* before and the one a seasonal lag back.
LEMMA ScoresLocal ==
    ASSUME NEW e \in Nat, NEW f, NEW g, NEW a, NEW b, AgreeAt(f, g, e), AgreeAt(a, b, e),
           AgreeAt(a, b, e - 1), AgreeAt(a, b, e - SeasonalLag)
    PROVE  ScoresOf(f, a, {e})[e] = ScoresOf(g, b, {e})[e]
<1>1. PICK H : H = DOMAIN f \cap DOMAIN a \cap {e}
  OBVIOUS
<1>2. H = DOMAIN g \cap DOMAIN b \cap {e} /\ H \in SUBSET {e}
  BY <1>1 DEF AgreeAt
<1>3. ScoresOf(f, a, {e})[e] = score_hours(f, a, H) /\ ScoresOf(g, b, {e})[e] = score_hours(g, b, H)
  BY <1>1, <1>2, OneHour DEF ScoresOf
<1>4. \A h \in H : f[h] = g[h] /\ a[h] = b[h]
  BY <1>1 DEF AgreeAt
<1>5. PICK err : err = [h \in H |-> f[h] - a[h]]
  OBVIOUS
<1>6. PICK big : big = {h \in H : Abs(a[h]) >= MAPE_ACTUAL_FLOOR_MW}
  OBVIOUS
<1>7. PICK t : t = [h \in big |-> Ratio(Abs(err[h]), Abs(a[h]))]
  OBVIOUS
<1>8. err = [h \in H |-> g[h] - b[h]]
  BY <1>4, <1>5
<1>9. big = {h \in H : Abs(b[h]) >= MAPE_ACTUAL_FLOOR_MW}
  BY <1>4, <1>6
<1>10. t = [h \in big |-> Ratio(Abs(err[h]), Abs(b[h]))]
  BY <1>4, <1>6, <1>7
<1>11. PICK mean, mae, mse, mape :
         /\ mean = MeanOver(err, H) /\ mae = MeanOver([h \in H |-> Abs(err[h])], H)
         /\ mse = MeanOver([h \in H |-> err[h] * err[h]], H)
         /\ mape = IF big = {} THEN None
                   ELSE LET s == RatioSum(t, big) IN Ratio(100 * s.sum, s.n * Cardinality(big))
  OBVIOUS
<1>12. PICK lag1, lag2, p, w, p2, w2 :
         /\ lag1 = HoursPerDay /\ lag2 = SeasonalLag
         /\ p = _baseline_mae(a, H, lag1) /\ w = _baseline_mae(a, H, lag2)
         /\ p2 = _baseline_mae(b, H, lag1) /\ w2 = _baseline_mae(b, H, lag2)
  OBVIOUS
<1>13. p = p2 /\ w = w2
  <2>1. lag1 = 1 /\ lag1 \in Nat /\ lag2 \in Nat /\ H \subseteq DOMAIN a
    BY <1>1, <1>12, NightlyAssumption
  <2>2. AgreeAt(a, b, e - lag1) /\ AgreeAt(a, b, e - lag2)
    BY <1>12, <2>1
  <2>3. p = p2
    BY <1>2, <1>12, <2>1, <2>2, BaselineLocal
  <2>4. w = w2
    BY <1>2, <1>12, <2>1, <2>2, BaselineLocal
  <2> QED
    BY <2>3, <2>4
<1>14. score_hours(f, a, H) = IF H = {} THEN None
         ELSE [n_hours |-> Cardinality(H), bias |-> mean, mae |-> mae, mse |-> mse, mape |-> mape,
               persistence |-> p, seasonal |-> w]
  BY <1>5, <1>6, <1>7, <1>11, <1>12 DEF score_hours
<1>15. score_hours(g, b, H) = IF H = {} THEN None
         ELSE [n_hours |-> Cardinality(H), bias |-> mean, mae |-> mae, mse |-> mse, mape |-> mape,
               persistence |-> p2, seasonal |-> w2]
  BY <1>8, <1>9, <1>10, <1>11, <1>12 DEF score_hours
<1> QED
  BY <1>3, <1>13, <1>14, <1>15

\* Two runs of a set of days with one first day are one.
LEMMA RunsApart ==
    ASSUME NEW G \in SUBSET Int, NEW R \in AllRuns(G), NEW Q \in AllRuns(G), Min(R) = Min(Q)
    PROVE  R = Q
<1>1. PICK a \in Int, b \in Int : IsRun(G, R, a, b)
  BY DEF AllRuns
<1>2. PICK c \in Int, e \in Int : IsRun(G, Q, c, e)
  BY DEF AllRuns
<1>3. /\ R \in SUBSET Int /\ a \in R /\ b \in R /\ \A x \in R : a <= x /\ x <= b
      /\ Q \in SUBSET Int /\ c \in Q /\ e \in Q /\ \A x \in Q : c <= x /\ x <= e
  BY <1>1, <1>2 DEF IsRun, OpenRun
<1>4. Min(R) = a
  BY <1>3, EndsAre
<1>5. Min(Q) = c
  BY <1>3, EndsAre
<1>6. R \cap Q # {}
  BY <1>3, <1>4, <1>5
<1> QED
  BY <1>1, <1>2, <1>6, RunUnique

\* group_runs gives no two runs with one first day, the key of the table.
LEMMA StartsApart ==
    ASSUME NEW f, DOMAIN f \in SUBSET Int, IsFiniteSet(DOMAIN f),
           NEW qualifying, NEW holes, NEW lowest, NEW runs, runs = group_runs(f, qualifying, holes, lowest)
    PROVE  \A r, q \in runs : r.start = q.start => r = q
<1>1. CASE DOMAIN f = {}
  BY <1>1 DEF group_runs
<1>2. CASE DOMAIN f # {}
  <2>1. PICK G : G = (qualifying \cap DOMAIN f) \ holes
    OBVIOUS
  <2>2. PICK lo \in Int, last \in Int : /\ lo = Min(DOMAIN f) /\ last = Max(DOMAIN f)
                                       /\ \A d \in DOMAIN f : lo <= d /\ d <= last
    <3>1. PICK a \in DOMAIN f, b \in DOMAIN f : \A x \in DOMAIN f : a <= x /\ x <= b
      BY <1>2, HasEnds
    <3>2. Min(DOMAIN f) = a /\ Max(DOMAIN f) = b
      BY <3>1, EndsAre
    <3> QED
      BY <3>1, <3>2
  <2>3. PICK s, closed : s = ScanState(f, G, last) /\ closed = ClosedRuns(s)
    OBVIOUS
  <2>4. s = RunScan(G, lo, last)
    BY <2>2, <2>3, ZenonT(60) DEF ScanState, RunScan, IsScan, ScanStep, NoRuns, EndsRun, MAX_GAP_DAYS
  <2>5. PICK n \in Nat : last = (lo - 1) + n
    <3>1. last - (lo - 1) \in Nat /\ last = (lo - 1) + (last - (lo - 1))
      BY <1>2, <2>2
    <3> QED
      BY <3>1
  <2>6. G \in SUBSET Int /\ \A d \in G : lo <= d /\ d <= last
    BY <2>1, <2>2
  <2>7. closed = AllRuns(G)
    <3>1. ClosedRuns(RunScan(G, lo, last)) = AllRuns(G)
      BY <2>5, <2>6, ScanFindsRuns
    <3> QED
      BY <2>3, <2>4, <3>1
  <2>8. runs \subseteq {_close(days, f, lowest) : days \in closed}
    BY <1>2, <2>1, <2>2, <2>3 DEF group_runs, ClosedRuns
  <2>9. ASSUME NEW r \in runs, NEW q \in runs, r.start = q.start PROVE r = q
    <3>1. PICK R \in closed : r = _close(R, f, lowest)
      BY <2>8
    <3>2. PICK Q \in closed : q = _close(Q, f, lowest)
      BY <2>8
    <3>3. r.start = Min(R) /\ q.start = Min(Q)
      BY <3>1, <3>2 DEF _close
    <3>4. R = Q
      BY <2>6, <2>7, <2>9, <3>3, RunsApart
    <3> QED
      BY <3>1, <3>2, <3>4
  <2> QED
    BY <2>9
<1> QED
  BY <1>1, <1>2

\* The extremes of a record of plausible prices: one of each kind.
LEMMA BothKinds ==
    ASSUME NEW f, NEW new, new = compute_records(f, "price.dayahead"),
           NEW d \in DOMAIN f, f[d] \in Prices
    PROVE  DOMAIN new = {"max", "min"} /\ new = [k \in {"max", "min"} |-> new[k]]
<1>1. _bounds("price.dayahead") = <<-500, 4000>>
  BY DEF _bounds
<1>2. PICK ok : ok = {h \in DOMAIN f : -500 <= f[h] /\ f[h] <= 4000}
  BY Zenon
<1>3. d \in ok
  <2>1. \A p \in Prices : -500 <= p /\ p <= 4000
    BY NightlyAssumption, SMTT(40)
  <2> QED
    BY <1>2, <2>1
<1>4. PICK value, first :
        /\ value = [kind \in {"max", "min"} |->
                      IF kind = "max" THEN Max({f[h] : h \in ok}) ELSE Min({f[h] : h \in ok})]
        /\ first = [kind \in {"max", "min"} |-> Min({h \in ok : f[h] = value[kind]})]
  OBVIOUS
<1>5. new = [kind \in {"max", "min"} |-> [value |-> value[kind], ts |-> first[kind]]]
  <2>1. PICK bounds0 : bounds0 = _bounds("price.dayahead")
    OBVIOUS
  <2>2. bounds0[1] = -500 /\ bounds0[2] = 4000
    BY <1>1, <2>1
  <2>3. ok = {h \in DOMAIN f : bounds0[1] <= f[h] /\ f[h] <= bounds0[2]}
    BY <1>2, <2>2
  <2>4. \A kind \in {"max", "min"} :
          value[kind] = IF kind = "max" THEN Max({f[h] : h \in ok}) ELSE Min({f[h] : h \in ok})
    BY <1>4
  <2>5. new = [kind \in {"max", "min"} |->
                 LET v == IF kind = "max" THEN Max({f[h] : h \in ok}) ELSE Min({f[h] : h \in ok})
                 IN  [value |-> v, ts |-> Min({h \in ok : f[h] = v})]]
    BY <1>3, <2>1, <2>3 DEF compute_records
  <2> QED
    BY <1>4, <2>4, <2>5
<1> QED
  BY <1>5

-----------------------------------------------------------------------------
(* The derived tables: the invariant *)

\* There is a record, of plausible prices.
OnRecord ==
    /\ DOMAIN price \subseteq Days /\ DOMAIN price # {}
    /\ \A d \in DOMAIN price : price[d] \in Prices
\* What is kept: at most one row of each extreme, and for which days each table
\* was derived.
TableShapes ==
    /\ DOMAIN records \subseteq {"max", "min"}
    /\ DOMAIN fresh = {"scores", "episodes", "records"} /\ fresh.scores \subseteq Days
ScoresMatch ==
    \A d \in fresh.scores :
        /\ DayScore(d) = None => d \notin DOMAIN scores
        /\ DayScore(d) # None => d \in DOMAIN scores /\ scores[d] = DayScore(d)
EpisodesStored ==
    fresh.episodes # {} =>
        /\ DOMAIN episodes = {r.start : r \in Runs0}
        /\ \A r \in Runs0 : episodes[r.start].end = r.end /\ episodes[r.start].days = r.days
RecordsMatch == fresh.records # {} => compute_records(price, "price.dayahead") = records
NightInv == OnRecord /\ TableShapes /\ ScoresMatch /\ EpisodesStored /\ RecordsMatch

\* What the three clauses say is TablesMatch.
LEMMA InvMatches == ASSUME NightInv PROVE TablesMatch
BY DEF NightInv, TablesMatch, ScoresMatch, EpisodesStored, RecordsMatch

\* An ingest changes one day of a series.
LEMMA UpsertedAgrees ==
    ASSUME NEW f, NEW d, NEW v, NEW h, h # d
    PROVE  AgreeAt(Upserted(f, d, v), f, h)
BY DEF AgreeAt, Upserted

\* A publication drops the claims it may break.
LEMMA PublishStep ==
    ASSUME NightInv, NEW side \in {"price", "other"}, NEW d \in Days, NEW v \in Prices,
           Publish(side, d, v)
    PROVE  NightInv'
<1>1. OnRecord'
  <2>1. CASE side = "price"
    BY <2>1 DEF Publish, NightInv, OnRecord, Upserted
  <2>2. CASE side # "price"
    BY <2>2 DEF Publish, NightInv, OnRecord
  <2> QED
    BY <2>1, <2>2
<1>2. /\ fresh' = [scores |-> fresh.scores \ Touched(d), episodes |-> {}, records |-> {}]
      /\ records' = records /\ scores' = scores
  BY DEF Publish
<1>3. TableShapes'
  BY <1>2 DEF NightInv, TableShapes
<1>4. EpisodesStored' /\ RecordsMatch'
  BY <1>2 DEF EpisodesStored, RecordsMatch
<1>5. ASSUME NEW e \in fresh'.scores PROVE DayScore(e)' = DayScore(e) /\ e \in fresh.scores
  <2>1. e \in fresh.scores /\ e \in Nat /\ d \in Nat /\ e # d /\ e - 1 # d /\ e - SeasonalLag # d
    BY <1>2, <1>5, NightlyAssumption, SMTT(40) DEF NightInv, TableShapes, Touched
  <2>2. /\ AgreeAt(price', price, e) /\ AgreeAt(price', price, e - 1)
        /\ AgreeAt(price', price, e - SeasonalLag)
    <3>1. CASE side = "price"
      BY <2>1, <3>1, UpsertedAgrees DEF Publish
    <3>2. CASE side # "price"
      BY <3>2 DEF Publish, AgreeAt
    <3> QED
      BY <3>1, <3>2
  <2>3. AgreeAt(other', other, e)
    <3>1. CASE side = "price"
      BY <3>1 DEF Publish, AgreeAt
    <3>2. CASE side # "price"
      BY <2>1, <3>2, UpsertedAgrees DEF Publish
    <3> QED
      BY <3>1, <3>2
  <2>4. ScoresOf(other', price', {e})[e] = ScoresOf(other, price, {e})[e]
    BY <2>1, <2>2, <2>3, ScoresLocal, ZenonT(60)
  <2> QED
    BY <2>1, <2>4 DEF DayScore
<1>6. ScoresMatch'
  BY <1>2, <1>5 DEF NightInv, ScoresMatch
<1> QED
  BY <1>1, <1>3, <1>4, <1>6 DEF NightInv

\* compute_records replaces every extreme.
LEMMA RecordsStep == ASSUME NightInv, StoreRecords PROVE NightInv'
<1>1. PICK new : new = compute_records(price, "price.dayahead")
  OBVIOUS
<1>2. /\ records' = [k \in DOMAIN records \cup DOMAIN new |->
                       IF k \in DOMAIN new THEN new[k] ELSE records[k]]
      /\ fresh' = [fresh EXCEPT !.records = Days]
      /\ UNCHANGED <<price, other, scores, episodes>>
  BY <1>1 DEF StoreRecords, sources
<1>3. DOMAIN new = {"max", "min"} /\ new = [k \in {"max", "min"} |-> new[k]]
  BY <1>1, BothKinds DEF NightInv, OnRecord
<1>4. records' = new
  BY <1>2, <1>3 DEF NightInv, TableShapes
<1>5. /\ DOMAIN fresh' = DOMAIN fresh /\ fresh'.scores = fresh.scores
      /\ fresh'.episodes = fresh.episodes
  BY <1>2 DEF NightInv, TableShapes
<1>6. OnRecord' /\ TableShapes'
  BY <1>2, <1>3, <1>4, <1>5 DEF NightInv, OnRecord, TableShapes
<1>7. RecordsMatch'
  BY <1>1, <1>2, <1>4 DEF RecordsMatch
<1>8. ScoresMatch'
  BY <1>2, <1>5 DEF NightInv, ScoresMatch, DayScore
<1>9. EpisodesStored'
  BY <1>2, <1>5 DEF NightInv, EpisodesStored, Runs0, PriceDaily
<1> QED
  BY <1>6, <1>7, <1>8, <1>9 DEF NightInv

\* compute_episodes: the rows of the runs there are, each under its own first day.
LEMMA EpisodesStep == ASSUME NightInv, compute_episodes PROVE NightInv'
<1>1. PICK runs : runs = Runs0
  OBVIOUS
<1>2. /\ episodes' = Retracted(_upsert(episodes, runs), runs)
      /\ fresh' = [fresh EXCEPT !.episodes = Days]
      /\ UNCHANGED <<price, other, scores, records>>
  BY <1>1 DEF compute_episodes, sources
<1>3. \A r, q \in runs : r.start = q.start => r = q
  <2>1. PICK f : f = [d \in {x \in DOMAIN PriceDaily : PriceDaily[x].neg # None} |-> PriceDaily[d].neg]
    OBVIOUS
  <2>2. PICK long, holes, lowest : /\ long = {d \in DOMAIN f : f[d] >= NEGATIVE_HOURS_MIN}
                                   /\ holes = {} /\ lowest = FALSE
    OBVIOUS
  <2>3. runs = group_runs(f, long, holes, lowest)
    BY <1>1, <2>1, <2>2 DEF Runs0, _price_runs
  <2>4. DOMAIN f \in SUBSET Int /\ IsFiniteSet(DOMAIN f)
    <3>1. DOMAIN PriceDaily = DOMAIN price
      BY DEF PriceDaily
    <3>2. DOMAIN f \subseteq Days
      BY <2>1, <3>1 DEF NightInv, OnRecord
    <3>3. Days \subseteq Nat /\ IsFiniteSet(Days)
      BY NightlyAssumption, SMTT(40)
    <3>4. Days \in SUBSET Int
      BY <3>3
    <3>5. IsFiniteSet(DOMAIN f)
      BY <3>2, <3>3, FS_Subset
    <3>6. DOMAIN f \in SUBSET Int
      BY <3>2, <3>4
    <3> QED
      BY <3>5, <3>6
  <2> QED
    BY <2>3, <2>4, StartsApart
<1>4. PICK starts : starts = {r.start : r \in runs}
  OBVIOUS
<1>5. PICK up : up = _upsert(episodes, runs)
  OBVIOUS
<1>6. DOMAIN up = DOMAIN episodes \cup starts
  BY <1>4, <1>5 DEF _upsert
<1>7. ASSUME NEW r \in runs PROVE up[r.start].end = r.end /\ up[r.start].days = r.days
  <2>1. PICK s : s = r.start
    OBVIOUS
  <2>2. PICK run : run = CHOOSE q \in runs : q.start = s
    OBVIOUS
  <2>3. run = r
    BY <1>3, <2>1, <2>2
  <2>4. s \in DOMAIN episodes \cup {q.start : q \in runs} /\ \E q \in runs : q.start = s
    BY <2>1
  <2>5. up[s] = [end |-> run.end, days |-> run.days, status |-> Status(run, today)]
    BY <1>5, <2>2, <2>4 DEF _upsert
  <2> QED
    BY <2>1, <2>3, <2>5
<1>8. episodes' = [s \in DOMAIN up \cap starts |-> up[s]]
  BY <1>2, <1>4, <1>5 DEF Retracted
<1>9. /\ DOMAIN episodes' = starts
      /\ \A r \in runs : episodes'[r.start].end = r.end /\ episodes'[r.start].days = r.days
  BY <1>4, <1>6, <1>7, <1>8
<1>10. /\ DOMAIN fresh' = DOMAIN fresh /\ fresh'.scores = fresh.scores
       /\ fresh'.records = fresh.records
  BY <1>2 DEF NightInv, TableShapes
<1>11. Runs0' = runs
  BY <1>1, <1>2 DEF Runs0, PriceDaily
<1>12. EpisodesStored'
  BY <1>4, <1>9, <1>11 DEF EpisodesStored
<1>13. OnRecord' /\ TableShapes' /\ RecordsMatch'
  BY <1>2, <1>10 DEF NightInv, OnRecord, TableShapes, RecordsMatch
<1>14. ScoresMatch'
  BY <1>2, <1>10 DEF NightInv, ScoresMatch, DayScore
<1> QED
  BY <1>12, <1>13, <1>14 DEF NightInv

\* The score job replaces the rows of its window and drops those without a score.
LEMMA ScoresStep == ASSUME NightInv, StoreScores PROVE NightInv'
<1>1. PICK D, row, with : /\ D = InWindow \ {today} /\ row = [d \in D |-> DayScore(d)]
                          /\ with = {d \in D : row[d] # None}
  OBVIOUS
<1>2. /\ scores' = [d \in (DOMAIN scores \ D) \cup with |-> IF d \in D THEN row[d] ELSE scores[d]]
      /\ fresh' = [fresh EXCEPT !.scores = @ \cup D]
      /\ UNCHANGED <<price, other, episodes, records>>
  BY <1>1 DEF StoreScores, sources
<1>3. /\ DOMAIN fresh' = DOMAIN fresh /\ fresh'.scores = fresh.scores \cup D
      /\ fresh'.episodes = fresh.episodes /\ fresh'.records = fresh.records
  BY <1>2 DEF NightInv, TableShapes
<1>4. D \subseteq Days
  BY <1>1 DEF InWindow
<1>5. OnRecord' /\ TableShapes' /\ RecordsMatch'
  BY <1>2, <1>3, <1>4 DEF NightInv, OnRecord, TableShapes, RecordsMatch
<1>6. EpisodesStored'
  BY <1>2, <1>3 DEF NightInv, EpisodesStored, Runs0, PriceDaily
<1>7. ASSUME NEW d \in fresh.scores \cup D
      PROVE  /\ DayScore(d) = None => d \notin DOMAIN scores'
             /\ DayScore(d) # None => d \in DOMAIN scores' /\ scores'[d] = DayScore(d)
  <2>1. CASE d \in D
    BY <1>1, <1>2, <2>1
  <2>2. CASE d \notin D
    <3>1. /\ DayScore(d) = None => d \notin DOMAIN scores
          /\ DayScore(d) # None => d \in DOMAIN scores /\ scores[d] = DayScore(d)
      BY <1>7, <2>2 DEF NightInv, ScoresMatch
    <3> QED
      BY <1>1, <1>2, <2>2, <3>1
  <2> QED
    BY <2>1, <2>2
<1>8. \A d : DayScore(d)' = DayScore(d)
  BY <1>2 DEF DayScore
<1>9. ScoresMatch'
  BY <1>3, <1>7, <1>8 DEF ScoresMatch
<1> QED
  BY <1>5, <1>6, <1>9 DEF NightInv

\* What leaves the series and the three tables alone leaves the invariant alone.
LEMMA NightStutters ==
    ASSUME NightInv, UNCHANGED <<price, other, scores, episodes, records, fresh>> PROVE NightInv'
BY DEF NightInv, OnRecord, TableShapes, ScoresMatch, EpisodesStored, RecordsMatch, DayScore, Runs0, PriceDaily

\* No step of the jobs, the ingests, the archive or a failure breaks a claim.
LEMMA NightStep == ASSUME NightInv, [Next]_vars PROVE NightInv'
<1>1. CASE \E side \in {"price", "other"}, d \in Days, v \in Prices : Publish(side, d, v)
  BY <1>1, PublishStep
<1>2. CASE StoreRecords
  BY <1>2, RecordsStep
<1>3. CASE compute_episodes
  BY <1>3, EpisodesStep
<1>4. CASE StoreScores
  BY <1>4, ScoresStep
<1>5. CASE Midnight \/ StartConvergence \/ StoreMetric \/ Build \/ JobFails \/ Kill \/ UNCHANGED vars
  <2>1. UNCHANGED <<price, other, scores, episodes, records, fresh>>
    BY <1>5 DEF Midnight, StartConvergence, StoreMetric, StoreWindow, Build, StartBuild,
                build_year_file, ReplaceManifest, JobFails, Kill, vars, sources, tables
  <2> QED
    BY <2>1, NightStutters
<1> QED
  BY <1>1, <1>2, <1>3, <1>4, <1>5 DEF Next, Jobs

\* Nothing has been derived at first.
LEMMA NightStart == ASSUME Init PROVE NightInv
<1>1. PICK a \in Prices, b \in Prices : \A p \in Prices : a <= p /\ p <= b
  <2>1. Prices \in SUBSET Int /\ IsFiniteSet(Prices)
    <3>1. PICK lo, hi : lo = -500 /\ hi = 4000
      OBVIOUS
    <3>2. lo \in Int /\ hi \in Int /\ Prices \subseteq lo..hi
      BY <3>1, NightlyAssumption, SMTT(40)
    <3>3. IsFiniteSet(lo..hi)
      BY <3>2, FS_Interval
    <3>4. IsFiniteSet(Prices)
      BY <3>2, <3>3, FS_Subset
    <3>5. \A p \in Prices : p \in Int
      BY <3>2
    <3> QED
      BY <3>4, <3>5
  <2> QED
    BY <2>1, HasEnds, NightlyAssumption, SMTT(40)
<1>2. Min(Prices) = a /\ Max(Prices) = b
  <2>1. Prices \in SUBSET Int
    BY NightlyAssumption
  <2> QED
    BY <1>1, <2>1, EndsAre
<1>3. PICK last : last = Max(Days)
  OBVIOUS
<1>4. Days \ {last} # {}
  BY NightlyAssumption, SMTT(40)
<1>5. price = [d \in Days \ {last} |-> IF d <= 2 THEN a ELSE b]
  BY <1>2, <1>3 DEF Init
<1>6. OnRecord
  BY <1>4, <1>5 DEF OnRecord
<1>7. fresh = [t \in {"scores", "episodes", "records"} |-> {}] /\ records = <<>>
  BY DEF Init
<1>8. TableShapes /\ ScoresMatch /\ EpisodesStored /\ RecordsMatch
  BY <1>7 DEF TableShapes, ScoresMatch, EpisodesStored, RecordsMatch
<1> QED
  BY <1>6, <1>8 DEF NightInv

\* The scores, episodes and records are what the stored hours give, from the job
\* that wrote them until one of those hours changes (NightlyMatches; retracted
\* runs of episodes.py and dropped rows of forecast_score.py included), through
\* failing jobs, kills and publications between any two jobs.
THEOREM TablesKept == StoresSpec => []NightlyMatches
<1>1. StoresInit => NightInv
  BY NightStart DEF StoresInit
<1>2. NightInv /\ [StoresNext]_allVars => NightInv'
  BY NightStep DEF StoresNext, OfNightly, OfCache, allVars
<1>3. NightInv => NightlyMatches
  BY InvMatches DEF NightlyMatches
<1> QED
  BY <1>1, <1>2, <1>3, PTL DEF StoresSpec
=============================================================================
