----------------------------- MODULE LSMEngine -----------------------------
(***************************************************************************)
(* The LSM engine of src/src/lsm/engine.cpp as a sequential system: the  *)
(* operations put, put_batch, remove, remove_batch, clear, flush and      *)
(* flush_all, each as one atomic step with the flush that put triggers   *)
(* and the tiered compaction (full_compact) that flush triggers, and the  *)
(* process exit, kill and restart.  The state and the operators on it are *)
(* those of LSMData.                                                     *)
(***************************************************************************)
EXTENDS LSMData

CONSTANTS
    MaxWrites,               \* bound on put/remove/clear calls
    MaxRestarts,             \* bound on process restarts
    BatchKeys                \* the key sets put_batch/remove_batch are given

ASSUME MaxWrites \in Nat /\ MaxRestarts \in Nat
ASSUME BatchKeys \subseteq SUBSET Keys

VARIABLES
    writes,          \* put/remove/clear calls so far
    restarts,        \* process restarts so far (model bound)
    lastCall         \* history: the last put/remove/clear call and its batch

vars == <<active, frozen, ssts, level_sst_ids, files, cur_max_sst_id,
          cur_max_level, alive, writes, restarts, lastCall>>

\* A client call as the history records it: its name and its batch, a
\* function from keys to the values written (Tomb for a remove).
CallRec(name, kvs) == [op |-> name, arg |-> kvs]

-----------------------------------------------------------------------------
(***************************************************************************)
(* Operations.                                                            *)
(***************************************************************************)

Init ==
    /\ active = EmptyTable
    /\ frozen = <<>>
    /\ ssts = [id \in {} |-> [file |-> <<0, 0>>, data |-> EmptyTable]]
    /\ level_sst_ids = [l \in Levels |-> <<>>]
    /\ files = [f \in {} |-> EmptyTable]
    /\ cur_max_sst_id = 0
    /\ cur_max_level = 0
    /\ alive = TRUE
    /\ writes = 0
    /\ restarts = 0
    /\ lastCall = CallRec("none", <<>>)

Write(E, call) ==
    /\ alive
    /\ writes < MaxWrites
    /\ SetEng(E)
    /\ writes' = writes + 1
    /\ lastCall' = call
    /\ UNCHANGED restarts

\* LSMEngine::put: memtable.put, then flush if the memtable is full.
Put(k, v) == Write(FlushIfFull(MemPutBatch(Eng, k :> v)), CallRec("put", k :> v))

\* LSMEngine::put_batch
PutBatch(kvs) == Write(FlushIfFull(MemPutBatch(Eng, kvs)), CallRec("put", kvs))

\* LSMEngine::remove: memtable.remove, i.e. put of "", with no size check.
RemoveKey(k) == Write(MemPutBatch(Eng, k :> Tomb), CallRec("remove", k :> Tomb))

\* LSMEngine::remove_batch
RemoveBatch(ks) ==
    Write(MemPutBatch(Eng, [k \in ks |-> Tomb]), CallRec("remove", [k \in ks |-> Tomb]))

\* LSMEngine::clear: drop the memtable, the level map and the SSTs and
\* delete every file; cur_max_sst_id and cur_max_level are kept.
Clear ==
    /\ alive
    /\ writes < MaxWrites
    /\ writes' = writes + 1
    /\ lastCall' = CallRec("clear", <<>>)
    /\ active' = EmptyTable
    /\ frozen' = <<>>
    /\ level_sst_ids' = [l \in Levels |-> <<>>]
    /\ ssts' = [id \in {} |-> [file |-> <<0, 0>>, data |-> EmptyTable]]
    /\ files' = [f \in {} |-> EmptyTable]
    /\ UNCHANGED <<cur_max_sst_id, cur_max_level, alive, restarts>>

\* LSM::flush and LSM::flush_all.
FlushOp    == alive /\ SetEng(Flush(Eng)) /\ UNCHANGED <<writes, restarts, lastCall>>
FlushAllOp == alive /\ SetEng(FlushAll(Eng)) /\ UNCHANGED <<writes, restarts, lastCall>>

\* LSMEngine::~LSMEngine: flush_all, then the process exits and its memory
\* (the memtable, the SST objects, the level map) is gone.
Close ==
    /\ alive
    /\ SetEng([FlushAll(Eng) EXCEPT !.alive = FALSE])
    /\ UNCHANGED <<writes, restarts, lastCall>>

\* The process is killed between two operations: nothing of the memtable
\* survives (there is no write-ahead log, spec section 1).
Crash ==
    /\ alive
    /\ alive' = FALSE
    /\ UNCHANGED <<active, frozen, ssts, level_sst_ids, files, cur_max_sst_id,
                   cur_max_level, writes, restarts, lastCall>>

\* The process is killed inside a call that flushes (put, put_batch or
\* flush), after n of the file operations of its flush and the compactions
\* that flush triggers.  The last of them is the write of the flushed
\* level-0 SST, so the call's effect on the SSTs is not complete, and the
\* dead process's memory is that of before the call.
CrashIn(E) ==
    /\ alive
    /\ \E n \in 1..Len(E.log) - 1 :
          files' = FilesAfter(files, SubSeq(E.log, 1, n))
    /\ alive' = FALSE
    /\ UNCHANGED <<active, frozen, ssts, level_sst_ids, cur_max_sst_id,
                   cur_max_level, writes, restarts, lastCall>>

CrashInCall ==
    \/ \E k \in Keys, v \in Vals : CrashIn(FlushIfFull(MemPutBatch(Eng, k :> v)))
    \/ \E D \in BatchKeys : \E kvs \in [D -> Vals] :
          CrashIn(FlushIfFull(MemPutBatch(Eng, kvs)))
    \/ CrashIn(Flush(Eng))

\* LSMEngine::LSMEngine on an existing directory: every file sst_<id>.<l>
\* is opened into ssts[id] and appended to level_sst_ids[l]; cur_max_sst_id
\* and cur_max_level (0 in a new object) become the largest id and level
\* seen; each level is sorted by id and level 0 reversed.  Two files with
\* one id leave in ssts[id] whichever the directory iterator gave last.
Open ==
    LET fs     == DOMAIN files
        ids    == {f[1] : f \in fs}
        idsAt(l) == AscendingKeys({f[1] : f \in {g \in fs : g[2] = l}})
    IN /\ ~alive
       /\ restarts < MaxRestarts
       /\ \E pick \in [ids -> fs] :
            /\ \A id \in ids : pick[id][1] = id
            /\ ssts' = [id \in ids |-> [file |-> pick[id], data |-> files[pick[id]]]]
       /\ level_sst_ids' = [l \in Levels |-> IF l = 0 THEN Reverse(idsAt(0))
                                                      ELSE idsAt(l)]
       /\ cur_max_sst_id' = Max(ids \cup {0})
       /\ cur_max_level' = Max({f[2] : f \in fs} \cup {0})
       /\ active' = EmptyTable
       /\ frozen' = <<>>
       /\ alive' = TRUE
       /\ restarts' = restarts + 1
       /\ UNCHANGED <<files, writes, lastCall>>

Next ==
    \/ \E k \in Keys, v \in Vals : Put(k, v)
    \/ \E D \in BatchKeys : \E kvs \in [D -> Vals] : PutBatch(kvs)
    \/ \E k \in Keys : RemoveKey(k)
    \/ \E ks \in BatchKeys : RemoveBatch(ks)
    \/ Clear
    \/ FlushOp
    \/ FlushAllOp

Spec == Init /\ [][Next]_vars

\* The engine inside a process that may exit, be killed, and start again
\* on the same data directory.
NextWithRestart == Next \/ Close \/ Crash \/ CrashInCall \/ Open

SpecWithRestart == Init /\ [][NextWithRestart]_vars

-----------------------------------------------------------------------------
(***************************************************************************)
(* Properties.                                                            *)
(***************************************************************************)

TypeOK ==
    /\ active \in Tables
    /\ frozen \in Seq(Tables)
    /\ DOMAIN ssts \subseteq Nat
    /\ \A id \in DOMAIN ssts : ssts[id].data \in Tables \ {EmptyTable}
    /\ level_sst_ids \in [Levels -> Seq(Nat)]
    /\ cur_max_sst_id \in Nat /\ cur_max_level \in Levels
    /\ alive \in BOOLEAN /\ writes \in 0..MaxWrites
    /\ restarts \in 0..MaxRestarts

\* What a client reads, key by key, through LSMEngine::get.
View == [k \in Keys |-> EngineGet(Eng, k)]

KV == INSTANCE KVStore WITH dict <- View, calls <- writes, last <- lastCall

\* Refinement: every client call of the engine (a write with the flush and
\* the compactions it triggers, clear) changes what get returns exactly as
\* the abstract store's call with the same batch does (lastCall names it), and flush and flush_all, with the
\* compactions they trigger, change nothing a reader sees (newest wins across the
\* memtable, level 0 by id, and the binary-searched deeper levels).
RefinesKVStore == KV!Spec

\* The level map is well formed (spec 3, 8.3, 8.4): level 0 is ordered by
\* sst_id newest first and holds at most LSM_SST_LEVEL_RATIO SSTs; each
\* deeper level is ordered by key with disjoint key ranges; every listed id
\* is listed once, is an open SST whose file exists with its contents, and
\* is older than cur_max_sst_id, so no later flush or compaction can mint
\* it again and overwrite its file.
LevelMapWellFormed ==
    LET listed == UNION {ToSet(level_sst_ids[l]) : l \in Levels}
    IN /\ IsSorted(level_sst_ids[0], >)
       /\ Len(level_sst_ids[0]) <= LSM_SST_LEVEL_RATIO
       /\ \A l \in Levels \ {0} : \A i \in 1..Len(level_sst_ids[l]) - 1 :
             Max(DOMAIN ssts[level_sst_ids[l][i]].data)
               < Min(DOMAIN ssts[level_sst_ids[l][i + 1]].data)
       /\ \A l, m \in Levels : \A i \in DOMAIN level_sst_ids[l] :
             \A j \in DOMAIN level_sst_ids[m] :
                level_sst_ids[l][i] = level_sst_ids[m][j] => l = m /\ i = j
       /\ listed = DOMAIN ssts
       /\ \A id \in listed : /\ ssts[id].file \in DOMAIN files
                             /\ files[ssts[id].file] = ssts[id].data
                             /\ id < cur_max_sst_id
       /\ \A l \in Levels : level_sst_ids[l] # <<>> => l <= cur_max_level

\* lsm_iters_monotony_predicate returns, for every key range, exactly the
\* live records a reader sees through get: across levels the newest
\* version of a key must come from the SST with the largest id.
RangeQueryMatchesGet ==
    \A lo, hi \in Keys :
        RangeQuery(Eng, lo, hi)
          = {<<k, View[k]>> : k \in {x \in lo..hi \cap Keys : View[x] # NoValue}}

\* An SST file, once written, is never rewritten with other contents while
\* it exists (SSTs are immutable and sst_id is globally unique, spec 3):
\* whatever mints the id of a new SST (flush, gen_sst_from_iter, after a
\* restart too) must not reuse the id of a file still on disk.
FilesNeverOverwritten ==
    [][\A f \in DOMAIN files \cap DOMAIN files' : files'[f] = files[f]]_vars

\* What get returns from the SSTs alone, the memtable left out.
DurableView ==
    [k \in Keys |-> EngineGet([Eng EXCEPT !.active = EmptyTable,
                                          !.frozen = <<>>], k)]

\* A process killed at any point, between calls or inside the file
\* operations of a flush and its compactions (full_compact writes the new
\* SSTs, then deletes the old files one by one), and started again on its
\* data directory, reads through get what the killed process read from its
\* SSTs: only the memtable is lost (spec section 1), and a compaction
\* changes nothing a reader sees.
RecoveryPreservesDurable == [][Open => View' = DurableView]_vars

\* A scan from begin() to end() emits every key a reader sees through get,
\* with that value, and nothing else (spec 8.7, scenario 7).
ScanMatchesGet ==
    Scan(Eng) = {<<k, View[k]>> : k \in {x \in Keys : View[x] # NoValue}}
=============================================================================
