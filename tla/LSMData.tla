------------------------------ MODULE LSMData ------------------------------
(***************************************************************************)
(* The LSM engine of src/src/lsm/engine.cpp: the memtable (one active and *)
(* a list of frozen skiplists), the level map level_sst_ids, the SST      *)
(* objects ssts and the SST files of the data directory; and the engine's *)
(* code as operators from one engine state to the next: the memtable      *)
(* calls, the merge iterators, flush with the tiered compaction           *)
(* (full_compact) it triggers, get, the range query and the scan.         *)
(* LSMEngine runs them as atomic calls, LSMConcurrency splits them at     *)
(* their locks.                                                           *)
(*                                                                         *)
(* Data is abstracted to what the properties tell apart: keys are small   *)
(* naturals (the order is the byte order of the key strings), a value is  *)
(* a model value, the empty value "" is the model value Tomb, and every   *)
(* key is one byte long and every non-empty value one byte, so a record   *)
(* weighs 2 (1 for a tombstone) in the memtable and SST size accounting.  *)
(* An SST is the function from its keys to their values: blocks, the meta *)
(* index, the bloom filter and the block cache are below this level.      *)
(***************************************************************************)
EXTENDS Integers, Sequences, FiniteSets, SequencesExt, FiniteSetsExt, TLC

CONSTANTS
    Keys,                    \* keys, a finite set of naturals
    Vals,                    \* non-empty values (model values)
    Tomb,                    \* the empty value "", a tombstone
    NoValue,                 \* std::nullopt
    LSM_PER_MEM_SIZE_LIMIT,  \* size at which the active skiplist is frozen
    LSM_TOL_MEM_SIZE_LIMIT,  \* memtable size at which put flushes
    LSM_SST_LEVEL_RATIO,     \* fan-out: SSTs per level before compaction
    MaxLevel                 \* deepest level the model provides for

ASSUME Keys \subseteq Nat /\ Keys # {}
ASSUME LSM_PER_MEM_SIZE_LIMIT \in Nat \ {0}
ASSUME LSM_TOL_MEM_SIZE_LIMIT \in Nat \ {0}
ASSUME LSM_SST_LEVEL_RATIO \in Nat \ {0, 1}
ASSUME MaxLevel \in Nat \ {0}

VARIABLES
    active,          \* memtable: the active skiplist, a table
    frozen,          \* memtable: frozen skiplists, newest first
    ssts,            \* sst_id -> [file, data]: the open SST objects
    level_sst_ids,   \* level -> sequence of sst_id
    files,           \* <<sst_id, level>> -> data: files sst_<id>.<level>
    cur_max_sst_id,  \* the next sst_id to mint
    cur_max_level,   \* deepest level get searches
    alive            \* FALSE once the process has aborted


Value  == Vals \cup {Tomb}
Levels == 0..MaxLevel

\* A skiplist or an SST: a function from some keys to their values.
Tables == UNION {[D -> Value] : D \in SUBSET Keys}
EmptyTable == [k \in {} |-> Tomb]

\* Bytes a record adds to SkipList::size and to SSTBuilder::estimated_size.
EntrySize(v) == 1 + (IF v = Tomb THEN 0 ELSE 1)
TableSize(t) == MapThenSumSet(LAMBDA k : EntrySize(t[k]), DOMAIN t)

Visible(v) == IF v = Tomb THEN NoValue ELSE v

RECURSIVE AscendingKeys(_)
AscendingKeys(D) ==
    IF D = {} THEN <<>> ELSE <<Min(D)>> \o AscendingKeys(D \ {Min(D)})

\* The ascending sequence of <<key, value>> records of a table.
Records(t) == [i \in 1..Cardinality(DOMAIN t) |->
                  <<AscendingKeys(DOMAIN t)[i], t[AscendingKeys(DOMAIN t)[i]]>>]

(***************************************************************************)
(* The engine as one record, so that an operation that calls others       *)
(* (put -> flush -> full_compact -> full_compact ...) is a composition of *)
(* operators from engine to engine.  The field log records the file     *)
(* operations of the call so far, in the order the code performs them, so *)
(* that a crash can stop the call after any of them.                      *)
(***************************************************************************)
Eng == [active |-> active, frozen |-> frozen, ssts |-> ssts,
        level_sst_ids |-> level_sst_ids, files |-> files,
        cur_max_sst_id |-> cur_max_sst_id, cur_max_level |-> cur_max_level,
        alive |-> alive, log |-> <<>>]

SetEng(E) ==
    /\ active' = E.active
    /\ frozen' = E.frozen
    /\ ssts' = E.ssts
    /\ level_sst_ids' = E.level_sst_ids
    /\ files' = E.files
    /\ cur_max_sst_id' = E.cur_max_sst_id
    /\ cur_max_level' = E.cur_max_level
    /\ alive' = E.alive

\* A file operation: SSTBuilder::build writes file f with data t,
\* SST::del_sst deletes it.
WriteOp(f, t) == [op |-> "write", file |-> f, data |-> t]
DelOp(f)      == [op |-> "del", file |-> f, data |-> EmptyTable]

ApplyFileOp(F, o) ==
    IF o.op = "write" THEN (o.file :> o.data) @@ F
    ELSE [f \in DOMAIN F \ {o.file} |-> F[f]]

\* The data directory after the file operations ops.
FilesAfter(F, ops) == FoldLeft(ApplyFileOp, F, ops)

-----------------------------------------------------------------------------
(***************************************************************************)
(* MemTable (its code is not in the repository: modelled from spec 4.2).  *)
(***************************************************************************)

\* MemTable::get_total_size: the bytes of all skiplists.
MemTotalSize(E) ==
    TableSize(E.active) + MapThenSumSet(LAMBDA i : TableSize(E.frozen[i]),
                                        DOMAIN E.frozen)

\* MemTable::get: active first, then frozen from newest to oldest.
MemGet(E, k) ==
    IF k \in DOMAIN E.active THEN E.active[k]
    ELSE LET i == SelectInSeq(E.frozen, LAMBDA t : k \in DOMAIN t)
         IN IF i = 0 THEN NoValue ELSE E.frozen[i][k]

\* MemTable::freeze_current once the active skiplist reaches the watermark.
FreezeIfFull(E) ==
    IF TableSize(E.active) >= LSM_PER_MEM_SIZE_LIMIT
    THEN [E EXCEPT !.frozen = <<E.active>> \o @, !.active = EmptyTable]
    ELSE E

\* MemTable::put_batch (put and remove are batches of one; remove writes
\* the tombstone ""): write into the active skiplist, then freeze it if
\* it has reached LSM_PER_MEM_SIZE_LIMIT.
MemPutBatch(E, kvs) == FreezeIfFull([E EXCEPT !.active = kvs @@ @])

-----------------------------------------------------------------------------
(***************************************************************************)
(* Iterators.                                                             *)
(***************************************************************************)

\* operator> of SearchItem (key first, then idx), the order of the heap's
\* std::greater.
SearchItemGreater(a, b) == IF a.key # b.key THEN a.key > b.key ELSE a.idx > b.idx

\* HeapIterator over a set of SearchItems: a std::priority_queue ordered by
\* std::greater, so a min-heap in SearchItem order, that emits the top item of each key and drops the other items
\* with the same key.
HeapMerge(items) ==
    LET ks  == AscendingKeys({i.key : i \in items})
        top(k) == CHOOSE i \in items :
                     /\ i.key = k
                     /\ \A j \in items : j.key = k => ~SearchItemGreater(i, j)
    IN [n \in 1..Len(ks) |-> <<ks[n], top(ks[n]).value>>]

\* The SearchItems of the SSTs ids, with idx = -sst_id so that the newest
\* SST (largest id) is the top of the heap for a key.
SstItems(E, ids, ks) ==
    UNION {{[key |-> k, value |-> E.ssts[id].data[k], idx |-> -id] :
              k \in DOMAIN E.ssts[id].data \cap ks} : id \in ids}

\* SstIterator::merge_sst_iterator over the level-0 SSTs ids.
MergeSstIterator(E, ids) == HeapMerge(SstItems(E, ToSet(ids), Keys))

\* ConcactIterator: the SSTs' records one SST after the other.
ConcatIterator(E, ids) ==
    FlattenSeq([i \in 1..Len(ids) |-> Records(E.ssts[ids[i]].data)])

\* TwoMergeIterator(a, b): merges two ascending cursors; on equal keys the
\* record of a is emitted and both advance.
RECURSIVE TwoMerge(_, _)
TwoMerge(a, b) ==
    CASE a = <<>> -> b
      [] b = <<>> -> a
      [] Head(a)[1] < Head(b)[1] -> <<Head(a)>> \o TwoMerge(Tail(a), b)
      [] Head(b)[1] < Head(a)[1] -> <<Head(b)>> \o TwoMerge(a, Tail(b))
      [] OTHER -> <<Head(a)>> \o TwoMerge(Tail(a), Tail(b))

-----------------------------------------------------------------------------
(***************************************************************************)
(* Flush and compaction.                                                  *)
(***************************************************************************)

\* SSTBuilder::build: mint cur_max_sst_id++, write file sst_<id>.<level>.
BuildSst(E, t, level) ==
    LET id == E.cur_max_sst_id
    IN [eng |-> [E EXCEPT !.cur_max_sst_id = @ + 1,
                          !.files = (<<id, level>> :> t) @@ @,
                          !.log = Append(@, WriteOp(<<id, level>>, t))],
        sst |-> [id |-> id, file |-> <<id, level>>, data |-> t]]

\* LSMEngine::get_sst_size
GetSstSize(level) ==
    IF level = 0 THEN LSM_PER_MEM_SIZE_LIMIT
    ELSE LSM_PER_MEM_SIZE_LIMIT * LSM_SST_LEVEL_RATIO ^ level

\* LSMEngine::gen_sst_from_iter: add records to a builder and build an SST
\* whenever its estimated size reaches target; build the rest at the end.
\* Mutant: the last SST is built even when the builder is empty.
FinishBuildAlways(E, builder, level, out) ==
    LET B == BuildSst(E, builder, level)
    IN [eng |-> B.eng, new |-> Append(out, B.sst)]

\* The tail of gen_sst_from_iter: build what the builder still holds.
FinishBuild(E, builder, level, out) ==
    IF TableSize(builder) > 0
    THEN LET B == BuildSst(E, builder, level)
         IN [eng |-> B.eng, new |-> Append(out, B.sst)]
    ELSE [eng |-> E, new |-> out]

RECURSIVE GenLoop(_, _, _, _, _, _)
GenLoop(E, stream, builder, target, level, out) ==
    IF stream = <<>> THEN FinishBuild(E, builder, level, out)
    ELSE LET b == (Head(stream)[1] :> Head(stream)[2]) @@ builder
         IN IF TableSize(b) >= target
            THEN LET B == BuildSst(E, b, level)
                 IN GenLoop(B.eng, Tail(stream), EmptyTable, target, level,
                            Append(out, B.sst))
            ELSE GenLoop(E, Tail(stream), b, target, level, out)

GenSstFromIter(E, stream, target, level) ==
    GenLoop(E, stream, EmptyTable, target, level, <<>>)

\* LSMEngine::full_compact(src): compact level src+1 first if it is full,
\* merge all of src into src+1 (full_l0_l1_compact for src = 0,
\* full_common_compact otherwise), delete the old SSTs and install the
\* new ones at src+1 sorted by id.  The new files are all written before
\* the old ones are deleted: those of src in list order, then those of src+1.
RECURSIVE FullCompact(_, _)
FullCompact(E, src) ==
    LET E1 == IF Len(E.level_sst_ids[src + 1]) >= LSM_SST_LEVEL_RATIO
              THEN FullCompact(E, src + 1) ELSE E
        x  == E1.level_sst_ids[src]
        y  == E1.level_sst_ids[src + 1]
        G  == IF src = 0
              THEN GenSstFromIter(E1, TwoMerge(MergeSstIterator(E1, x),
                                               ConcatIterator(E1, y)),
                                  LSM_PER_MEM_SIZE_LIMIT * LSM_SST_LEVEL_RATIO, 1)
              ELSE GenSstFromIter(E1, TwoMerge(ConcatIterator(E1, x),
                                               ConcatIterator(E1, y)),
                                  GetSstSize(src + 1), src + 1)
        old    == ToSet(x) \cup ToSet(y)
        oldFs  == {E1.ssts[id].file : id \in old}
        newIds == [i \in 1..Len(G.new) |-> G.new[i].id]
        kept   == [id \in DOMAIN E1.ssts \ old |-> E1.ssts[id]]
        dels(ids) == [i \in 1..Len(ids) |-> DelOp(E1.ssts[ids[i]].file)]
    IN [G.eng EXCEPT
          !.files = [f \in DOMAIN @ \ oldFs |-> @[f]],
          !.log   = @ \o dels(x) \o dels(y),
          !.ssts  = [n \in ToSet(newIds) |->
                       LET s == G.new[CHOOSE i \in DOMAIN G.new : G.new[i].id = n]
                       IN [file |-> s.file, data |-> s.data]] @@ kept,
          !.level_sst_ids = [@ EXCEPT ![src] = <<>>,
                                      ![src + 1] = SortSeq(newIds, <)],
          !.cur_max_level = Max({@, src + 1})]

\* Mutant: level 0 is compacted only once it holds more than the ratio.
FlushLateCompact(E) ==
    IF MemTotalSize(E) = 0 THEN E
    ELSE LET E1 == IF Len(E.level_sst_ids[0]) > LSM_SST_LEVEL_RATIO
                   THEN FullCompact(E, 0) ELSE E
             id == E1.cur_max_sst_id
         IN IF E1.frozen = <<>>
            THEN [E1 EXCEPT !.cur_max_sst_id = @ + 1, !.alive = FALSE]
            ELSE LET t == Last(E1.frozen)
                 IN [E1 EXCEPT !.cur_max_sst_id = @ + 1,
                               !.frozen = Front(@),
                               !.files = (<<id, 0>> :> t) @@ @,
                               !.log = Append(@, WriteOp(<<id, 0>>, t)),
                               !.ssts = (id :> [file |-> <<id, 0>>, data |-> t]) @@ @,
                               !.level_sst_ids[0] = <<id>> \o @]

\* LSMEngine::flush: nothing to do on an empty memtable; compact level 0
\* if it is full; mint an id; MemTable::flush_last turns the oldest frozen
\* skiplist into an SST of level 0, pushed at the front of level 0.
\* flush_last on an empty frozen list is an invariant violation (spec 4.2):
\* the process aborts.
Flush(E) ==
    IF MemTotalSize(E) = 0 THEN E
    ELSE LET E1 == IF Len(E.level_sst_ids[0]) >= LSM_SST_LEVEL_RATIO
                   THEN FullCompact(E, 0) ELSE E
             id == E1.cur_max_sst_id
         IN IF E1.frozen = <<>>
            THEN [E1 EXCEPT !.cur_max_sst_id = @ + 1, !.alive = FALSE]
            ELSE LET t == Last(E1.frozen)
                 IN [E1 EXCEPT !.cur_max_sst_id = @ + 1,
                               !.frozen = Front(@),
                               !.files = (<<id, 0>> :> t) @@ @,
                               !.log = Append(@, WriteOp(<<id, 0>>, t)),
                               !.ssts = (id :> [file |-> <<id, 0>>, data |-> t]) @@ @,
                               !.level_sst_ids[0] = <<id>> \o @]

\* LSMEngine::flush_all: flush while the memtable holds any bytes.
RECURSIVE FlushAll(_)
FlushAll(E) ==
    IF ~E.alive \/ MemTotalSize(E) = 0 THEN E ELSE FlushAll(Flush(E))

\* The size check of put and put_batch after the memtable write.
FlushIfFull(E) ==
    IF MemTotalSize(E) >= LSM_TOL_MEM_SIZE_LIMIT THEN Flush(E) ELSE E

-----------------------------------------------------------------------------
(***************************************************************************)
(* Reads.                                                                 *)
(***************************************************************************)

\* The binary search of one level >= 1 in LSMEngine::get: an SST whose
\* [first_key, last_key] holds k answers (found, or absent: break); else
\* the search moves right or left.
RECURSIVE LevelSearch(_, _, _, _, _)
LevelSearch(E, ids, k, left, right) ==
    IF left >= right THEN NoValue
    ELSE LET mid  == left + (right - left) \div 2
             data == E.ssts[ids[mid + 1]].data
         IN CASE Min(DOMAIN data) <= k /\ k <= Max(DOMAIN data) ->
                    IF k \in DOMAIN data THEN data[k] ELSE NoValue
              [] Max(DOMAIN data) < k -> LevelSearch(E, ids, k, mid + 1, right)
              [] OTHER -> LevelSearch(E, ids, k, left, mid)

RECURSIVE DeepGet(_, _, _)
DeepGet(E, k, level) ==
    IF level > E.cur_max_level THEN NoValue
    ELSE LET r == LevelSearch(E, E.level_sst_ids[level], k, 0,
                              Len(E.level_sst_ids[level]))
         IN IF r # NoValue THEN r ELSE DeepGet(E, k, level + 1)

\* Mutant: level 0 is searched oldest SST first.
EngineGetOldestL0First(E, k) ==
    LET mv == MemGet(E, k)
        l0 == Reverse(E.level_sst_ids[0])
        i  == SelectInSeq(l0, LAMBDA id : k \in DOMAIN E.ssts[id].data)
    IN IF mv # NoValue THEN Visible(mv)
       ELSE IF i # 0 THEN Visible(E.ssts[l0[i]].data[k])
       ELSE Visible(DeepGet(E, k, 1))

\* LSMEngine::get: memtable, then level 0 newest first, then levels
\* 1..cur_max_level; the first hit answers and a tombstone reads as absent.
EngineGet(E, k) ==
    LET mv == MemGet(E, k)
        l0 == E.level_sst_ids[0]
        i  == SelectInSeq(l0, LAMBDA id : k \in DOMAIN E.ssts[id].data)
    IN IF mv # NoValue THEN Visible(mv)
       ELSE IF i # 0 THEN Visible(E.ssts[l0[i]].data[k])
       ELSE Visible(DeepGet(E, k, 1))

\* Mutant: the SearchItems carry idx = +sst_id (the sign not reversed).
RangeQueryIdxNotNegated(E, lo, hi) ==
    LET live    == {k \in lo..hi : MemGet(E, k) # NoValue}
        memRecs == [i \in 1..Cardinality(live) |->
                      <<AscendingKeys(live)[i], MemGet(E, AscendingKeys(live)[i])>>]
        ids   == UNION {ToSet(E.level_sst_ids[l]) : l \in Levels}
        items == {[i EXCEPT !.idx = -@] : i \in SstItems(E, ids, lo..hi)}
        merged == TwoMerge(memRecs, HeapMerge(items))
    IN {merged[i] : i \in {j \in DOMAIN merged : merged[j][2] # Tomb}}

\* LSMEngine::lsm_iters_monotony_predicate for a predicate that is zero
\* exactly on the keys lo..hi: the memtable's records in range merged
\* (TwoMergeIterator, memtable wins) with a HeapIterator over the records in
\* range of every SST of every level, idx = -sst_id.  The cursor skips
\* tombstones; the result is the set of <<key, value>> records it emits.
RangeQuery(E, lo, hi) ==
    LET live    == {k \in lo..hi : MemGet(E, k) # NoValue}
        memRecs == [i \in 1..Cardinality(live) |->
                      <<AscendingKeys(live)[i], MemGet(E, AscendingKeys(live)[i])>>]
        ids   == UNION {ToSet(E.level_sst_ids[l]) : l \in Levels}
        merged == TwoMerge(memRecs, HeapMerge(SstItems(E, ids, lo..hi)))
    IN {merged[i] : i \in {j \in DOMAIN merged : merged[j][2] # Tomb}}

\* LSMEngine::begin .. end: the memtable's records merged (memtable wins)
\* with a HeapIterator over the records of the level-0 SSTs; tombstones
\* are skipped.  The result is the set of records the scan emits.
Scan(E) ==
    LET live    == {k \in Keys : MemGet(E, k) # NoValue}
        memRecs == [i \in 1..Cardinality(live) |->
                      <<AscendingKeys(live)[i], MemGet(E, AscendingKeys(live)[i])>>]
        merged  == TwoMerge(memRecs, MergeSstIterator(E, E.level_sst_ids[0]))
    IN {merged[i] : i \in {j \in DOMAIN merged : merged[j][2] # Tomb}}

=============================================================================
