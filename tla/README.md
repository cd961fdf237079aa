# TLA+ models of the LSM-Tree storage engine

This directory holds TLA+ specifications of the key-value engine in
`src/src/lsm/engine.cpp` and of the parts of the system that engine uses,
together with the TLC configurations that check them. `PROJECT.json` lists:

- every component and what of it is modelled;
- every run and the properties it checks;
- the mutants that show each property can fail;
- the source lines each definition translates;
- the findings;
- the hazards of the code.

## The system

The repository's `src/` holds four sources:

- `src/src/lsm/engine.cpp`, the engine and its facade `LSM`;
- `src/src/iterator/iterator.cpp`, the `SearchItem` order used by every heap merge;
- `src/include/memtable/iterator.h`, the memtable iterator's interface;
- `src/src/redis_wrapper/redis_wrapper.cpp`, a Redis command layer on top of `LSM`.

The memtable, skiplist, SST, block and block cache are described by `spec.md`
but their code is not under `src/`. Where the engine depends on them, they are
modelled from the spec and marked `spec_modelled` in the map.

### Inventory

| Component | State | Operations | Interacts with |
|---|---|---|---|
| MemTable / SkipList (spec 4.1, 4.2) | one active skiplist, a list of frozen skiplists (newest first), byte sizes | get, put, put_batch, remove (put of `""`), freeze at `LSM_PER_MEM_SIZE_LIMIT`, flush_last (oldest frozen table to an SST), get_total_size | engine |
| SST / SSTBuilder / Block (spec 4.3-4.5) | immutable file `sst_<id>.<level>`; first and last key; blocks | build, get, iterators, del_sst | engine, block cache |
| Iterators (`iterator.cpp`, spec 4.7) | SearchItem (key, value, idx, level); a heap of items | HeapIterator (min by key, then idx, one item per key), TwoMergeIterator (a wins on equal keys), ConcactIterator | engine |
| LSMEngine (`engine.cpp`) | memtable, `ssts` (id to SST), `level_sst_ids` (level to deque of ids), `cur_max_sst_id`, `cur_max_level`, the SST files; a `shared_mutex ssts_mtx` | constructor (scan the directory), destructor (flush_all), get, put, put_batch, remove, remove_batch, clear, flush, flush_all, begin/end, lsm_iters_monotony_predicate, full_compact, gen_sst_from_iter | memtable, SSTs, iterators, RedisWrapper |
| LSM facade | one engine | forwards each call | RedisWrapper |
| RedisWrapper (`redis_wrapper.cpp`) | an LSM; a `shared_mutex redis_mtx`; keys for strings, hash field lists, list, sorted-set score and member entries, and expiry entries | set/get/incr/decr/del/expire/ttl, h*, l*/r*, z* | LSM |

### Hard behaviours

1. **A write can trigger flushes and a cascade of compactions.**
   - A put or put_batch that brings the memtable to `LSM_TOL_MEM_SIZE_LIMIT` calls flush.
   - flush compacts level 0 into level 1 when level 0 holds `LSM_SST_LEVEL_RATIO` SSTs.
   - `full_compact(l)` first compacts level `l+1` when that level is full, so one call can rewrite every level.
   - Each compaction mints new ids from `cur_max_sst_id`.
2. **Newest wins across many places.** A key can live in:
   - the active table;
   - several frozen tables;
   - several level-0 SSTs;
   - one SST on each deeper level.

   get, the range iterator and the scan must all pick the newest version, each by its own route:

   - get searches the memtable, then level 0 in list order, then binary-searches each deeper level.
   - The range query orders all SSTs by `idx = -sst_id` in one heap.
   - The scan merges the memtable with level 0 only.
3. **Restart.** Nothing is logged. On open, the constructor scans the directory and rebuilds the level map, `cur_max_sst_id` and `cur_max_level` from the file names.
4. **Concurrency.**
   - `ssts_mtx` guards the level map in get, flush and compaction.
   - flush checks the memtable size before it takes the lock.
   - clear and the range iterator take no lock.
   - The Redis layer "upgrades" its shared lock by unlocking and relocking.
5. **Numeric edges.**
   - SST split sizes in `gen_sst_from_iter`.
   - The level-0 fan-out threshold.
   - `incr`/`decr` on 64-bit integers.
   - Unsigned sorted-set scores.

## Modules

### `KVStore.tla`: what the store promises

This is the abstract specification. `dict` maps each key to the value a reader sees, or
`NoValue`. `calls` counts the client calls that change the map. `last` is
the last call, its name and its batch (a function from keys to values).

The actions are Put (put and put_batch), Remove (remove and remove_batch)
and Clear. Each one is determined by its batch. An empty value (`Tomb`)
written by put reads as absent.

Flushes and compactions are not actions here, so in a refinement they must
be stuttering steps. `calls` makes that binding: a step of the engine that is
not a client call cannot be matched with an abstract Put that happens to produce
the same map. `last` is mapped to `LSMEngine`'s history variable `lastCall`,
which each call sets to its own name and batch. So a concrete put is matched
only with the abstract put of the same batch. Without it, any change of the
view would match some abstract batch.

### `LSMData.tla` and `LSMEngine.tla`: the engine

`LSMData` holds the engine's state and its code as operators on an engine
record. `LSMEngine` runs those operators as atomic client calls.
`LSMConcurrency` splits the same operators where the code takes its locks.

State (VARIABLES; `writes`, `restarts` and `lastCall` are `LSMEngine`'s own):

| Variable | Code |
|---|---|
| `active`, `frozen` | `memtable` (active skiplist, frozen list newest first) |
| `ssts` | `ssts` (id to SST; the model keeps its file name and its data) |
| `level_sst_ids` | `level_sst_ids` |
| `files` | the SST files of the data directory, `<<id, level>>` to data |
| `cur_max_sst_id`, `cur_max_level` | the fields of the same name |
| `alive` | FALSE once the process has stopped: aborted in flush_last, exited, or killed |
| `writes`, `restarts` | bounds on the client calls and process restarts |
| `lastCall` | history: the last client call, its name and batch, for the refinement |

Data abstraction:

- Keys are small naturals, in the order of the key strings.
- A value is a model value. `Tomb` is the empty string.
- Every key and non-empty value is one byte, so a record weighs 2 bytes (1 for a tombstone). This weight is what the skiplist and SST builder add to their sizes.
- An SST is the function from its keys to their values.

An operation that calls others is a composition of operators from an engine
record `Eng` to an engine record. For example, `Put(k, v)` is
`Write(FlushIfFull(MemPutBatch(Eng, k :> v)))`, and `Flush` calls the recursive
`FullCompact`, which calls `GenSstFromIter`. Each client call is therefore one
atomic step that includes every flush and compaction it triggers, as it does in
the code under its locks.

| Action | Code |
|---|---|
| `Put`, `PutBatch` | `LSMEngine::put`, `put_batch`: memtable write, freeze at the watermark, flush at `LSM_TOL_MEM_SIZE_LIMIT` |
| `RemoveKey`, `RemoveBatch` | `remove`, `remove_batch`: tombstones, no size check |
| `Clear` | `clear`: drop everything, delete files, keep `cur_max_*` |
| `FlushOp`, `FlushAllOp` | `LSM::flush`, `flush_all` |
| `Close` | destructor: `flush_all`, then the process exits |
| `Crash` | the process is killed between calls |
| `CrashInCall` | the process is killed inside a put, put_batch or flush, between two of its file operations |
| `Open` | the constructor on an existing directory |

The reads are operators of the engine state:

- `EngineGet` translates `get`: memtable, level 0 in list order, then `DeepGet`/`LevelSearch`, the binary search of levels 1..`cur_max_level`.
- `RangeQuery` translates `lsm_iters_monotony_predicate`.
- `Scan` translates `begin`..`end`.

The merge iterators are operators that return the sequence of records a
cursor emits:

- `HeapMerge` orders items by `SearchItemGreater`, `operator>` of `iterator.cpp`, as the heap's `std::greater` does.
- `TwoMerge` and `ConcatIterator` are modelled from the spec.
- `GenSstFromIter` splits a merged stream into SSTs exactly as `gen_sst_from_iter` does, including the final build of a non-empty builder.

Every operator that writes or deletes an SST file also appends the operation
to the record's `log` (`WriteOp`, `DelOp`), in the order the code performs
them: `full_compact` writes the merged SSTs of the next level, then deletes
the old files of both levels in list order. A call's effect on the data
directory is `FilesAfter(files, log)`. `CrashIn(E)` applies only a proper
prefix of the call's log to `files` and stops the process: the memtable and
the in-memory level map die with it, and `Open` rebuilds the engine from the
surviving files. `DurableView`, get with the memtable emptied, is what the
killed process had made durable.

`flush_last` with no frozen table panics (spec 4.2). The model sets `alive` to
FALSE. After the increment of `cur_max_sst_id` that precedes it in the code, no
operation can run.

### `MCLSMEngine.tla`

This module fixes `Keys = {1, 2, 3}` and the batches `{{1, 3}}` for TLC.

### `LSMConcurrency.tla`: the engine under concurrent calls

`LSMEngine::put`, `remove`, `get`, `clear`, `flush`, `flush_all` and the
range query `lsm_iters_monotony_predicate` run from several threads. The
constant `Calls` selects the calls a run issues.
Each thread has a program counter `pc[t]` that stops where the code changes
lock. One step holds one of the code's critical sections:

| Action | Code (`engine.cpp`) |
|---|---|
| `PutMem`, `RemoveMem` | the memtable call of `put` / `remove` (the memtable has its own lock) |
| `PutCheck` | the `get_total_size() >= LSM_TOL_MEM_SIZE_LIMIT` test of `put` |
| `FlushCheck` | `flush`'s unlocked `memtable.get_total_size() == 0` test |
| `FlushLock` | under unique `ssts_mtx`: the level-0 compaction, a new id, `flush_last` and the SST file write |
| `FlushInstall` | the insertion of the SST into `ssts` and `level_sst_ids[0]`, then unlock |
| `GetMem` | `get`'s memtable lookup, before the lock |
| `GetSst` | under shared `ssts_mtx`: level 0, then the deeper levels |
| `ClearMem`, `ClearRest` | `clear`: `memtable.clear()`, then the SST lists and files, with no `ssts_mtx` |
| `FlushCall`, `FlushAllCall` | `LSM::flush`, `LSM::flush_all`: enter `flush` / the loop of `flush_all` |
| `FlushAllCheck` | `flush_all`'s `while (memtable.get_total_size() > 0)` test, before each flush |
| `RangeMem` | the range query's memtable read (`memtable.iters_monotony_predicate`), with no engine lock |
| `RangeLevel` | the range query's read of every SST of one level, with no lock; after the last level, the merge (`RangeResult`: memtable records before the SST heap, tombstones skipped) |

`writer` is the holder of the unique lock. `pending[t]` is the SST a flush has
written but not yet installed. A get's SST search is one step, allowed only
when no writer holds the lock.

Two auxiliary variables state correctness:

- `seen[t]` collects, at every instant of a running get, the value a get
  linearized there would return. `Installed` treats a writer's built SST as
  installed, so the moment of the flush is not a false gap.
- `dict` is the map a sequential store would hold: puts and removes update it,
  and clear empties it at `memtable.clear()`.
- `scan[t]` holds a running range query's memtable records, the SST items
  read so far and the level it reads next; `out` is its result. `rseen[t]`
  collects, for every key, the values a get would return at each instant of
  the range call.

The model reads one level per step. That is coarser than the code, which
reads one SST at a time, but every flush or compaction between two levels is
still reached; a race inside one level's reads is not.

`FairSpec` adds weak fairness of each thread's `Continue(t)`, the steps of
a call already begun. A thread inside a call is scheduled by the operating
system, and `ssts_mtx` is granted once it is free; a thread need not start a
call, so `Start` is not fair. The fairness is written as
`[]<>~CanContinue(t) \/ []<><<Continue(t)>>_progVars`, the definition of weak
fairness with `CanContinue(t)` (the thread is inside a call, and the lock it
waits for is free) in place of `ENABLED Continue(t)`. Every `Continue` step
changes `pc`, `scan` or `alive`, so the two agree; TLC evaluates the state
predicate far faster than `ENABLED` of a step that may compact. The batches take
the same locks as put and remove and are left to `LSMEngine`, as is `begin()`.


### `RedisWrapper.tla`: the Redis command layer

The wrapper keeps every Redis value in the LSM under encoded keys. The model
sees the store through those encodings, one variable per kind of entry:

| Variable | Code |
|---|---|
| `main` | the key's own entry: the string or integer, a hash's field list (`get_fileds_from_hash_value`), a list's elements, or a sorted set's marker (`get_zset_key_preffix`) |
| `hval` | the hash field keys `get_hash_filed_key` |
| `zelem`, `zscore` | the sorted-set member keys (member to score) and score keys (score to member, `get_zset_key_socre`) |
| `expire` | the expiry keys `get_expire_key`. `Expired(k)` translates `is_expired`. |
| `now` | the clock, advanced by `Tick` up to `MaxTime` |
| `pc`, `op`, `readers`, `ops` | each client's position in its command, the command, the holders of the shared `redis_mtx`, and a bound on commands issued |

Each command is split where the code takes or releases `redis_mtx`:

- `set`, `del`, `incr`, `decr` and `expire` hold the unique lock throughout: `RunUnique` is one step.
- The other commands take the shared lock (`LockShared`) and check expiry in it (`ReadSeg`). The read-only commands are then done, and return releases the shared lock.
- A writing command whose key has not expired releases the shared lock by its own `rlock.unlock()`. `ExplicitUnlock` lists the commands whose code has one. `ReadSeg` keeps the lock of a command that has none.
- A command whose key has expired unlocks the shared lock, then takes the unique lock. There it runs the cleanup of its key type (`CleanSeg`: `expire_*_clean`, or the cleanup inside `redis_get`). It does not re-read the key.
- The writing commands then take the unique lock again (`WriteStep`) for their write (`WriteSeg`).

An expiry time of `Secs` seconds from now is `now + s`. A key is expired when
its time is strictly before `now`. `incr` wraps at `IntBits` bits, as the
two's-complement `long long` of the code does.

The store operators translate their command's body:

- `HSetWrite`, `HDelWrite` update the field list and the field key. hdel removes an emptied hash.
- `ZAddWrite` writes the marker, the member key and the score key. It keeps the old score key when the score changes, because it calls `remove_batch(del_keys)` on an empty vector. `ZIncrByWrite` removes the old score key but writes no marker.
- `DelWrite` removes a hash's field keys, and only the key itself otherwise.

`MCRedisWrapper.tla` names the command subsets each run uses.

### `RedisStore.tla`: what the command layer promises

`RedisStore` is the abstract store a Redis client expects. Every value is held
by type: `str`, `hash`, `list` and `zset`, with `ttl` for expiry. Each command
takes effect atomically, at one step between its call and its return. While a
client's command runs, its `cmd` entry is `Busy`. An expired key may vanish at
any step (`Evict`). A read, or a removal, that finds its key expired may evict
it and do nothing else (`EvictOnly`). An expiry left on an absent key may be
dropped too, because the cleanup in `redis_get` drops it.

`RedisWrapper` maps its state onto this store through the encodings:

- a string or list is its `main` entry;
- a hash is its field keys `hval`;
- a sorted set is its member keys `zelem`, the entries zscore reads;
- `ttl` is `expire`;
- a client's `cmd` is `Busy` until its `pc` returns to `idle`, and then its `op`.

So a command takes effect at the step that ends it. `RefinesRedisStore` is
`Store!Spec` under this mapping.

Fairness: `Spec` has weak fairness on each client's `Step`, which covers the
read, cleanup and write segments of a command already begun. A thread that
holds or waits for `redis_mtx` is scheduled by the operating system, and a
`shared_mutex` grants the lock once it is free. Issuing a command and the clock
are not fair, because a client may stop sending commands and time need not
pass in a bounded run.

## Runs

All runs use these bounds:

- `LSM_PER_MEM_SIZE_LIMIT = 2`, so one put of a value freezes the active table.
- `LSM_TOL_MEM_SIZE_LIMIT = 4`, so the second write flushes.
- `LSM_SST_LEVEL_RATIO = 2`.
- `MaxLevel = 3`.
- One value `v1`. A single value suffices because `Tomb` differs from it, and a version is told apart by which SST holds it.
- `MaxWrites = 5`.

With these bounds, five writes reach a flush into a full level 0, a compaction
into level 1, a second compaction cascade into level 2, and level-1 SSTs split
by `gen_sst_from_iter`. That is every branch of flush and `full_compact`.

There is no symmetry: keys are ordered, and the order matters to the binary
search and the heap.

The sequential abort of `flush_last` (a flush after a single remove leaves
all bytes in the active table) is the defect `lsm_flush_race` shows through a
race; it has no run of its own.

Deadlock checking is off in `engine`. An abort in `flush_last` and the write
bound both stop the system, and neither is a deadlock of the code.

| Run | Checks | Expect | What it shows |
|---|---|---|---|
| `engine` | `TypeOK`, `LevelMapWellFormed`, `RangeQueryMatchesGet`, `RefinesKVStore` | pass | After every reachable sequence of calls, level 0 is newest first and within its fan-out, deeper levels are key-disjoint and sorted, and every listed SST has its file and an id below `cur_max_sst_id`. get through the engine implements `KVStore`: each call changes what get returns exactly as the abstract call with the same batch does, and flushes and compactions are invisible. The run has no restarts, so the reversal of level 0 at reopen (line 78) is not exercised here. For every key range, the range iterator returns exactly what get sees; this relies on ids growing with recency across levels. |
| `scan` | `ScanMatchesGet` | violation | After a compaction into level 1, `begin()` no longer yields the keys that moved. |
| `crash_compact` | `RecoveryPreservesDurable` under `SpecWithRestart` | violation | Trace: put(1), remove_batch({1, 3}), flush_all (two level-0 SSTs, the newer holding the tombstone), then a put_batch whose flush compacts level 0 into level 1. The process is killed after the level-1 SST is written and the newer level-0 file deleted. On reopening, get(1) returns the value that was removed. |
| `restart` | `FilesNeverOverwritten` under `SpecWithRestart` | violation | Trace: put, close, open, put_batch. The reopened engine mints the largest existing id again and overwrites that SST file. |

Each property of a passing run has a mutant in `PROJECT.json` that TLC
catches:

| Mutant | Caught by |
|---|---|
| the last SST built even when empty | `TypeOK` |
| compaction of level 0 only above the ratio | `LevelMapWellFormed` |
| level 0 searched oldest first | `RefinesKVStore` |
| `idx = +sst_id` | `RangeQueryMatchesGet` |

No fairness is assumed for the engine, and no liveness property is checked of it. The engine
has no background thread: every step is a client call, and a client may stop
calling.

### Redis runs

The bounds:

- two clients;
- one key of each type used;
- one or two fields, values and scores, and one member in the `redis` run (so it states nothing about the score index, which two members break);
- `Secs = {0}` and `MaxTime = 1`, so that a key's expiry passes with one tick;
- `IntBits = 2`;
- `MaxOps = 3`;
- the `redis` run issues every command but `zadd` (`IndexCmds`), whose
  bugs the two violation runs show.

Two clients suffice for every race here, because each race needs one client in
the gap of the lock upgrade and one other client writing. Deadlock is checked:
the `Finished` step lets a run that has used its commands stutter.

| Run | Checks | Expect | What it shows |
|---|---|---|---|
| `redis` | `TypeOK`, `HashIndexConsistent`, `CommandsComplete` | pass | The field list and the field keys always agree under hset, hdel, del, hget and expiry cleanup from two clients, and an emptied hash is removed. Every command completes: each writing command releases its shared lock on both upgrade paths, its own `rlock.unlock()` (`ExplicitUnlock`) and the cleanup helper's, so no thread waits forever on its own shared lock. |
| `redis_cleanup_race` | `CleanupRemovesOnlyExpired` | violation | Client 1 runs `GET s` and sees an expiry on an absent key, then upgrades its lock. In the gap, client 2 runs `SET s` and `EXPIRE s`. Client 1 then deletes the new expiry. |
| `redis_zadd` | `ZSetIndexConsistent` | violation | A re-scored member keeps its old score key (`del_keys` is never filled), or two members with one score share a score key. zincrby shares the second defect: `zincrby z 1 e1` then `zincrby z 1 e2` overwrites score key 1 (lines 986-989). The `redis` run has a single member, so it cannot show this, and it does not check `ZSetIndexConsistent`. |
| `redis_zset_del` | `RefinesRedisStore` | violation | The wrapper does not implement `RedisStore`. After `ZADD z 1 e1`, `DEL z` removes only the set's own key, and `e1`'s member key survives; the abstract del empties the set. One client and `MaxOps = 2` suffice. |

The refinement was also checked outside the runs, with the constants of the
`redis` run and its commands less `zadd` and `del`. With one client it
holds (10,653 states): sequentially, every other command, expiry cleanup
included, has the effect the store promises. With two clients it fails on the
cleanup race that `redis_cleanup_race` already shows. Neither check is kept
as a run.

Mutants of the Redis properties:

| Mutant | Caught by |
|---|---|
| hdel keeps an emptied hash's key | `TypeOK` |
| hash cleanup keeps the field keys | `HashIndexConsistent` |
| zincrby without its `rlock.unlock()` | `CommandsComplete` |

### Concurrency runs

Two threads, keys `{1, 2}`, `MaxLevel = 2`.
The pass run issues all seven calls, `MaxOps = 4` in all, with
`LSM_PER_MEM_SIZE_LIMIT = LSM_TOL_MEM_SIZE_LIMIT = 2`: every put freezes and
flushes, and the third flush compacts level 0, so a get or a range query
races a flush that compacts (checked by reaching those states). The two clear and flush races use `LSM_PER_MEM_SIZE_LIMIT = 4`
(two puts freeze the table and start a flush) and put, remove, get and clear
only. The range race uses `LSM_TOL_MEM_SIZE_LIMIT = 4` and `MaxOps = 5`.
The pass run has 203,229 distinct states and, with its liveness property,
takes about half a minute; at `MaxOps = 5` it takes over seven. Deadlock is checked;
`Finished` stutters once the calls are used or the process has aborted.

| Run | Checks | Expect | What it shows |
|---|---|---|---|
| `lsm_concurrency` | `TypeOK`, `GetLinearizable`, `CallsComplete` | pass | The unique lock has one holder, the thread in `flush_install`. Every get returns a value that a sequential get would return at some instant of the call, even though it reads the memtable before taking the lock and a flush moves the table between the two. Under `FairSpec`, every call a thread begins returns unless the process aborts: flush_all's loop ends and nobody waits forever for `ssts_mtx`. |
| `lsm_clear_race` | `QuiescentView` | violation | t1's flush has built its SST when t2 runs clear. t1 then installs the SST: the cleared records come back, and their file has been deleted. |
| `lsm_flush_race` | `FlushNeverAborts` | violation | t1 passes flush's unlocked size check; t2's clear empties the memtable; t1 reaches `flush_last` with no frozen table and aborts. Two putters on one frozen table do the same. |
| `lsm_range_race` | `RangeSound` | violation | t2's flush has taken the skiplist holding `remove(1)` out of the memtable and holds `ssts_mtx` before installing its SST. t1's range query reads the empty memtable and level 0 without the lock, and returns key 1 with the value the remove deleted. |

| Mutant | Caught by |
|---|---|
| flush without `ssts_mtx` | `TypeOK` |
| get's SST search without `ssts_mtx` | `GetLinearizable` |
| flush_all's loop test `>= 0` | `CallsComplete` |

## Not modelled, and why

- **Block layout, bloom filter, encoding and the block cache.** None of their code is under `src/`. None of them changes what get or the iterators return. The block cache's capacity bound is a candidate for a later module.
- **`operator[]` under concurrency.** `get` and the range query call `ssts[sst_id]`, which inserts into `std::map` under a shared lock or none. That is a data race inside the map, with no single outcome the model could name; it is listed as a hazard in `PROJECT.json`. The model reads a level in one step, so it never sees an id whose SST a compaction has erased.
- **A crash inside clear or a flush's own file write.** `CrashInCall` kills the process between the file operations of put, put_batch and flush. A single file write is atomic in the model, and a crash inside `clear` (which deletes files one by one) is not modelled.
- **The sorted-set rank.** `zrank` counts the keys under the prefix `key_`, which takes in the `_ELEM_` member keys before the `_SCORE_` keys, so every rank is offset by the member count; the offset is a pure computation over one read and no property is stated about it.
- **Redis `ttl`, `clear` and `flushall`.** `ttl` changes nothing. `clear` calls `LSM::clear` and `flushall` calls `LSM::flush` (not a clear), both modelled in `LSMEngine`.
- **Redis values and encodings.** Lists are sequences of model values, and no value contains the list separator. The `double` arithmetic of `zincrby` is not modelled: increments are naturals. The spec itself notes that zincrby's conversion of the score is lossy.
- **Server, RESP parsing, logging, the CLI.** Pure I/O.

## Plan

In order of importance:

1. `LSMEngine` (done):
   - the sequential engine and its refinement of `KVStore`;
   - level-map, range-query and file invariants;
   - the violations above, including a crash inside a compaction.
2. `RedisWrapper` (done):
   - clients as processes;
   - the lock upgrade as separate steps;
   - expiry with a model clock;
   - the hash and sorted-set indexes.

   - the refinement of `RedisStore`, violated by the sorted-set del.

   Left for later:
   - the wrapper over `LSMEngine` through `INSTANCE`, with concurrent LSM calls.
3. `LSMConcurrency` (done): put, remove, get, clear, flush, flush_all and
   the range query split at their locks; get linearizable; the flush abort,
   the clear resurrection and the unlocked range query as violations.
4. Recovery (done, in `LSMEngine`): crashes between the file operations of a
   call, and `RecoveryPreservesDurable`.
5. A step-wise heap iterator module refining the `HeapMerge` operator.
