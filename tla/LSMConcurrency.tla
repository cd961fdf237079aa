--------------------------- MODULE LSMConcurrency ---------------------------
(***************************************************************************)
(* The engine of src/src/lsm/engine.cpp under concurrent client threads.  *)
(* Each call is split where the code leaves one critical section for      *)
(* another:                                                               *)
(*   - the memtable is its own monitor (spec 4.2): each MemTable call     *)
(*     (get, put, remove, get_total_size, clear, flush_last) is atomic;   *)
(*   - get reads the memtable, then searches the SSTs under a shared lock *)
(*     of ssts_mtx;                                                       *)
(*   - put and remove write the memtable, and put then reads its size and *)
(*     may call flush;                                                    *)
(*   - flush reads the memtable size with no lock, then takes ssts_mtx    *)
(*     uniquely to compact level 0, flush_last and install the new SST;   *)
(*   - clear takes no lock: it clears the memtable, then the level map,   *)
(*     the SSTs and the files;                                            *)
(*   - flush_all repeats flush while the memtable holds bytes;            *)
(*   - the range query (lsm_iters_monotony_predicate) takes no lock: it   *)
(*     reads the memtable, then the SSTs of each level in turn.           *)
(* The engine's state and its sequential operators are those of LSMData.   *)
(* A get's SST search holds the shared lock for one step, so it needs     *)
(* ssts_mtx free; flush holds the unique lock from FlushLock to           *)
(* FlushInstall, and clear, which takes no lock, may run in between.      *)
(***************************************************************************)
EXTENDS LSMData

CONSTANTS
    Threads,   \* client threads calling the one engine
    MaxOps,    \* bound on the calls all threads start
    Calls,     \* the calls the threads make
    None       \* no thread holds ssts_mtx uniquely

VARIABLES
    pc,        \* thread -> where it is in its call
    op,        \* thread -> its call: [name, key, val]
    pending,   \* thread -> the SST its flush has built and not installed
    writer,    \* the thread holding ssts_mtx uniquely, or None
    res,       \* thread -> what its last get returned
    seen,      \* thread -> what get would have returned atomically during
               \*           its current or last get (auxiliary)
    dict,      \* the store as the calls have changed it (auxiliary)
    scan,      \* thread -> its range query: the memtable's records, the
               \*           SearchItems so far, the next level, the result
    rseen,     \* thread -> key -> what get would have returned during its
               \*           current or last range query (auxiliary)
    ops        \* calls started so far

engVars == <<active, frozen, ssts, level_sst_ids, files, cur_max_sst_id,
             cur_max_level, alive>>
vars == <<engVars, pc, op, pending, writer, res, seen, dict, scan, rseen, ops>>

ASSUME Calls \subseteq {"put", "remove", "get", "clear", "flush", "flush_all", "range"}

NoSst == [id |-> 0, data |-> EmptyTable]

\* The engine as the threads see it: a flush holding ssts_mtx has, as far
\* as any reader can tell, already installed the SST it built.
Installed(E) ==
    IF writer = None THEN E
    ELSE LET s == pending[writer]
         IN [E EXCEPT !.ssts = (s.id :> [file |-> <<s.id, 0>>, data |-> s.data]) @@ @,
                      !.level_sst_ids[0] = <<s.id>> \o @]

\* What a get run alone, as one atomic step, would return now.
ViewOf(k) == EngineGet(Installed(Eng), k)

\* The part of LSMEngine::get after the memtable: level 0 newest first,
\* then the binary search of levels 1..cur_max_level.
SstGet(E, k) == EngineGet([E EXCEPT !.active = EmptyTable, !.frozen = <<>>], k)

Idle(t) == pc[t] = "idle"

\* A call starts: only while the process runs and within the bound.
Start(t, name, k, v) ==
    /\ name \in Calls
    /\ alive /\ Idle(t) /\ ops < MaxOps
    /\ ops' = ops + 1
    /\ op' = [op EXCEPT ![t] = [name |-> name, key |-> k, val |-> v]]

-----------------------------------------------------------------------------
\* LSMEngine::put, first step: memtable.put (a batch of one, which freezes
\* the active skiplist at LSM_PER_MEM_SIZE_LIMIT).
PutMem(t, k, v) ==
    /\ Start(t, "put", k, v)
    /\ SetEng(MemPutBatch(Eng, k :> v))
    /\ dict' = [dict EXCEPT ![k] = Visible(v)]
    /\ pc' = [pc EXCEPT ![t] = "put_check"]
    /\ UNCHANGED <<scan, pending, writer, res>>

\* LSMEngine::put, second step: memtable.get_total_size() against
\* LSM_TOL_MEM_SIZE_LIMIT decides whether put calls flush.
PutCheck(t) ==
    /\ alive /\ pc[t] = "put_check"
    /\ pc' = [pc EXCEPT ![t] = IF MemTotalSize(Eng) >= LSM_TOL_MEM_SIZE_LIMIT
                               THEN "flush_check" ELSE "idle"]
    /\ UNCHANGED <<scan, engVars, op, pending, writer, res, dict, ops>>

\* LSMEngine::remove: memtable.remove, a put of "", with no size check.
RemoveMem(t, k) ==
    /\ Start(t, "remove", k, Tomb)
    /\ SetEng(MemPutBatch(Eng, k :> Tomb))
    /\ dict' = [dict EXCEPT ![k] = NoValue]
    /\ pc' = [pc EXCEPT ![t] = "idle"]
    /\ UNCHANGED <<scan, pending, writer, res>>

\* Where a thread goes when its flush returns: flush_all tests the
\* memtable's size again, a put or flush call is done.
AfterFlush(t) == IF op[t].name = "flush_all" THEN "flush_all_check" ELSE "idle"

\* LSM::flush: the public flush calls LSMEngine::flush.
FlushCall(t) ==
    /\ Start(t, "flush", CHOOSE k \in Keys : TRUE, Tomb)
    /\ pc' = [pc EXCEPT ![t] = "flush_check"]
    /\ UNCHANGED <<scan, engVars, pending, writer, res, dict>>

\* LSM::flush_all: LSMEngine::flush_all.
FlushAllCall(t) ==
    /\ Start(t, "flush_all", CHOOSE k \in Keys : TRUE, Tomb)
    /\ pc' = [pc EXCEPT ![t] = "flush_all_check"]
    /\ UNCHANGED <<scan, engVars, pending, writer, res, dict>>

\* Mutant: the loop test is get_total_size() >= 0, true of every size_t.
FlushAllCheckAlways(t) ==
    /\ alive /\ pc[t] = "flush_all_check"
    /\ pc' = [pc EXCEPT ![t] = "flush_check"]
    /\ UNCHANGED <<scan, engVars, op, pending, writer, res, dict, ops>>

\* LSMEngine::flush_all: while (memtable.get_total_size() > 0) flush().
FlushAllCheck(t) ==
    /\ alive /\ pc[t] = "flush_all_check"
    /\ pc' = [pc EXCEPT ![t] = IF MemTotalSize(Eng) > 0
                               THEN "flush_check" ELSE "idle"]
    /\ UNCHANGED <<scan, engVars, op, pending, writer, res, dict, ops>>

\* LSMEngine::flush, before the lock: return on an empty memtable.
FlushCheck(t) ==
    /\ alive /\ pc[t] = "flush_check"
    /\ pc' = [pc EXCEPT ![t] = IF MemTotalSize(Eng) = 0
                               THEN AfterFlush(t) ELSE "flush_lock"]
    /\ UNCHANGED <<scan, engVars, op, pending, writer, res, dict, ops>>

\* LSMEngine::flush under unique_lock(ssts_mtx): compact level 0 when it
\* is full, mint new_sst_id = cur_max_sst_id++, and flush_last the oldest
\* frozen skiplist into file sst_<id>.0.  With no frozen skiplist
\* flush_last fails (spec 4.2) and the process aborts.  The body, as a
\* thread would run it were it not to wait for the lock:
FlushLockNoLock(t) ==
    LET E1 == IF Len(level_sst_ids[0]) >= LSM_SST_LEVEL_RATIO
              THEN FullCompact(Eng, 0) ELSE Eng
        id == E1.cur_max_sst_id
    IN /\ alive /\ pc[t] = "flush_lock"
       /\ IF E1.frozen = <<>>
          THEN /\ SetEng([E1 EXCEPT !.cur_max_sst_id = @ + 1, !.alive = FALSE])
               /\ UNCHANGED <<pc, pending, writer>>
          ELSE /\ SetEng([E1 EXCEPT !.cur_max_sst_id = @ + 1,
                                      !.frozen = Front(@),
                                      !.files = (<<id, 0>> :> Last(E1.frozen)) @@ @])
               /\ pending' = [pending EXCEPT ![t] = [id |-> id, data |-> Last(E1.frozen)]]
               /\ writer' = t
               /\ pc' = [pc EXCEPT ![t] = "flush_install"]
       /\ UNCHANGED <<scan, op, res, dict, ops>>

FlushLock(t) == writer = None /\ FlushLockNoLock(t)

\* The rest of flush, still under the lock: ssts[new_sst_id] = new_sst and
\* level_sst_ids[0].push_front(new_sst_id); the lock is released.
FlushInstall(t) ==
    LET s == pending[t]
    IN /\ alive /\ pc[t] = "flush_install"
       /\ ssts' = (s.id :> [file |-> <<s.id, 0>>, data |-> s.data]) @@ ssts
       /\ level_sst_ids' = [level_sst_ids EXCEPT ![0] = <<s.id>> \o @]
       /\ writer' = None
       /\ pending' = [pending EXCEPT ![t] = NoSst]
       /\ pc' = [pc EXCEPT ![t] = AfterFlush(t)]
       /\ UNCHANGED <<scan, active, frozen, files, cur_max_sst_id, cur_max_level,
                      alive, op, res, dict, ops>>

\* LSMEngine::get, first step: memtable.get; a hit answers.
GetMem(t, k) ==
    LET mv == MemGet(Eng, k)
    IN /\ Start(t, "get", k, Tomb)
       /\ IF mv # NoValue
          THEN res' = [res EXCEPT ![t] = Visible(mv)] /\ pc' = [pc EXCEPT ![t] = "idle"]
          ELSE UNCHANGED res /\ pc' = [pc EXCEPT ![t] = "get_sst"]
       /\ UNCHANGED <<scan, engVars, pending, writer, dict>>

\* LSMEngine::get under shared_lock(ssts_mtx): level 0, then the deeper
\* levels.
GetSstNoLock(t) ==
    /\ alive /\ pc[t] = "get_sst"
    /\ res' = [res EXCEPT ![t] = SstGet(Eng, op[t].key)]
    /\ pc' = [pc EXCEPT ![t] = "idle"]
    /\ UNCHANGED <<scan, engVars, op, pending, writer, dict, ops>>

GetSst(t) == writer = None /\ GetSstNoLock(t)

\* LSMEngine::clear, first statement: memtable.clear().
ClearMem(t) ==
    /\ Start(t, "clear", CHOOSE k \in Keys : TRUE, Tomb)
    /\ active' = EmptyTable /\ frozen' = <<>>
    /\ dict' = [k \in Keys |-> NoValue]
    /\ pc' = [pc EXCEPT ![t] = "clear_rest"]
    /\ UNCHANGED <<scan, ssts, level_sst_ids, files, cur_max_sst_id, cur_max_level,
                   alive, pending, writer, res>>

\* The rest of clear, with no lock: level_sst_ids.clear(), ssts.clear()
\* and the removal of every file of the data directory.
ClearRest(t) ==
    /\ alive /\ pc[t] = "clear_rest"
    /\ level_sst_ids' = [l \in Levels |-> <<>>]
    /\ ssts' = [id \in {} |-> [file |-> <<0, 0>>, data |-> EmptyTable]]
    /\ files' = [f \in {} |-> EmptyTable]
    /\ pc' = [pc EXCEPT ![t] = "idle"]
    /\ UNCHANGED <<scan, active, frozen, cur_max_sst_id, cur_max_level, alive,
                   op, pending, writer, res, dict, ops>>

\* LSMEngine::lsm_iters_monotony_predicate, with a predicate that holds on
\* every key, first step: memtable.iters_monotony_predicate, the
\* memtable's newest record of each key, tombstones included.
RangeMem(t) ==
    /\ Start(t, "range", CHOOSE k \in Keys : TRUE, Tomb)
    /\ scan' = [scan EXCEPT ![t] =
                  [mem   |-> [k \in {x \in Keys : MemGet(Eng, x) # NoValue} |->
                               MemGet(Eng, k)],
                   items |-> {}, level |-> 0, out |-> {}]]
    /\ pc' = [pc EXCEPT ![t] = "range_sst"]
    /\ UNCHANGED <<engVars, pending, writer, res, dict>>

\* Mutant: the SSTs' records win over the memtable's on equal keys.
RangeResultSstFirst(mem, items) ==
    LET merged == TwoMerge(HeapMerge(items), Records(mem))
    IN {merged[i] : i \in {j \in DOMAIN merged : merged[j][2] # Tomb}}

\* The iterator the range query returns, run to its end: a TwoMergeIterator
\* of the memtable's records (which win on equal keys) and a HeapIterator
\* over the SearchItems; tombstones are skipped.
RangeResult(mem, items) ==
    LET merged == TwoMerge(Records(mem), HeapMerge(items))
    IN {merged[i] : i \in {j \in DOMAIN merged : merged[j][2] # Tomb}}

\* The loop over level_sst_ids, with no lock: the records of every SST of
\* one level become SearchItems with idx = -sst_id.  A level's id list is
\* read in one step (the model does not let a flush or compaction change
\* it in the middle of the inner loop).  After the deepest level the
\* iterators are built and the collected records are dropped.
RangeLevel(t) ==
    LET s     == scan[t]
        items == s.items \cup SstItems(Eng, ToSet(level_sst_ids[s.level]), Keys)
    IN /\ alive /\ pc[t] = "range_sst"
       /\ IF s.level = MaxLevel
          THEN /\ scan' = [scan EXCEPT ![t] = [mem |-> EmptyTable, items |-> {},
                                                 level |-> 0,
                                                 out |-> RangeResult(s.mem, items)]]
               /\ pc' = [pc EXCEPT ![t] = "idle"]
          ELSE /\ scan' = [scan EXCEPT ![t] = [s EXCEPT !.items = items,
                                                      !.level = @ + 1]]
               /\ UNCHANGED pc
       /\ UNCHANGED <<engVars, op, pending, writer, res, dict, ops>>

-----------------------------------------------------------------------------
Init ==
    /\ active = EmptyTable /\ frozen = <<>>
    /\ ssts = [id \in {} |-> [file |-> <<0, 0>>, data |-> EmptyTable]]
    /\ level_sst_ids = [l \in Levels |-> <<>>]
    /\ files = [f \in {} |-> EmptyTable]
    /\ cur_max_sst_id = 0 /\ cur_max_level = 0 /\ alive = TRUE
    /\ pc = [t \in Threads |-> "idle"]
    /\ op = [t \in Threads |-> [name |-> "none", key |-> CHOOSE k \in Keys : TRUE,
                                val |-> Tomb]]
    /\ pending = [t \in Threads |-> NoSst]
    /\ writer = None
    /\ res = [t \in Threads |-> NoValue]
    /\ seen = [t \in Threads |-> {}]
    /\ dict = [k \in Keys |-> NoValue]
    /\ scan = [t \in Threads |-> [mem |-> EmptyTable, items |-> {}, level |-> 0,
                                  out |-> {}]]
    /\ rseen = [t \in Threads |-> [k \in Keys |-> {}]]
    /\ ops = 0

Step(t) ==
    \/ \E k \in Keys, v \in Vals : PutMem(t, k, v)
    \/ PutCheck(t)
    \/ \E k \in Keys : RemoveMem(t, k)
    \/ FlushCheck(t)
    \/ FlushLock(t)
    \/ FlushInstall(t)
    \/ \E k \in Keys : GetMem(t, k)
    \/ GetSst(t)
    \/ ClearMem(t)
    \/ ClearRest(t)
    \/ FlushCall(t)
    \/ FlushAllCall(t)
    \/ FlushAllCheck(t)
    \/ RangeMem(t)
    \/ RangeLevel(t)

\* The auxiliary seen: a get collects the value an atomic get would return
\* at every instant from just before its first step to just after its last.
Observe(t) ==
    /\ seen' = [u \in Threads |->
               CASE u = t /\ Idle(t) /\ op'[t].name = "get" ->
                      {EngineGet(Installed(Eng), op'[t].key), ViewOf(op[t].key)'}
                 [] pc[u] = "get_sst" -> seen[u] \cup {ViewOf(op[u].key)'}
                 [] OTHER -> seen[u]]
    /\ rseen' = [u \in Threads |->
                CASE u = t /\ Idle(t) /\ op'[t].name = "range" ->
                       [k \in Keys |-> {ViewOf(k), ViewOf(k)'}]
                  [] pc[u] = "range_sst" ->
                       [k \in Keys |-> rseen[u][k] \cup {ViewOf(k)'}]
                  [] OTHER -> rseen[u]]

\* The process has aborted, or every thread is done: nothing more happens.
Finished ==
    /\ ~alive \/ (ops = MaxOps /\ \A t \in Threads : Idle(t))
    /\ UNCHANGED vars

Next == (\E t \in Threads : Step(t) /\ Observe(t)) \/ Finished

Spec == Init /\ [][Next]_vars

\* The steps of a call already begun: everything a thread does between
\* Start and its return.
Continue(t) ==
    \/ PutCheck(t) \/ FlushAllCheck(t) \/ FlushCheck(t) \/ FlushLock(t)
    \/ FlushInstall(t) \/ GetSst(t) \/ ClearRest(t) \/ RangeLevel(t)

\* Where Continue(t) can take a step: a thread inside a call, in a
\* section that waits for ssts_mtx only when it needs the lock free.
CanContinue(t) ==
    /\ alive
    /\ \/ pc[t] \in {"put_check", "flush_all_check", "flush_check",
                      "flush_install", "clear_rest", "range_sst"}
       \/ pc[t] \in {"flush_lock", "get_sst"} /\ writer = None

\* A thread inside a call is scheduled by the operating system, and
\* ssts_mtx is granted once it is free; a thread need not start a call.
\* This is weak fairness of Continue(t), written with CanContinue(t) for
\* ENABLED Continue(t) (every Continue step changes pc, scan or alive);
\* Observe, which sets only the auxiliary seen and rseen, is always enabled.
progVars == <<engVars, pc, op, pending, writer, res, dict, scan, ops>>
FairSpec ==
    Spec /\ \A t \in Threads :
                []<>~CanContinue(t) \/ []<><<Continue(t)>>_progVars

-----------------------------------------------------------------------------
(***************************************************************************)
(* Properties.                                                            *)
(***************************************************************************)

\* Types, and the unique lock of ssts_mtx: a thread holds it exactly while
\* its flush is between flush_last and the install of the new SST.
TypeOK ==
    /\ pc \in [Threads -> {"idle", "put_check", "flush_all_check", "flush_check",
                           "flush_lock", "flush_install", "get_sst", "clear_rest",
                           "range_sst"}]
    /\ writer \in Threads \cup {None}
    /\ \A t \in Threads : pc[t] = "flush_install" <=> writer = t
    /\ res \in [Threads -> Vals \cup {NoValue}]
    /\ dict \in [Keys -> Vals \cup {NoValue}]
    /\ ops \in 0..MaxOps

\* get is linearizable (spec 8, scenario 7): although it reads the memtable with no engine lock
\* and the SSTs later under the shared lock, while flushes move skiplists
\* from the memtable into level 0 and compactions rewrite the levels, what
\* it returns is what an atomic get returns at some instant of the call.
GetLinearizable ==
    \A t \in Threads : Idle(t) /\ op[t].name = "get" => res[t] \in seen[t]

\* The range query, which takes no lock, yields only records a reader
\* could see during the call: every key it returns has a value that an
\* atomic get returned at some instant of the call, although flushes and
\* compactions move the records between the memtable and the levels while
\* it reads them one level after the other (spec: the range query merges
\* the memtable with every SST at every level and skips tombstones).
RangeSound ==
    \A t \in Threads : Idle(t) /\ op[t].name = "range" =>
        \A r \in scan[t].out : r[2] \in rseen[t][r[1]]

\* Whenever no call is in progress, get returns for every key what the
\* calls made of it, clear included: no completed write is lost and no
\* cleared value comes back (spec 6: clear erases all state and files).
QuiescentView ==
    (alive /\ \A t \in Threads : Idle(t)) => \A k \in Keys : ViewOf(k) = dict[k]

\* Every call a thread has begun returns, unless the process has aborted:
\* flush_all's loop ends although other threads write between its size
\* test and its flush, and no thread waits forever for ssts_mtx, which a
\* flush releases after installing its SST (under the bound on calls,
\* other threads eventually stop writing).
CallsComplete == \A t \in Threads : ~Idle(t) ~> (Idle(t) \/ ~alive)

\* Concurrent writers never make the process abort: flush never reaches
\* MemTable::flush_last with no frozen skiplist (spec 4.2, 5).
FlushNeverAborts == alive
=============================================================================
