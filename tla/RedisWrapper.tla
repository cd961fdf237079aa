---------------------------- MODULE RedisWrapper ----------------------------
(***************************************************************************)
(* The Redis command layer of src/src/redis_wrapper/redis_wrapper.cpp: a  *)
(* set of clients issuing commands concurrently through one RedisWrapper, *)
(* whose std::shared_mutex redis_mtx serializes them.                     *)
(*                                                                         *)
(* The LSM store underneath is seen through the wrapper's key encodings,  *)
(* one variable per encoding:                                             *)
(*   main    the user key itself: a string value, a hash's field list     *)
(*           (REDIS_HASH_VALUE_PREFFIX + fields), a list (elements joined *)
(*           by REDIS_LIST_SEPARATOR) or a sorted set's marker;           *)
(*   hval    get_hash_filed_key(key, field) -> the field's value;         *)
(*   zelem   get_zset_key_elem(key, elem)   -> the member's score;        *)
(*   zscore  get_zset_key_socre(key, score) -> the member with that score *)
(*           (the encoded key holds the score and not the member);        *)
(*   expire  get_explire_key(key)           -> the expiry time in seconds.*)
(* Every LSM call the wrapper makes is one atomic engine call, and        *)
(* LSMEngine refines a key-value store, so each variable is a function to *)
(* the value get returns or Nil.  The key sets of the four types are      *)
(* disjoint: a client uses each key with one type of command.             *)
(*                                                                         *)
(* A command runs in segments separated by the lock's release and         *)
(* re-acquisition: a segment under the shared lock (reads only), a        *)
(* segment under the unique lock (expiry cleanup), and a segment under    *)
(* the unique lock (the command's writes).  A segment under the unique    *)
(* lock is one step: nothing else runs while it is held.                  *)
(***************************************************************************)
EXTENDS Integers, Sequences, FiniteSets, SequencesExt, FiniteSetsExt

CONSTANTS
    Clients,     \* concurrent connections
    StrKeys,     \* keys used with set/get/incr/decr
    HashKeys,    \* keys used with hset/hget/hdel/hkeys
    ListKeys,    \* keys used with lpush/rpush/lpop/rpop/llen/lrange
    ZKeys,       \* keys used with zadd/zrem/zincrby/zrange/...
    Fields,      \* hash fields
    HVals,       \* hash field values
    LVals,       \* list elements (non-empty, without the separator)
    Elems,       \* sorted-set members
    Scores,      \* scores zadd is given (naturals)
    Incs,        \* increments zincrby is given (naturals)
    StrVals,     \* integers set is given
    Secs,        \* seconds expire is given
    IntBits,     \* width of long long in the model (64 in the code)
    MaxTime,     \* bound on the clock
    MaxOps,      \* bound on the commands issued
    Cmds,        \* the commands the clients issue
    Nil          \* absent: lsm->get returned std::nullopt

ASSUME IntBits \in Nat \ {0} /\ MaxTime \in Nat /\ MaxOps \in Nat
ASSUME Scores \cup Incs \subseteq Nat /\ StrVals \cup Secs \subseteq Int

Keys == StrKeys \cup HashKeys \cup ListKeys \cup ZKeys

\* The value stored under a sorted set's own key (get_zset_key_preffix).
ZMarker == "zset"

\* Scores a member can reach: a given score plus at most MaxOps increments.
ScoreSpace == 0..(Max(Scores \cup {0}) + MaxOps * Max(Incs \cup {0}))

\* std::stoll(v) + 1 on a long long of IntBits bits (two's complement).
Wrap(n) == ((n + 2^(IntBits - 1)) % 2^IntBits) - 2^(IntBits - 1)

VARIABLES
    main, hval, zelem, zscore, expire,  \* the store, by encoding
    now,      \* std::chrono::system_clock::now() in seconds
    pc,       \* client -> where it is in its command
    op,       \* client -> the command it is running
    readers,  \* clients holding redis_mtx shared
    ops       \* commands issued so far

vars == <<main, hval, zelem, zscore, expire, now, pc, op, readers, ops>>

\* is_expired(lsm->get(get_explire_key(key))): a stored expiry in the past.
Expired(k) == expire[k] # Nil /\ expire[k] < now

\* get_fileds_from_hash_value(lsm->get(key)): the fields a hash lists.
FieldsOf(k) == IF main[k] = Nil THEN {} ELSE ToSet(main[k])

-----------------------------------------------------------------------------
(***************************************************************************)
(* Segments under the unique lock, as changes of the store.               *)
(***************************************************************************)

\* lsm->remove(key); lsm->remove(expire_key).
DropKey(k) ==
    /\ main' = [main EXCEPT ![k] = Nil]
    /\ expire' = [expire EXCEPT ![k] = Nil]
    /\ UNCHANGED <<hval, zelem, zscore>>

\* Mutant: the hash's field keys are left behind.
HashCleanupKeepFields(k) == DropKey(k)

\* expire_hash_clean after the upgrade: remove every listed field, the
\* hash and its expiry.
HashCleanup(k) ==
    /\ hval' = [x \in DOMAIN hval |->
                  IF x[1] = k /\ x[2] \in FieldsOf(k) THEN Nil ELSE hval[x]]
    /\ main' = [main EXCEPT ![k] = Nil]
    /\ expire' = [expire EXCEPT ![k] = Nil]
    /\ UNCHANGED <<zelem, zscore>>

\* expire_list_clean after the upgrade.
ListCleanup(k) == DropKey(k)

\* expire_zset_clean after the upgrade: the set, its expiry, and every key
\* with the prefix get_zset_key_preffix(key) (members and scores).
ZSetCleanup(k) ==
    /\ main' = [main EXCEPT ![k] = Nil]
    /\ expire' = [expire EXCEPT ![k] = Nil]
    /\ zelem' = [x \in DOMAIN zelem |-> IF x[1] = k THEN Nil ELSE zelem[x]]
    /\ zscore' = [x \in DOMAIN zscore |-> IF x[1] = k THEN Nil ELSE zscore[x]]
    /\ UNCHANGED hval

\* redis_get's cleanup of an expired key.
GetCleanup(k) == DropKey(k)

\* redis_get's cleanup of an expiry whose key is absent.
GetCleanupTTL(k) ==
    /\ expire' = [expire EXCEPT ![k] = Nil]
    /\ UNCHANGED <<main, hval, zelem, zscore>>

\* redis_set: put the value, remove a stored expiry.
SetWrite(k, v) ==
    /\ main' = [main EXCEPT ![k] = v]
    /\ expire' = [expire EXCEPT ![k] = Nil]
    /\ UNCHANGED <<hval, zelem, zscore>>

\* redis_del for one key: a hash value also removes its listed fields;
\* any other value only the key; then the expiry.
DelWrite(k) == IF k \in HashKeys THEN HashCleanup(k) ELSE DropKey(k)

\* redis_incr / redis_decr: an absent key becomes d; else stoll(v) + d.
IncrWrite(k, d) ==
    /\ main' = [main EXCEPT ![k] = IF @ = Nil THEN d ELSE Wrap(@ + d)]
    /\ UNCHANGED <<hval, zelem, zscore, expire>>

\* redis_expire: put now + seconds, whether or not the key exists.
ExpireWrite(k, s) ==
    /\ expire' = [expire EXCEPT ![k] = now + s]
    /\ UNCHANGED <<main, hval, zelem, zscore>>

\* Mutant: the field is appended without the std::find check.
HSetWriteNoFind(k, f, v) ==
    /\ hval' = [hval EXCEPT ![k, f] = v]
    /\ main' = [main EXCEPT ![k] = IF @ = Nil THEN <<f>> ELSE Append(@, f)]
    /\ UNCHANGED <<zelem, zscore, expire>>

\* redis_hset after the upgrade: put the field, then add it to the field
\* list if it is not there.
HSetWrite(k, f, v) ==
    /\ hval' = [hval EXCEPT ![k, f] = v]
    /\ main' = IF f \in FieldsOf(k) THEN main
               ELSE [main EXCEPT ![k] = IF @ = Nil THEN <<f>> ELSE Append(@, f)]
    /\ UNCHANGED <<zelem, zscore, expire>>

\* Mutant: the emptied field list is written back instead of removed.
HDelWriteKeepEmpty(k, f) ==
    /\ hval' = [hval EXCEPT ![k, f] = Nil]
    /\ main' = IF f \notin FieldsOf(k) THEN main
               ELSE [main EXCEPT ![k] = RemoveFirst(@, f)]
    /\ UNCHANGED <<zelem, zscore, expire>>

\* redis_hdel after the upgrade: remove the field if present; erase it from
\* the list, removing the hash when the list becomes empty.
HDelWrite(k, f) ==
    /\ hval' = [hval EXCEPT ![k, f] = Nil]
    /\ main' = IF f \notin FieldsOf(k) THEN main
               ELSE [main EXCEPT ![k] = IF RemoveFirst(@, f) = <<>> THEN Nil
                                        ELSE RemoveFirst(@, f)]
    /\ UNCHANGED <<zelem, zscore, expire>>

\* redis_lpush / redis_rpush after the upgrade.
PushWrite(k, x, left) ==
    /\ main' = [main EXCEPT ![k] = IF @ = Nil THEN <<x>>
                                   ELSE IF left THEN <<x>> \o @ ELSE Append(@, x)]
    /\ UNCHANGED <<hval, zelem, zscore, expire>>

\* redis_lpop / redis_rpop after the upgrade: nothing on an absent list;
\* otherwise drop one end, removing the key when the list becomes empty.
PopWrite(k, left) ==
    /\ main' = IF main[k] = Nil THEN main
               ELSE LET rest == IF left THEN Tail(main[k]) ELSE Front(main[k])
                    IN [main EXCEPT ![k] = IF rest = <<>> THEN Nil ELSE rest]
    /\ UNCHANGED <<hval, zelem, zscore, expire>>
\* redis_zadd after the upgrade, for one (score, member) pair: put the
\* set's own key; a member already at that score is skipped; otherwise
\* put the score key and the member key.  The old score key of a member
\* that changes score is collected in remove_keys, but remove_batch is
\* called on del_keys, which stays empty.
ZAddWrite(k, s, e) ==
    /\ main' = [main EXCEPT ![k] = ZMarker]
    /\ IF zelem[k, e] = s THEN UNCHANGED <<zelem, zscore>>
       ELSE /\ zscore' = [zscore EXCEPT ![k, s] = e]
            /\ zelem' = [zelem EXCEPT ![k, e] = s]
    /\ UNCHANGED <<hval, expire>>

\* redis_zrem after the upgrade, for one member: remove the member key and
\* the score key its score names.
ZRemWrite(k, e) ==
    /\ IF zelem[k, e] = Nil THEN UNCHANGED <<zelem, zscore>>
       ELSE /\ zscore' = [zscore EXCEPT ![k, zelem[k, e]] = Nil]
            /\ zelem' = [zelem EXCEPT ![k, e] = Nil]
    /\ UNCHANGED <<main, hval, expire>>

\* redis_zincrby after the upgrade: the new score is the old one plus d (or
\* d for a new member); remove the old score key, put the member key and
\* the new score key.  The set's own key is not written.
ZIncrByWrite(k, d, e) ==
    LET new == IF zelem[k, e] = Nil THEN d ELSE zelem[k, e] + d
        sc  == IF zelem[k, e] = Nil THEN zscore
               ELSE [zscore EXCEPT ![k, zelem[k, e]] = Nil]
    IN /\ zelem' = [zelem EXCEPT ![k, e] = new]
       /\ zscore' = [sc EXCEPT ![k, new] = e]
       /\ UNCHANGED <<main, hval, expire>>

-----------------------------------------------------------------------------
(***************************************************************************)
(* Commands and clients.                                                  *)
(***************************************************************************)

NoOp == [name |-> "none", key |-> Nil, arg |-> Nil]

\* Every command a client can issue, one key each (del, zadd and zrem take
\* one key, one pair or one member); the read-only field, range and index
\* arguments do not change what the command writes.
Commands ==
    { o \in [name : {"set"}, key : StrKeys, arg : StrVals]
         \cup [name : {"get", "incr", "decr"}, key : StrKeys, arg : {Nil}]
         \cup [name : {"del"}, key : Keys, arg : {Nil}]
         \cup [name : {"expire"}, key : Keys, arg : Secs]
         \cup [name : {"hset"}, key : HashKeys, arg : Fields \X HVals]
         \cup [name : {"hdel"}, key : HashKeys, arg : Fields]
         \cup [name : {"hget", "hkeys"}, key : HashKeys, arg : {Nil}]
         \cup [name : {"lpush", "rpush"}, key : ListKeys, arg : LVals]
         \cup [name : {"lpop", "rpop", "llen", "lrange"}, key : ListKeys, arg : {Nil}]
         \cup [name : {"zadd"}, key : ZKeys, arg : Scores \X Elems]
         \cup [name : {"zincrby"}, key : ZKeys, arg : Incs \X Elems]
         \cup [name : {"zrem"}, key : ZKeys, arg : Elems]
         \cup [name : {"zrange", "zcard", "zscore", "zrank"}, key : ZKeys, arg : {Nil}]
      : o.name \in Cmds }

\* Commands that hold the unique lock from start to end.
UniqueOnly == {"set", "del", "incr", "decr", "expire"}
\* Commands that only read once the expiry check has passed.
ReadOnly == {"hget", "hkeys", "llen", "lrange", "zrange", "zcard", "zscore", "zrank"}
\* Commands that go on to write after cleaning an expired key.
WriteAfterClean == {"hset", "lpush", "rpush", "zadd", "zincrby"}

\* Mutant: zincrby forgets its rlock.unlock() when the key has not expired.
ExplicitUnlockNoZIncrBy ==
    {"hset", "hdel", "lpush", "rpush", "lpop", "rpop", "zadd", "zrem"}

\* The writing commands that, when their key has not expired, release the
\* shared lock themselves (rlock.unlock()) before taking the unique one:
\* hset 488, hdel 542, lpush 604, rpush 629, lpop 656, rpop 690, zadd 781,
\* zrem 838, zincrby 967.  The other paths release it in the cleanup
\* helpers and redis_get (163, 184, 200, 416, 435) or on return.
ExplicitUnlock ==
    {"hset", "hdel", "lpush", "rpush", "lpop", "rpop", "zadd", "zrem", "zincrby"}

\* The writes of a command, under the unique lock.
WriteSeg(o) ==
    LET k == o.key IN
    CASE o.name = "set"     -> SetWrite(k, o.arg)
      [] o.name = "del"     -> DelWrite(k)
      [] o.name = "incr"    -> IncrWrite(k, 1)
      [] o.name = "decr"    -> IncrWrite(k, -1)
      [] o.name = "expire"  -> ExpireWrite(k, o.arg)
      [] o.name = "hset"    -> HSetWrite(k, o.arg[1], o.arg[2])
      [] o.name = "hdel"    -> HDelWrite(k, o.arg)
      [] o.name = "lpush"   -> PushWrite(k, o.arg, TRUE)
      [] o.name = "rpush"   -> PushWrite(k, o.arg, FALSE)
      [] o.name = "lpop"    -> PopWrite(k, TRUE)
      [] o.name = "rpop"    -> PopWrite(k, FALSE)
      [] o.name = "zadd"    -> ZAddWrite(k, o.arg[1], o.arg[2])
      [] o.name = "zincrby" -> ZIncrByWrite(k, o.arg[1], o.arg[2])
      [] o.name = "zrem"    -> ZRemWrite(k, o.arg)

\* The expire_*_clean of the key's type, after its upgrade.
Cleanup(k) ==
    CASE k \in HashKeys -> HashCleanup(k)
      [] k \in ListKeys -> ListCleanup(k)
      [] k \in ZKeys    -> ZSetCleanup(k)

Init ==
    /\ main = [k \in Keys |-> Nil]
    /\ hval = [x \in HashKeys \X Fields |-> Nil]
    /\ zelem = [x \in ZKeys \X Elems |-> Nil]
    /\ zscore = [x \in ZKeys \X ScoreSpace |-> Nil]
    /\ expire = [k \in Keys |-> Nil]
    /\ now = 0
    /\ pc = [c \in Clients |-> "idle"]
    /\ op = [c \in Clients |-> NoOp]
    /\ readers = {}
    /\ ops = 0

Issue(c, o) ==
    /\ pc[c] = "idle"
    /\ ops < MaxOps
    /\ ops' = ops + 1
    /\ op' = [op EXCEPT ![c] = o]

\* set, del, incr, decr, expire: take the unique lock (no reader holds the
\* shared one), do the writes, release it.
RunUnique(c, o) ==
    /\ o.name \in UniqueOnly
    /\ Issue(c, o)
    /\ readers = {}
    /\ WriteSeg(o)
    /\ UNCHANGED <<now, pc, readers>>

\* Every other command starts by taking the shared lock.
LockShared(c, o) ==
    /\ o.name \notin UniqueOnly
    /\ Issue(c, o)
    /\ readers' = readers \cup {c}
    /\ pc' = [pc EXCEPT ![c] = "read"]
    /\ UNCHANGED <<main, hval, zelem, zscore, expire, now>>

\* Where the shared segment leads.  redis_get reads the key and its expiry:
\* an expired key, or an expiry without its key, is cleaned after an
\* upgrade.  The other commands call expire_*_clean: an expired key is
\* cleaned after an upgrade; otherwise a read-only command returns and a
\* writing one upgrades to write.
AfterRead(c) ==
    LET o == op[c]
        k == o.key
    IN IF o.name = "get"
       THEN CASE main[k] # Nil /\ Expired(k)      -> "clean"
              [] main[k] = Nil /\ expire[k] # Nil -> "clean_ttl"
              [] OTHER                            -> "idle"
       ELSE CASE Expired(k)           -> "clean"
              [] o.name \in ReadOnly  -> "idle"
              [] OTHER                -> "write"

\* The shared segment: read and decide.  The shared lock is released by
\* the rlock.unlock() before an upgrade to clean, by returning, or, on the
\* way to write, by the command's own rlock.unlock(); a command without
\* one would go on to wait for the unique lock still holding it.
ReadSeg(c) ==
    /\ pc[c] = "read"
    /\ pc' = [pc EXCEPT ![c] = AfterRead(c)]
    /\ readers' = IF AfterRead(c) = "write" /\ op[c].name \notin ExplicitUnlock
                  THEN readers ELSE readers \ {c}
    /\ UNCHANGED <<main, hval, zelem, zscore, expire, now, op, ops>>

\* The upgraded segment of the expiry check: take the unique lock and clean
\* the key without checking again; expire_*_clean returns true, and the
\* writing commands take the unique lock again to write.
CleanSeg(c) ==
    LET o == op[c] IN
    /\ pc[c] \in {"clean", "clean_ttl"}
    /\ readers = {}
    /\ CASE pc[c] = "clean_ttl" -> GetCleanupTTL(o.key)
         [] o.name = "get"      -> GetCleanup(o.key)
         [] OTHER               -> Cleanup(o.key)
    /\ pc' = [pc EXCEPT ![c] = IF o.name \in WriteAfterClean THEN "write"
                                ELSE "idle"]
    /\ UNCHANGED <<now, op, readers, ops>>

\* The command's own segment under the unique lock.
WriteStep(c) ==
    /\ pc[c] = "write"
    /\ readers = {}
    /\ WriteSeg(op[c])
    /\ pc' = [pc EXCEPT ![c] = "idle"]
    /\ UNCHANGED <<now, op, readers, ops>>

\* A second of wall-clock time passes.
Tick ==
    /\ now < MaxTime
    /\ now' = now + 1
    /\ UNCHANGED <<main, hval, zelem, zscore, expire, pc, op, readers, ops>>

\* Every command has been issued and answered.
Finished ==
    /\ ops = MaxOps
    /\ \A c \in Clients : pc[c] = "idle"
    /\ UNCHANGED vars

Step(c) == ReadSeg(c) \/ CleanSeg(c) \/ WriteStep(c)

Next ==
    \/ \E c \in Clients, o \in Commands : RunUnique(c, o) \/ LockShared(c, o)
    \/ \E c \in Clients : Step(c)
    \/ Tick
    \/ Finished

\* A thread that holds or waits for redis_mtx is scheduled; clients may
\* stop issuing commands and the clock need not advance.
Spec == Init /\ [][Next]_vars /\ \A c \in Clients : WF_vars(Step(c))

-----------------------------------------------------------------------------
(***************************************************************************)
(* Properties.                                                            *)
(***************************************************************************)

TypeOK ==
    /\ \A k \in StrKeys : main[k] \in Int \cup {Nil}
    /\ \A k \in HashKeys : main[k] \in (Seq(Fields) \ {<<>>}) \cup {Nil}
    /\ \A k \in ListKeys : main[k] \in (Seq(LVals) \ {<<>>}) \cup {Nil}
    /\ \A k \in ZKeys : main[k] \in {ZMarker, Nil}
    /\ hval \in [HashKeys \X Fields -> HVals \cup {Nil}]
    /\ zelem \in [ZKeys \X Elems -> ScoreSpace \cup {Nil}]
    /\ zscore \in [ZKeys \X ScoreSpace -> Elems \cup {Nil}]
    /\ expire \in [Keys -> Int \cup {Nil}]
    /\ pc \in [Clients -> {"idle", "read", "clean", "clean_ttl", "write"}]
    /\ readers \subseteq {c \in Clients : pc[c] = "read"}
    /\ ops \in 0..MaxOps

\* The cleanup done after a lock upgrade removes only what was garbage when
\* the shared segment looked: a cleanup step that removes anything finds
\* the key still expired (or, in redis_get, the expiry still without its
\* key) when it takes the unique lock.  Otherwise a set, expire or push by
\* another client in the gap between rlock.unlock() and the unique lock is
\* silently undone.
CleanupRemovesOnlyExpired ==
    [][\A c \in Clients :
         /\ pc[c] \in {"clean", "clean_ttl"}
         /\ pc'[c] # pc[c]
         /\ <<main, hval, zelem, zscore, expire>>'
              # <<main, hval, zelem, zscore, expire>>
         => IF pc[c] = "clean_ttl" THEN main[op[c].key] = Nil
                                  ELSE Expired(op[c].key)]_vars

\* A hash's field list and its field keys agree: every listed field has a
\* value, every stored field is listed once, and a hash that is gone has no
\* fields left (hset, hdel, del and expire_hash_clean, interleaved).
HashIndexConsistent ==
    \A k \in HashKeys :
        /\ main[k] # Nil => IsInjective(main[k])
        /\ \A f \in Fields : hval[k, f] # Nil <=> f \in FieldsOf(k)

\* A sorted set's member keys and score keys are inverse: a member's score
\* key names the member, and a score key's member has that score, so
\* zrange/zcard (score keys) and zscore/zrem (member keys) agree.
ZSetIndexConsistent ==
    \A k \in ZKeys :
        /\ \A e \in Elems : zelem[k, e] # Nil => zscore[k, zelem[k, e]] = e
        /\ \A s \in ScoreSpace : zscore[k, s] # Nil => zelem[k, zscore[k, s]] = s

\* Every command a client has started completes: no thread waits forever
\* for redis_mtx.  Each writing command upgrades by its own rlock.unlock()
\* on the path where its key has not expired, and by the cleanup helper's
\* on the path where it has; a command that missed either would wait for
\* the unique lock while still holding the shared one, and so would every
\* other client's writer after it.
CommandsComplete == \A c \in Clients : pc[c] # "idle" ~> pc[c] = "idle"

-----------------------------------------------------------------------------
(***************************************************************************)
(* Refinement: the wrapper implements RedisStore.  A hash is the values   *)
(* of its field keys, a list the elements in its key, a sorted set the    *)
(* scores of its member keys (what hget, lrange and zscore read).  A      *)
(* command takes effect at the step that returns its client to "idle";    *)
(* until then the client is busy.                                         *)
(***************************************************************************)
Store == INSTANCE RedisStore
    WITH str  <- [k \in StrKeys |-> main[k]],
         hash <- [k \in HashKeys |-> [f \in Fields |-> hval[k, f]]],
         list <- [k \in ListKeys |-> IF main[k] = Nil THEN <<>> ELSE main[k]],
         zset <- [k \in ZKeys |-> [e \in Elems |-> zelem[k, e]]],
         ttl  <- expire,
         cmd  <- [c \in Clients |-> IF pc[c] = "idle" THEN op[c]
                                    ELSE [name |-> "busy", key |-> Nil, arg |-> Nil]]

\* Every behaviour of the wrapper, with its clients' commands interleaved
\* segment by segment, is a behaviour of the atomic store: each command
\* has the effect of one atomic command at its last step, the cleanups
\* remove only keys that have expired, and a del removes the whole value
\* of its key, whatever its type.
RefinesRedisStore == Store!Spec
=============================================================================
