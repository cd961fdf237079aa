----------------------------- MODULE RedisStore -----------------------------
(***************************************************************************)
(* What the Redis command layer promises its clients: a store of typed    *)
(* values (integers, hashes, lists, sorted sets) with expiry times, in    *)
(* which every command takes effect atomically, at one instant between    *)
(* its call and its return: a client is busy from its call until its      *)
(* command takes effect.  An expired key may vanish at any moment         *)
(* (lazy expiry), and a command that reads a key may first make it        *)
(* vanish.  The encodings the wrapper uses to keep these values in the    *)
(* LSM store, and its locking, are invisible here.                        *)
(***************************************************************************)
EXTENDS Integers, Sequences

CONSTANTS
    Clients,
    StrKeys, HashKeys, ListKeys, ZKeys,
    Fields, HVals, LVals, Elems, Scores, Incs, StrVals, Secs,
    IntBits, MaxTime,
    Nil

VARIABLES
    str,    \* string key -> its integer, or Nil
    hash,   \* hash key -> field -> value, or Nil (no field: no hash)
    list,   \* list key -> its elements (<<>>: no list)
    zset,   \* sorted-set key -> member -> score, or Nil
    ttl,    \* key -> its expiry time in seconds, or Nil
    now,    \* the clock
    cmd     \* client -> Busy while its command runs; then that command

vars == <<str, hash, list, zset, ttl, now, cmd>>

Keys == StrKeys \cup HashKeys \cup ListKeys \cup ZKeys

NoOp == [name |-> "none", key |-> Nil, arg |-> Nil]
Busy == [name |-> "busy", key |-> Nil, arg |-> Nil]

\* The commands, one key each: [name, key, arg].
Commands ==
    [name : {"set"}, key : StrKeys, arg : StrVals]
      \cup [name : {"get", "incr", "decr"}, key : StrKeys, arg : {Nil}]
      \cup [name : {"del"}, key : Keys, arg : {Nil}]
      \cup [name : {"expire"}, key : Keys, arg : Secs]
      \cup [name : {"hset"}, key : HashKeys, arg : Fields \X HVals]
      \cup [name : {"hdel"}, key : HashKeys, arg : Fields]
      \cup [name : {"hget", "hkeys"}, key : HashKeys, arg : {Nil}]
      \cup [name : {"lpush", "rpush"}, key : ListKeys, arg : LVals]
      \cup [name : {"lpop", "rpop", "llen", "lrange"}, key : ListKeys, arg : {Nil}]
      \cup [name : {"zadd"}, key : ZKeys, arg : Scores \X Elems]
      \cup [name : {"zincrby"}, key : ZKeys, arg : Incs \X Elems]
      \cup [name : {"zrem"}, key : ZKeys, arg : Elems]
      \cup [name : {"zrange", "zcard", "zscore", "zrank"}, key : ZKeys, arg : {Nil}]

\* A long long of IntBits bits, two's complement.
Wrap(n) == ((n + 2^(IntBits - 1)) % 2^IntBits) - 2^(IntBits - 1)

Expired(k) == ttl[k] # Nil /\ ttl[k] < now

\* The key holds no value of its type.
Absent(k) ==
    CASE k \in StrKeys  -> str[k] = Nil
      [] k \in HashKeys -> \A f \in Fields : hash[k][f] = Nil
      [] k \in ListKeys -> list[k] = <<>>
      [] k \in ZKeys    -> \A e \in Elems : zset[k][e] = Nil

\* The key's value, and with it its expiry, is gone.
Drop(k) ==
    /\ str' = IF k \in StrKeys THEN [str EXCEPT ![k] = Nil] ELSE str
    /\ hash' = IF k \in HashKeys THEN [hash EXCEPT ![k] = [f \in Fields |-> Nil]]
               ELSE hash
    /\ list' = IF k \in ListKeys THEN [list EXCEPT ![k] = <<>>] ELSE list
    /\ zset' = IF k \in ZKeys THEN [zset EXCEPT ![k] = [e \in Elems |-> Nil]]
               ELSE zset
    /\ ttl' = [ttl EXCEPT ![k] = Nil]

Unchanged == UNCHANGED <<str, hash, list, zset, ttl>>

Init ==
    /\ str = [k \in StrKeys |-> Nil]
    /\ hash = [k \in HashKeys |-> [f \in Fields |-> Nil]]
    /\ list = [k \in ListKeys |-> <<>>]
    /\ zset = [k \in ZKeys |-> [e \in Elems |-> Nil]]
    /\ ttl = [k \in Keys |-> Nil]
    /\ now = 0
    /\ cmd = [c \in Clients |-> NoOp]

\* An expired key vanishes: lazy expiry, done by whichever command reads
\* the key.  An expiry left on an absent key means nothing to a reader and
\* may be dropped as well.
Evict(k) ==
    /\ Expired(k) \/ (Absent(k) /\ ttl[k] # Nil)
    /\ Drop(k)

Keep(v) == UNCHANGED v

SetV(k, v) == str' = [str EXCEPT ![k] = v] /\ ttl' = [ttl EXCEPT ![k] = Nil]
              /\ Keep(<<hash, list, zset>>)
IncrV(k, d) == str' = [str EXCEPT ![k] = IF @ = Nil THEN d ELSE Wrap(@ + d)]
               /\ Keep(<<hash, list, zset, ttl>>)
ExpireV(k, s) == ttl' = [ttl EXCEPT ![k] = now + s] /\ Keep(<<str, hash, list, zset>>)
HashV(k, f, v) == hash' = [hash EXCEPT ![k][f] = v] /\ Keep(<<str, list, zset, ttl>>)
PushV(k, x, left) ==
    list' = [list EXCEPT ![k] = IF left THEN <<x>> \o @ ELSE Append(@, x)]
    /\ Keep(<<str, hash, zset, ttl>>)
PopV(k, left) ==
    list' = [list EXCEPT ![k] = IF @ = <<>> THEN @ ELSE IF left THEN Tail(@)
                                ELSE SubSeq(@, 1, Len(@) - 1)]
    /\ Keep(<<str, hash, zset, ttl>>)
ZSetV(k, e, s) == zset' = [zset EXCEPT ![k][e] = s] /\ Keep(<<str, hash, list, ttl>>)

\* What command o does to the store, atomically.
Effect(o) ==
    LET k == o.key IN
    CASE o.name = "set"     -> SetV(k, o.arg)
      [] o.name = "incr"    -> IncrV(k, 1)
      [] o.name = "decr"    -> IncrV(k, -1)
      [] o.name = "del"     -> Drop(k)
      [] o.name = "expire"  -> ExpireV(k, o.arg)
      [] o.name = "hset"    -> HashV(k, o.arg[1], o.arg[2])
      [] o.name = "hdel"    -> HashV(k, o.arg, Nil)
      [] o.name = "lpush"   -> PushV(k, o.arg, TRUE)
      [] o.name = "rpush"   -> PushV(k, o.arg, FALSE)
      [] o.name = "lpop"    -> PopV(k, TRUE)
      [] o.name = "rpop"    -> PopV(k, FALSE)
      [] o.name = "zadd"    -> ZSetV(k, o.arg[2], o.arg[1])
      [] o.name = "zincrby" -> ZSetV(k, o.arg[2], IF zset[k][o.arg[2]] = Nil THEN o.arg[1]
                                                 ELSE zset[k][o.arg[2]] + o.arg[1])
      [] o.name = "zrem"    -> ZSetV(k, o.arg, Nil)
      [] OTHER              -> Unchanged

\* A client calls a command: it is busy until the command takes effect.
Call(c) ==
    /\ cmd[c] # Busy
    /\ cmd' = [cmd EXCEPT ![c] = Busy]
    /\ Unchanged /\ UNCHANGED now

\* The commands that, finding their key expired, evict it and then have
\* nothing left to do: the reads, and the removals (on an absent value).
EvictOnly == {"get", "hget", "hkeys", "llen", "lrange", "zrange", "zcard",
              "zscore", "zrank", "hdel", "lpop", "rpop", "zrem"}

\* Command o of client c takes effect (a command may also be called and
\* take effect in one step).
Do(c, o) ==
    /\ cmd' = [cmd EXCEPT ![c] = o]
    /\ Effect(o) \/ (o.name \in EvictOnly /\ Evict(o.key))
    /\ UNCHANGED now

Tick == now < MaxTime /\ now' = now + 1 /\ Unchanged /\ UNCHANGED cmd

Next ==
    \/ \E k \in Keys : Evict(k) /\ UNCHANGED <<now, cmd>>
    \/ \E c \in Clients : Call(c) \/ \E o \in Commands : Do(c, o)
    \/ Tick

Spec == Init /\ [][Next]_vars
=============================================================================
