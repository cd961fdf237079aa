--------------------------- MODULE MCRedisWrapper ---------------------------
(***************************************************************************)
(* RedisWrapper instantiated for TLC.                                     *)
(***************************************************************************)
EXTENDS RedisWrapper

\* Every command of the wrapper that changes the store or cleans it.
AllCmds == {"set", "get", "incr", "decr", "del", "expire",
            "hset", "hdel", "hget", "hkeys",
            "lpush", "rpush", "lpop", "rpop", "llen", "lrange",
            "zadd", "zincrby", "zrem", "zrange", "zcard", "zscore", "zrank"}

\* The string commands whose expiry handling races: get cleans after an
\* upgrade, set and expire write in the gap.
StrRaceCmds == {"get", "set", "expire"}

\* The hash commands, with del and expire on the hash.
HashCmds == {"hset", "hdel", "hget", "del", "expire"}

\* The sorted-set commands other than zadd, with expire and a reader that
\* cleans.
ZSetCmds == {"zincrby", "zrem", "zcard", "expire"}

\* Every command but zadd, whose score-index bugs its own runs show.
IndexCmds == AllCmds \ {"zadd"}

ZAddCmds == {"zadd"}
ZAddDelCmds == {"zadd", "del"}
=============================================================================
