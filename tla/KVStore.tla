------------------------------ MODULE KVStore ------------------------------
(***************************************************************************)
(* What the LSM store promises its clients (spec.md sections 1, 3 and 6): *)
(* a map from keys to values in which a write replaces the value of its   *)
(* key, an empty value (the tombstone) or a remove makes the key absent,  *)
(* and clear empties the map.  Flushes and compactions are invisible:     *)
(* they are stuttering steps of this specification.                       *)
(***************************************************************************)
EXTENDS Naturals

CONSTANTS
    Keys,     \* the keys a client may use
    Vals,     \* the non-empty values a client may write
    Tomb,     \* the empty value "" (a tombstone)
    NoValue   \* what get returns for an absent key (std::nullopt)

VARIABLES
    dict,   \* key -> the value get returns
    calls,  \* client calls that have changed the map so far
    last    \* the last call: its name and its batch (keys to values)

vars == <<dict, calls, last>>

\* A value as a reader sees it: the tombstone reads as absent.
Visible(v) == IF v = Tomb THEN NoValue ELSE v

\* The batches a call may carry: at least one key, a value for each.
Batches == UNION {[D -> Vals \cup {Tomb}] : D \in SUBSET Keys \ {{}}}

TypeOK == dict \in [Keys -> Vals \cup {NoValue}] /\ calls \in Nat

Init ==
    /\ dict = [k \in Keys |-> NoValue]
    /\ calls = 0
    /\ last = [op |-> "none", arg |-> <<>>]

Call(name, kvs) == calls' = calls + 1 /\ last' = [op |-> name, arg |-> kvs]

\* put and put_batch: each key of the batch takes its value.
Put(kvs) ==
    /\ Call("put", kvs)
    /\ dict' = [k \in Keys |-> IF k \in DOMAIN kvs THEN Visible(kvs[k]) ELSE dict[k]]

\* remove and remove_batch: each key of the batch becomes absent.
Remove(kvs) ==
    /\ \A k \in DOMAIN kvs : kvs[k] = Tomb
    /\ Call("remove", kvs)
    /\ dict' = [k \in Keys |-> IF k \in DOMAIN kvs THEN NoValue ELSE dict[k]]

Clear == Call("clear", <<>>) /\ dict' = [k \in Keys |-> NoValue]

Next == (\E kvs \in Batches : Put(kvs) \/ Remove(kvs)) \/ Clear

Spec == Init /\ [][Next]_vars
=============================================================================
