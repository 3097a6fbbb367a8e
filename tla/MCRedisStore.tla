---------------------------- MODULE MCRedisStore ----------------------------
(* Small instances of RedisStore for TLC.                                   *)
EXTENDS RedisStore, TLC

CONSTANT k1

Upsert(v, d) == [op |-> "upsert", key |-> k1, item |-> [version |-> v, deleted |-> d]]
Put(v) == [op |-> "init", data |-> k1 :> [version |-> v, deleted |-> FALSE]]
Reads == [op : {"get", "all", "initialized"}]

WritersAndReader ==
    1 :> {Upsert(1, FALSE), Put(1)} @@ 2 :> {Upsert(2, FALSE), Upsert(2, TRUE)} @@ 3 :> Reads
OtherWrites == {Upsert(2, FALSE), Put(2)}

Writer == 1 :> {Upsert(1, FALSE), Put(1)} @@ 2 :> {[op |-> "get"]}
=============================================================================
