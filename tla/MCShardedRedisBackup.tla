------------------------ MODULE MCShardedRedisBackup ------------------------
(* Small instances of ShardedRedisBackup for TLC.                          *)
EXTENDS ShardedRedisBackup, Functions

\* Schedules named by their period: the first multiple that has not passed, one
\* period after the start at the earliest.
Every(period, t) == period * (IF t = 0 THEN 1 ELSE (t + period - 1) \div period)

\* One shard: its two slaves are up, or none is, or the shard is gone.
BothSlaves == [shards |-> {1}, ro |-> [s \in {1} |-> {1, 2}], members |-> {1, 2}]
NoSlave    == [shards |-> {1}, ro |-> [s \in {1} |-> {}],     members |-> {1}]
NoShard    == [shards |-> {},    ro |-> [s \in {1} |-> {}],     members |-> {}]

JustOne    == [shards |-> {1}, ro |-> [s \in {1} |-> {1}],    members |-> {1}]

OneShardTopologies == {BothSlaves, NoSlave, NoShard}
OneServerTopology  == {JustOne}

\* Any two outside events of different kinds.
AnyTwo == {e \in [EventKinds -> 0..1] : SumFunction(e) <= 2}

OnePause == {e \in [EventKinds -> 0..1] : \A k \in EventKinds \ {"pause"} : e[k] = 0}
=============================================================================
