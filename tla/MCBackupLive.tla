---------------------------- MODULE MCBackupLive ----------------------------
(* The backup controller watched over time: what it owes, what it keeps    *)
(* when it is prompt, and the slice behind the set of backups.             *)
EXTENDS MCShardedRedisBackup, PromptBackup, BackupSlices

LiveSpec == WatchedSpec /\ Fairness

\* Shard 1 has a slave and loses it, or keeps it while shard 2 comes without one.
Slaves(shards, ro) ==
  [shards |-> shards, ro |-> [s \in Shards |-> IF s = 1 THEN ro ELSE {}], members |-> {1}]
OneServed      == Slaves({1}, {1})
LiveTopologies == {OneServed, Slaves({1}, {}), Slaves({1, 2}, {1})}

\* A restart, a change of the topology, a failed write, or a pause and its end.
LiveEvents ==
  {e \in [EventKinds -> 0..2] :
     /\ e["delete"] + e["schedule"] = 0
     /\ SumFunction(e) <= 1 \/ (e["pause"] = 2 /\ SumFunction(e) = 2)}
=============================================================================
