---------------------------- MODULE BackupSlices ----------------------------
(* The slices behind the lists of the backup controller.                   *)
EXTENDS ShardedRedisBackup, BackupStatusList

\* The history B of every shard s as that of the shard 2 * s + d.
Relabelled(B, d) == {[b EXCEPT !.shard = 2 * @ + d] : b \in B}

Labels(D) == {2 * s + d : s \in cluster.shards, d \in D}

\* The slice algorithms (sort, first match, per-shard limit) compute what
\* their definitions on sets say, for the shards of the cluster with the stored
\* history and as many with the history the cache shows, whichever of the two
\* are left.
ListAgrees ==
  LET both == Relabelled(api.backups, 0) \cup Relabelled(cache.backups, 1)
  IN  \A D \in SUBSET (0 .. 1) :
        SliceAgrees(both, NextRun(cache.cron, now), Labels(D), HistoryLimit)
=============================================================================
