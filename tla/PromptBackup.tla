---------------------------- MODULE PromptBackup ----------------------------
(* The backup controller, watched for whether it keeps up with the clock.  *)
EXTENDS ShardedRedisBackup

VARIABLE prompt   \* so far the clock has never advanced past pending work

Watch == prompt' = (prompt /\ (now' # now => Settled))

WatchedSpec == Init /\ prompt = TRUE /\ [][Next /\ Watch]_<<vars, prompt>>

\* What the promptness properties ask: the controller has kept up with the
\* clock, neither the process nor the topology nor the schedule has changed,
\* and every shard has a read-only slave (for one that has none Reconcile
\* returns before it looks at the runners of the others).
Undisturbed ==
  /\ prompt
  /\ \A e \in EventKinds \ {"pause", "writeError"} : events[e] = 0
  /\ \A s \in cluster.shards : cluster.ro[s] # {}

\* While the topology and the process stay as they are and the controller
\* keeps up with the clock, no backup ends in state Unknown, whatever is paused
\* and whichever writes fail: its runner stays in the map until its result is
\* in the status (CanBeDeleted).
PromptNoUnknown == Undisturbed => NoUnknown

\* Under the same conditions a shard never has two backups executing at the
\* same time (reconcileBackupList skips a shard that has one running).
PromptOneRunner == Undisturbed => OneRunnerPerShard

-----------------------------------------------------------------------------
(* What makes them so: the parts of an inductive invariant.                *)

\* The resource is there, and the worker holds no write but these.
InPlace ==
  /\ aliased
  /\ api.exists /\ ~api.deleting /\ cache.exists /\ ~cache.deleting
  /\ write = NoWrite \/ write.kind \in {"init", "status"}

\* The key of the runner that executes the entry.
RunnerOf(b) == KeyOf(b, FirstROSlave(b.shard))

\* A running entry of a list has its runner in the map, no older than its
\* timeout; a pending one has none, or one that was started at this instant.
Tracked(B) ==
  \A b \in B :
    /\ b.shard \in cluster.shards /\ b.state # "Unknown"
    /\ b.state = "Running" =>
         /\ b.server = FirstROSlave(b.shard)
         /\ RunnerOf(b) \in threads /\ now =< runner[RunnerOf(b)].ts + Timeout
    /\ b.state = "Pending" /\ RunnerOf(b) \in threads => runner[RunnerOf(b)].ts = now

\* There is something left to do at this instant, unless the stored list
\* shows every runner that is in the map and every result.
Busy == queued \/ write # NoWrite \/ cache # api

Attended ==
  ~Busy =>
    \A b \in api.backups :
      /\ b.state = "Running" => runner[RunnerOf(b)].st \notin {"done", "failed"}
      /\ b.state = "Pending" => RunnerOf(b) \notin threads

OpenIn(B, k) == \E b \in B : b.shard = k.shard /\ b.sched = k.sched /\ b.state \in OpenStates

\* A runner in the map is the one its shard has, and what executes is in the
\* map and open in the stored list.
Mapped ==
  /\ \A k \in threads :
       /\ k.aliased /\ k.shard \in cluster.shards /\ k.server = FirstROSlave(k.shard)
       /\ k.sched < now /\ runner[k].st \notin {"none", "killed"}
  /\ \A k \in Keys : runner[k].st = "running" =>
       k \in threads /\ now =< runner[k].ts + Timeout /\ OpenIn(api.backups, k)

\* An entry that is due is not lost: what the cache shows pending is open in
\* the stored list or has its runner; what is open there stays so in the
\* pending write, or its runner is over.  And a pending write changes the list.
Recorded ==
  /\ \A b \in cache.backups : b.state = "Pending" /\ b.sched < now =>
       OpenIn(api.backups, b) \/ RunnerOf(b) \in threads
  /\ write.kind = "status" /\ write.rv = api.rv =>
       /\ write.backups # api.backups \/ write.backups = {}
       /\ \A b \in api.backups : b.state \in OpenStates /\ b.sched < now =>
            \/ OpenIn(write.backups, b)
            \/ RunnerOf(b) \in threads /\ runner[RunnerOf(b)].st # "running"

KeptUp ==
  /\ InPlace
  /\ Tracked(api.backups) /\ Tracked(cache.backups) /\ Tracked(write.backups)
  /\ Attended /\ Mapped /\ Recorded

PromptInv == Undisturbed => KeptUp
=============================================================================
