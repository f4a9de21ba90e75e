---------------------------- MODULE BackupHistory ----------------------------
(***************************************************************************)
(* The operations on status.backups of a ShardedRedisBackup, on the SET of *)
(* its entries.  The code keeps a slice that it sorts newest first; module *)
(* BackupStatusList translates the slice algorithms and shows that they    *)
(* compute what these operators say.                                       *)
(***************************************************************************)
EXTENDS Naturals, FiniteSets

CONSTANTS
  Shards,        \* names of the shards
  Servers        \* host:port of the redis servers, as the numbers they sort by

ASSUME ServersAssumption == Servers \subseteq Nat \ {0}

NoServer == 0    \* ServerID of a backup that has not been started

BackupStates == {"Pending", "Running", "Completed", "Failed", "Unknown"}
OpenStates   == {"Pending", "Running"}

\* A BackupStatus.  located tells whether BackupFile holds a location.
BackupStatus ==
  [shard : Shards, sched : Nat, state : BackupStates,
   server : Servers \cup {NoServer}, started : Nat, located : BOOLEAN]

\* The newest backup of the shard in that state: a singleton, or {} for nil.
FindLastBackup(B, shard, state) ==
  {b \in B : /\ b.shard = shard
             /\ b.state = state
             /\ \A c \in B : c.shard = shard /\ c.state = state => c.sched =< b.sched}

GetRunningBackups(B) == {b \in B : b.state = "Running"}

\* The newest limit backups of each of the given shards, nothing of the others.
ApplyHistoryLimit(B, limit, shards) ==
  {b \in B : /\ b.shard \in shards
             /\ Cardinality({c \in B : c.shard = b.shard /\ c.sched > b.sched}) < limit}

Scheduled(shard, nextRun) ==
  [shard |-> shard, sched |-> nextRun, state |-> "Pending",
   server |-> NoServer, started |-> 0, located |-> FALSE]

\* Mutant: running backups are not looked at.
ToScheduleIgnoringRunning(B, nextRun, shards) ==
  {s \in shards : \A b \in FindLastBackup(B, s, "Pending") : b.sched # nextRun}

\* Shards that reconcileBackupList adds a backup for: nothing running, and
\* nothing pending for that very time.
ToSchedule(B, nextRun, shards) ==
  {s \in shards : /\ FindLastBackup(B, s, "Running") = {}
                  /\ \A b \in FindLastBackup(B, s, "Pending") : b.sched # nextRun}

\* Mutant: a running backup is replaced as a pending one is.
ReconcileBackupListReplacingRunning(B, nextRun, shards, limit) ==
  LET add      == ToScheduleIgnoringRunning(B, nextRun, shards)
      replaced == {b \in B : b.shard \in add /\ b.state \in OpenStates}
  IN  ApplyHistoryLimit((B \ replaced) \cup {Scheduled(s, nextRun) : s \in add},
                        limit, shards)

\* reconcileBackupList: replace or add the pending backups, then truncate.
ReconcileBackupList(B, nextRun, shards, limit) ==
  LET add      == ToSchedule(B, nextRun, shards)
      replaced == UNION {FindLastBackup(B, s, "Pending") : s \in add}
  IN  ApplyHistoryLimit((B \ replaced) \cup {Scheduled(s, nextRun) : s \in add},
                        limit, shards)

\* Mutant: only the lengths are compared.
ListChangedByLength(B, new) == Cardinality(new) # Cardinality(B)

\* The value reconcileBackupList returns.  An empty result is non-nil, the
\* empty list of the API object is nil, and reflect.DeepEqual tells them apart.
ListChanged(B, new) == new # B \/ new = {}
=============================================================================
