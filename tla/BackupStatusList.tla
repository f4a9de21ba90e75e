-------------------------- MODULE BackupStatusList --------------------------
(***************************************************************************)
(* status.backups as the code keeps it: a slice, sorted newest first, that *)
(* FindLastBackup scans from the front and ApplyHistoryLimit cuts.  Module *)
(* BackupHistory gives the same operations on the set of the entries.      *)
(***************************************************************************)
EXTENDS BackupHistory, Sequences, SequencesExt

\* The elements of a finite set S in the order R, a set of pairs: the one
\* that k - 1 others come before is the k-th.
InOrder(S, R) ==
  [k \in 1 .. Cardinality(S) |->
     CHOOSE x \in S : Cardinality({y \in S : <<y, x>> \in R}) = k - 1]

Ascending(N) == InOrder(N, {p \in N \X N : p[1] < p[2]})

\* Less of BackupStatusList compares "<milliseconds>-<shard>"; the times all
\* have the same number of digits, and shards are numbers here, in the order
\* of their names.
Less(a, b) == a.sched < b.sched \/ (a.sched = b.sched /\ a.shard < b.shard)

Newer(a, b) == Less(b, a)

\* sort.Sort(sort.Reverse(l)): the positions of l, the newer entries first,
\* those that compare equal in some order.
SortReverse(l) ==
  LET positions == 1 .. Len(l)
      Ahead(i, j) == Newer(l[i], l[j]) \/ (~Newer(l[j], l[i]) /\ i < j)
      from == InOrder(positions, {p \in positions \X positions : Ahead(p[1], p[2])})
  IN  [k \in positions |-> l[from[k]]]

\* Mutant: sorted the other way round.
AddBackupOldestFirst(l, b) == Reverse(SortReverse(Append(l, b)))

AddBackup(l, b) == SortReverse(Append(l, b))

DeleteBackup(l, pos) == RemoveAt(l, pos)

\* The position of the first match, 0 for nil.
FindLast(l, shard, state) ==
  SelectInSeq(l, LAMBDA b : b.shard = shard /\ b.state = state)

\* ApplyHistoryLimit: for each shard the first limit entries, then sort.
LimitHistory(l, limit, shards) ==
  LET kept == {i \in 1 .. Len(l) :
                 /\ l[i].shard \in shards
                 /\ Cardinality({j \in 1 .. i - 1 : l[j].shard = l[i].shard}) < limit}
      from == Ascending(kept)
  IN  SortReverse([k \in 1 .. Cardinality(kept) |-> l[from[k]]])

\* One shard of the loop in reconcileBackupList.
ScheduleShard(l, shard, nextRun) ==
  LET pos == FindLast(l, shard, "Pending")
      new == Scheduled(shard, nextRun)
  IN  IF FindLast(l, shard, "Running") # 0 \/ (pos # 0 /\ l[pos].sched = nextRun)
      THEN l
      ELSE AddBackup(IF pos = 0 THEN l ELSE DeleteBackup(l, pos), new)

\* reconcileBackupList: the shards in the order of their names, then the limit.
ReconcileList(l, nextRun, shards, limit) ==
  LET names == Ascending(shards)
      Loop[i \in 0 .. Cardinality(shards)] ==
        IF i = 0 THEN l ELSE ScheduleShard(Loop[i - 1], names[i], nextRun)
  IN  LimitHistory(Loop[Cardinality(shards)], limit, shards)

-----------------------------------------------------------------------------

\* The entries B as the API stores them, newest first.
SliceOf(B) == InOrder(B, {p \in B \X B : Newer(p[1], p[2])})

\* On the sorted slice of the entries B, FindLastBackup finds the newest
\* backup of the shard in that state and only that, and reconcileBackupList
\* makes the slice of the entries that ReconcileBackupList gives, sorted.
SliceAgrees(B, nextRun, shards, limit) ==
  LET l == SliceOf(B)
  IN  /\ \A s \in shards : \A st \in BackupStates :
           LET pos == FindLast(l, s, st)
           IN  FindLastBackup(B, s, st) = IF pos = 0 THEN {} ELSE {l[pos]}
      /\ ReconcileList(l, nextRun, shards, limit)
           = SliceOf(ReconcileBackupList(B, nextRun, shards, limit))
=============================================================================
