---------------------------- MODULE BackupLedger ----------------------------
(***************************************************************************)
(* What status.backups of a ShardedRedisBackup promises its readers: a     *)
(* ledger with one line per (shard, scheduled time), in which a line moves *)
(* forward only (Pending, Running, then closed for good), a shard never    *)
(* has two open lines, and a closed line never comes back as an open one.  *)
(* The controller (module ShardedRedisBackup) is shown to implement it.    *)
(***************************************************************************)
EXTENDS Naturals

CONSTANT Shards            \* names of the shards of the redis cluster

VARIABLE ledger            \* a set of Lines

States == {"Pending", "Running", "Completed", "Failed", "Unknown"}
Open   == {"Pending", "Running"}
Closed == States \ Open

Line == [shard : Shards, sched : Nat, state : States]

SameLine(a, b) == a.shard = b.shard /\ a.sched = b.sched

\* One line for a (shard, time), and at most one open line for a shard.
WellFormed(L) ==
  \A a, b \in L :
    \/ a = b
    \/ /\ ~SameLine(a, b)
       /\ ~(a.shard = b.shard /\ a.state \in Open /\ b.state \in Open)

\* The states a line in state s may have after one step.
Successors(s) ==
  CASE s = "Pending" -> {"Pending", "Running"}
    [] s = "Running" -> {"Running"} \cup Closed
    [] OTHER         -> {s}

Init == ledger = {}

\* Lines may be opened as Pending, advanced, or dropped (replaced schedules
\* and the history limit), several of them in one update of the status.
Update ==
  /\ ledger' \subseteq Line
  /\ WellFormed(ledger')
  /\ \A new \in ledger' :
       \/ \E old \in ledger : SameLine(old, new) /\ new.state \in Successors(old.state)
       \/ new.state = "Pending" /\ \A old \in ledger : ~SameLine(old, new)

Next == Update

Spec == Init /\ [][Next]_ledger
=============================================================================
