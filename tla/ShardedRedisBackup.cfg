SPECIFICATION Spec
CONSTANTS
  Shards = {1}
  Servers = {1, 2}
  Topologies <- OneShardTopologies
  InitTopology <- BothSlaves
  HistoryLimit = 2
  Timeout = 1
  RetryDelay = 1
  Crons = {1, 3}
  InitCron = 1
  NextRun <- Every
  MaxTime = 3
  Scenarios <- AnyTwo
INVARIANT StatusInv
INVARIANT FailedIsHonest
INVARIANT RunsOnce
INVARIANT NoThreadAfterDeletion
PROPERTY RunningNeverDropped
PROPERTY LedgerSpec
CHECK_DEADLOCK FALSE
