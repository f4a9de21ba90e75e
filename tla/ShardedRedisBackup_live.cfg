SPECIFICATION LiveSpec
CONSTANTS
  Shards = {1, 2}
  Servers = {1}
  Topologies <- LiveTopologies
  InitTopology <- OneServed
  HistoryLimit = 2
  Timeout = 1
  RetryDelay = 1
  Crons = {1}
  InitCron = 1
  NextRun <- Every
  MaxTime = 3
  Scenarios <- LiveEvents
INVARIANT PromptNoUnknown
INVARIANT PromptOneRunner
INVARIANT ListAgrees
PROPERTY DuePendingStarts
PROPERTY RunningResolves
PROPERTY StaysScheduled
CHECK_DEADLOCK FALSE
