SPECIFICATION PromptSpec
CONSTANTS
  Shards = {1}
  Servers = {1}
  Topologies <- OneServerTopology
  InitTopology <- JustOne
  HistoryLimit = 1
  Timeout = 1
  RetryDelay = 1
  Crons = {2}
  InitCron = 2
  NextRun <- Every
  MaxTime = 4
  Scenarios <- OnePause
INVARIANT CompletedIsStored
CHECK_DEADLOCK FALSE
