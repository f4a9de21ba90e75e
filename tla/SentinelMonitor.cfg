SPECIFICATION FairSpec
CONSTANTS
  Shards = {"a", "b"}
  Servers = {1, 2, 3}
  ShardOf <- TwoShards
  FirstMaster <- TwoMasters
  N = 2
  Scenarios <- AnyThree
PROPERTY NeverGuesses
PROPERTY Monitors
