SPECIFICATION FairSpec
CONSTANTS
  Shards = {"a", "b"}
  Servers = {1, 2, 3, 4}
  ShardOf <- TwoShards
  FirstMaster <- TwoMasters
  RW = {2, 3}
  Consumers = {"masters", "slaves-rw", "status"}
  Scenarios <- AnyTwo
INVARIANT OneMaster
INVARIANT AllShardsTargeted
PROPERTY MastersWereReal
PROPERTY Converges
