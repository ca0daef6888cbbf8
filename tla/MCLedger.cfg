SPECIFICATION Spec
CONSTANTS
  zero = zero  alice = alice  bob = bob  cont = cont  fresh = fresh  comm = comm  burned = burned
  h1 = h1  h2 = h2  h3 = h3  h4 = h4  h5 = h5  h6 = h6  h7 = h7
  Addr <- MCAddr
  ShardOf <- MCShardOf
  ZeroAddr = zero
  MinGasPrice = 1
  MinGasLimit = 1
  MaxGasLimitPerBlock = 10
  Word = 1000
  Shards = {0, 1}
  Txs <- MCTxs
  VmOutputs <- MCVmOutputs
  Genesis <- MCGenesis
  Contracts = {cont}
  Group <- MCGroup
  MetaGroup <- MCMetaGroup
  Community = comm
  Burn = burned
  LeaderPercentage = 50
  CommunityPercentage = 10
  BurnPercentage = 40
  RewardsValue = 4
  MaxBlocks = 2
  CrossCalls = FALSE
  VmFaults = FALSE
VIEW MCView
INVARIANTS
  Conservation NoncesInOrder
CHECK_DEADLOCK FALSE
