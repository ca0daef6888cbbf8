SPECIFICATION BlocksSpec
CONSTANTS
  mbA = mbA
  mbB = mbB
  mbC = mbC
  MaxMeta = 3
  Mbs = {mbA, mbB, mbC}
  MbsOf <- TwoMetas
  MaxRound = 4
  MaxCrash = 1
  Modulus = 16
  Faults = {}
  zero = zero  alice = alice  carol = carol  bob = bob  near = near  there = there  far = far  meta = meta
  AliceBalance = 40
  CarolBalance = 40
  ThreeShards = FALSE
  CrossCall = FALSE
  Addr <- MCAddr
  ShardOf <- MCShardOf
  ZeroAddr = zero
  MinGasPrice = 1
  MinGasLimit = 1
  MaxGasLimitPerBlock = 8
  Word = 1000
  Self = 0
  Destinations <- MCDestinations
  Txs <- MCTxs
  Cross <- MCCross
  ScAddr = {zero, near, there, far}
  GenesisBalances <- MCGenesis
  Contracts = {near}
  Vm <- MCVm
  MaxItems = 5
  MaxMiniBlocksInBlock = 4
  MaxBlocks = 2
  SelfId = 0
  BlockItems = {"t01", "t10", "s00", "s01", "r00", "r01", "r10", "q00"}
  KindOf <- MCKindOf
  SndOf <- MCSndOf
  RcvOf <- MCRcvOf
  MadeBy <- MCMadeBy
  RewardsOf <- MCRewardsOf
  CrossMbs <- MCCrossMbs
  MaxDataOps = 3
INVARIANTS
  ExecutedOnce NotarizedFollowsChain ProposedIsAccepted HonestBlockGoesThrough RolledBackIsInPools
PROPERTIES
  FinalSurvivesRestart
CHECK_DEADLOCK FALSE
