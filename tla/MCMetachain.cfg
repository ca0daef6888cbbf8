SPECIFICATION Spec
CONSTANTS
  Shards = {0, 1}
  Hdr <- MCHdr
  ShardBlockFinality = 1
  AllowedSize = 2
  MaxItems = 2
  FirstMetaRound = 3
  MaxMetaRound = 4
  MaxHandlers = 1
  MaxMetaBlocks = 2
  RollBackDepth = 2
  SlowSender = FALSE
  CommitFails = FALSE
  Stakers = {"a", "g"}
  GenesisStakers = {"g"}
  BlsKeys = {"k", "l"}
  StakeValue = 2
  UnBoundPeriod = 2
  LeaversAlone = TRUE
  SkipRounds = TRUE
  LastBlock = 5
  MaxStaked = 6
  Setups <- Files
  IndexHash <- Hash
  RandSeedOf <- SeedOf
  LastRound = 5
  MaxStatBlocks = 4
  MaxPerShard = 2
  PeerAddresses = {1, 2}
  PeerValues = {0, 1}
  MaxPeerJournal = 3
  MaxPeerObjects = 2
INVARIANTS
  NotarizedOnceInOrder  EachRoundOnce RevertRestoresPeers
CHECK_DEADLOCK FALSE
