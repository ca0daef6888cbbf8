SPECIFICATION WaitingSpec
CONSTANTS
  txX = txX
  txY = txY
  txZ = txZ
  Txs = {txX, txY, txZ}
  Body <- TwoBodies
  MaxBlock = 2
  MaxEvictions = 2
  Slow = FALSE
  InMsgs = {1, 2, 3}
  Arriving <- ThreeMessages
  Carried <- Messages
  MultiData = {"txs", "rewards", "late", "scrs"}
  Datum <- SentData
  MaxGoRoutines = 1
  MaxCallbacks = 2
  MaxNonceDelta = 1
  LastNonce = 1
  StoreKeys = {"a", "b"}
  UnitSettings <- UnitSettingsDef
  BloomBits <- BloomBitsDef
  MaxWrites = 3
  MayOvertake = FALSE
  OtherChains <- FiveHeaders
  MaxRound = 6
  AllowedSize = 3
  MaxHeaderRequestsAllowed = 2
  MaxHeadersToRequestInAdvance = 2
  MaxLost = 2
  PeerKey <- MCPeerKey
  PeerShard <- MCPeerShard
  OwnShard = 0
  MaskBits = 1
  KeyBits = 3
  InitialPeers <- MCInitialPeers
  AlwaysUp = {1}
  TargetConnCount = 2
  MinConnected = 1
  ReconnectMul = 2
  SlowPause = FALSE
  MaxDials = 1
  MaxDrops = 1
  Plans <- SilentPlan
  LeaderOf <- TurnLeader
  SyncHdr <- SmallNetwork
  NoHdr = "nil"
  MaxWaits = 1
  MaxInAdvance = 2
  SlowCallbacks = FALSE
  MaxFaults = 0

    
PROPERTIES
  BlocksPrepared RoundEnds  SyncEnds GapsFilled
CHECK_DEADLOCK FALSE
