SPECIFICATION NodeSpec
CONSTANTS
  NodeParts = {"trie", "units", "hook", "metrics", "beats", "messenger", "direct", "bulk", "net", "worker"}
  Keys <- KeysDef
  Values = {1, 2}
  HexTerminator = 2
  MaxTrieLevelAfterCommit = 2
  MaxTrieSteps = 3
  AnyDelete = FALSE
  StoreRoles = {"shard"}
  ItemKeys = {"k"}
  MaxStarts = 2
  OpenFails = TRUE
  Addresses = {"a", "b", "x"}
  LocalAddresses = {"a", "b"}
  Amounts = {0, 2}
  QueryMayRace = FALSE
  HighestNonce = 2
  MaxTxs = 2
  MaxUndone = 1
  Counts = {0, 1, 2}
  SlowRoles = {"meta"}
  WordSize = 16
  MaxBlocks = 3
  MaxRollBacks = 2
  MaxMetricStarts = 1
  Validators = {"v"}
  Observers = {"o"}
  MaxUnresponsive = 2
  MaxClock = 3
  MaxBeats = 2
  MaxHbStarts = 2
  AroundGenesis = FALSE
  Casts = {"a", "b", "c"}
  CastTopic <- MCCastTopic
  MsgTopics = {"t1", "t2"}
  broadcastGoRoutines = 2
  CheckAlone = TRUE
  MayRemoveBusy = FALSE
  SubscribeFails = TRUE
  MaxTopicOps = 3
  DirectPeers = {"p", "q"}
  Sendings = {"s1", "s2", "s3"}
  PeerOf <- MCPeerOf
  maxMutexes = 2
  ClockSetBack = FALSE
  MaxNow = 4
  MaxNodeStarts = 2
  MaxBreaks = 1
  SendPlans <- BulkPlans
  Packers = {"simple"}
  MaxBulkTransactionSize = 5
  maxGoRoutinesSendMessage = 2
  nodeA = nodeA
  nodeB = nodeB
  nodeC = nodeC
  nodeM = nodeM
  NetNodes = {nodeA, nodeB, nodeC, nodeM}
  Askers = {nodeA, nodeM}
  shardOf <- NodeShards
  NetShards = {0, 1}
  META = 9
  RequestSpan = 1
  SweepSpan = 0
  MaxDown = 1
  Incoming <- FewMessages
  MaxSyncs = 1
  LastRound = 2
INVARIANTS
    SeesOnlyItsSender   SendingIsExact AnswerIsKept NoLostWakeUp
CHECK_DEADLOCK FALSE
