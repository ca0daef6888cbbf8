SPECIFICATION ConsensusSpec
CONSTANTS
    v1 = v1
    v2 = v2
    Validators = {v1, v2}
    ConsensusGroupSize = 2
    MaxRound = 3
    MaxProposals = 3
    ConsensusGroup <- MCConsensusGroup
    Plans <- PlansAndIdle
    LeaderOf <- LeaderOfDef
INVARIANTS
  OneCommitPerRound SecretUsedOnce RevealAfterHashes
PROPERTIES
  BlsKeepsPromise BnKeepsPromise
CHECK_DEADLOCK FALSE
