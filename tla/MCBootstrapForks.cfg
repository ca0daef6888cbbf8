SPECIFICATION Spec
CONSTANTS
    Hdr <- ForkHdr
    Nodes <- ForkNodes
    MaxRoundsWithoutCommittedBlock = 2
    MaxNoncesWithoutCrossNotarized = 1
    RoundModulusTrigger = 2
    MaxRequestsWithTimeoutAllowed = 1
VIEW MCView
INVARIANTS
  OneProcessedPerNonce
PROPERTIES
  FinalNotReverted
CHECK_DEADLOCK FALSE
