SPECIFICATION CatchUpSpec
CONSTANTS
    Hdr <- CatchUpHdr
    Nodes <- CatchUpNodes
    MaxRoundsWithoutCommittedBlock = 2
    MaxNoncesWithoutCrossNotarized = 1
    RoundModulusTrigger = 3
    MaxRequestsWithTimeoutAllowed = 1
CHECK_DEADLOCK FALSE
PROPERTY CatchesUp
