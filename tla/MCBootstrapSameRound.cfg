SPECIFICATION Spec
CONSTANTS
    Hdr <- SameHdr
    Nodes <- SameNodes
    MaxRoundsWithoutCommittedBlock = 2
    MaxNoncesWithoutCrossNotarized = 1
    RoundModulusTrigger = 2
    MaxRequestsWithTimeoutAllowed = 1
VIEW MCView
CHECK_DEADLOCK FALSE
PROPERTY FinalIsFinal
