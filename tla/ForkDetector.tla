---------------------------- MODULE ForkDetector ----------------------------
(* The fork detectors of process/sync (baseForkDetector, shardForkDetector,  *)
(* metaForkDetector) as operators on the state of one detector, the record   *)
(* fd below.  The bootstrapper and the block processor that call them are in *)
(* Bootstrap.                                                                *)
(*                                                                           *)
(* Headers are named by hashes, natural numbers ordered as bytes.Compare     *)
(* orders them; 0 is genesis.  Every header is well formed and signed.       *)
EXTENDS Integers, Sequences, FiniteSetsExt

CONSTANTS
    Hdr,      \* hash -> [nonce, round, prev, finals]: the headers there are;
              \* finals are the own headers notarized by the meta blocks the
              \* header processes (empty on the metachain)
    MaxRoundsWithoutCommittedBlock,  \* 20 in the code
    MaxNoncesWithoutCrossNotarized,  \* 100 in the code
    RoundModulusTrigger              \* 10 in the code

Hashes == DOMAIN Hdr
GenesisHash == 0
NoHash == -1
MaxUint64 == 1000000   \* stands for math.MaxUint64: above every nonce and round
BlockFinality == 1    \* ShardBlockFinality, MetaBlockFinality
MinForkRound == 0
NonceDifferenceWhenSynced == 0

BHProcessed == "BHProcessed"
BHReceived == "BHReceived"
BHReceivedTooLate == "BHReceivedTooLate"
BHProposed == "BHProposed"
BHNotarized == "BHNotarized"

ASSUME HdrAssumption ==
    /\ Hashes \subseteq Nat \ {GenesisHash}
    /\ \A h \in Hashes :
          /\ Hdr[h].nonce \in 1 .. MaxUint64 - 1
          /\ Hdr[h].round \in 1 .. MaxUint64 - 1
          /\ Hdr[h].prev \in Hashes \cup {GenesisHash}
          /\ Hdr[h].finals \subseteq Hashes
ASSUME DetectorAssumption ==
    /\ MaxRoundsWithoutCommittedBlock \in Nat
    /\ MaxNoncesWithoutCrossNotarized \in Nat
    /\ RoundModulusTrigger \in Nat \ {0}

Checkpoints == [nonce : Nat, round : Nat]
GenesisCheckpoint == [nonce |-> 0, round |-> 0]
CheckpointOf(h) == [nonce |-> Hdr[h].nonce, round |-> Hdr[h].round]

\* A headerInfo; its nonce and round are those of the header
HeaderInfos ==
    [hash : Hashes, state : {BHProcessed, BHReceived, BHReceivedTooLate,
                             BHNotarized}]
NonceOf(i) == Hdr[i.hash].nonce
RoundOf(i) == Hdr[i.hash].round

\* chain tells metaForkDetector and shardForkDetector apart
NewForkDetector(chain) ==
    [chain |-> chain, headers |-> {}, checkpoint |-> <<GenesisCheckpoint>>,
     final |-> GenesisCheckpoint, highest |-> 0, force |-> FALSE,
     stuck |-> FALSE]

NewForkInfo == [detected |-> FALSE, nonce |-> MaxUint64, round |-> MaxUint64,
                hash |-> NoHash]

lastCheckpoint(fd) ==
    IF fd.checkpoint = <<>> THEN GenesisCheckpoint ELSE fd.checkpoint[Len(fd.checkpoint)]

IsInProperRound(idx) == idx % RoundModulusTrigger = 0

\* checkBlockBasicValidity, without the black list
CheckBlockBasicValidity(fd, h, idx) ==
    LET roundDif == Hdr[h].round - fd.final.round
        nonceDif == Hdr[h].nonce - fd.final.nonce
    IN  /\ roundDif >= 0
        /\ nonceDif >= 0
        /\ Hdr[h].round <= idx + 1
        /\ roundDif >= nonceDif

\* The invalid received headers stay
Mut_removePastOrInvalidRecords(fd) ==
    LET NotBehind(c) == c.nonce >= fd.final.nonce
    IN  [fd EXCEPT !.headers = {i \in @ : NonceOf(i) >= fd.final.nonce},
                   !.checkpoint = SelectSeq(@, NotBehind)]

\* removePastHeaders, removeInvalidReceivedHeaders, removePastCheckpoints
removePastOrInvalidRecords(fd) ==
    LET Invalid(i) == /\ i.state \in {BHReceived, BHReceivedTooLate}
                      /\ RoundOf(i) - fd.final.round < NonceOf(i) - fd.final.nonce
        NotBehind(c) == c.nonce >= fd.final.nonce
    IN  [fd EXCEPT !.headers = {i \in @ : NonceOf(i) >= fd.final.nonce
                                            /\ ~Invalid(i)},
                   !.checkpoint = SelectSeq(@, NotBehind)]

computeProbableHighestNonce(fd) ==
    Max({fd.final.nonce} \cup {NonceOf(i) : i \in fd.headers})

\* The headers the node processed stay too
Mut_RemoveHeaders(fd, nonce) ==
    LET Other(c) == c.nonce # nonce
    IN  [fd EXCEPT !.headers = {i \in @ : NonceOf(i) = nonce =>
                                            i.state \in {BHNotarized, BHProcessed}},
                   !.checkpoint = SelectSeq(@, Other)]

\* RemoveHeaders: the notarized headers stay
RemoveHeaders(fd, nonce) ==
    LET Other(c) == c.nonce # nonce
    IN  [fd EXCEPT !.headers = {i \in @ : NonceOf(i) = nonce =>
                                            i.state = BHNotarized},
                   !.checkpoint = SelectSeq(@, Other)]

\* append: a header is stored once in each state, a proposed one is not stored
append(fd, h, state) ==
    IF state = BHProposed THEN fd
    ELSE [fd EXCEPT !.headers = @ \cup {[hash |-> h, state |-> state]}]

ResetProbableHighestNonce(fd) ==
    [fd EXCEPT !.highest = lastCheckpoint(fd).nonce]

\* ResetFork, cleanupReceivedHeadersHigherThanNonce
ResetFork(fd) ==
    [fd EXCEPT !.headers = {i \in @ : NonceOf(i) > lastCheckpoint(fd).nonce =>
                                        i.state = BHNotarized},
               !.force = FALSE]

\* computeForkInfo over the headers of a nonce: the best one to be on, a
\* notarized header before the others, then the lowest round, then the lowest
\* hash.  The header the node processed itself does not compete.
ForkRound(i) == IF i.state = BHNotarized THEN MinForkRound ELSE RoundOf(i)
Competitors(fd, nonce) ==
    {i \in fd.headers : /\ NonceOf(i) = nonce
                        /\ i.state \notin {BHProcessed, BHReceivedTooLate}}
Better(i, j) ==
    \/ ForkRound(i) < ForkRound(j)
    \/ ForkRound(i) = ForkRound(j) /\ i.hash <= j.hash
BestCompetitor(fd, nonce) ==
    CHOOSE i \in Competitors(fd, nonce) :
        \A j \in Competitors(fd, nonce) : Better(i, j)

\* shouldSignalFork for a header that the node processed
ShouldSignalFork(fd, self) ==
    /\ Competitors(fd, NonceOf(self)) # {}
    /\ LET best == BestCompetitor(fd, NonceOf(self))
       IN  /\ best.hash # self.hash
           /\ \/ RoundOf(self) > ForkRound(best)
              \/ RoundOf(self) = ForkRound(best) /\ self.hash > best.hash

\* CheckFork: a forced fork, or the fork with the lowest nonce
CheckFork(fd) ==
    LET forked == {i \in fd.headers : i.state = BHProcessed
                                        /\ ShouldSignalFork(fd, i)}
        lowest == Min({NonceOf(i) : i \in forked})
        best == BestCompetitor(fd, lowest)
    IN  IF fd.force THEN [NewForkInfo EXCEPT !.detected = TRUE]
        ELSE IF forked = {} THEN NewForkInfo
        ELSE [detected |-> TRUE, nonce |-> lowest, round |-> ForkRound(best),
              hash |-> best.hash]

isSyncing(fd) ==
    fd.highest - lastCheckpoint(fd).nonce > NonceDifferenceWhenSynced

\* activateForcedForkOnConsensusStuckIfNeeded
IsConsensusStuck(fd, h, idx) ==
    /\ Hdr[h].round - lastCheckpoint(fd).round > MaxRoundsWithoutCommittedBlock
    /\ Hdr[h].nonce - lastCheckpoint(fd).nonce <= 1
    /\ IsInProperRound(idx)

\* activateForcedForkOnCrossNotarizedStuckIfNeeded
IsCrossNotarizedStuck(fd, h, idx) ==
    /\ Hdr[h].nonce - fd.final.nonce > MaxNoncesWithoutCrossNotarized
    /\ Hdr[h].nonce - lastCheckpoint(fd).nonce <= 1
    /\ IsInProperRound(idx)
    /\ ~fd.stuck

activateForcedForkIfNeeded(fd, h, state, idx) ==
    IF /\ state = BHProposed
       /\ ~isSyncing(fd)
       /\ \/ IsConsensusStuck(fd, h, idx)
          \/ fd.chain = "shard" /\ IsCrossNotarizedStuck(fd, h, idx)
      THEN [fd EXCEPT !.force = TRUE]
      ELSE fd

\* addFinalHeaders of the shard: of the notarized headers that are not behind
\* the final checkpoint, the lowest becomes the new one
addFinalHeaders(fd, finals) ==
    LET new == {h \in finals : Hdr[h].nonce >= fd.final.nonce}
        lowest == CHOOSE h \in new : \A g \in new : Hdr[h].nonce <= Hdr[g].nonce
    IN  IF new = {} THEN fd
        ELSE [fd EXCEPT !.final = CheckpointOf(lowest),
                        !.headers = @ \cup {[hash |-> h, state |-> BHNotarized] :
                                              h \in new}]

\* What AddHeader does for a header the node committed itself
AddProcessed(fd, h, stuck) ==
    LET fd1 == IF fd.chain = "meta" THEN [fd EXCEPT !.final = lastCheckpoint(fd)]
               ELSE addFinalHeaders(fd, Hdr[h].finals)
        fd2 == [fd1 EXCEPT !.checkpoint = Append(@, CheckpointOf(h))]
    IN  [removePastOrInvalidRecords(fd2) EXCEPT !.stuck = stuck]

\* isHeaderReceivedTooLate
IsHeaderReceivedTooLate(h, state, idx) ==
    state # BHProcessed /\ Hdr[h].round < idx - BlockFinality

\* AddHeader; an error leaves the detector as it was
AddHeader(fd, h, state, idx, stuck) ==
    IF ~CheckBlockBasicValidity(fd, h, idx) THEN fd
    ELSE LET newState == IF IsHeaderReceivedTooLate(h, state, idx)
                           THEN BHReceivedTooLate ELSE state
             fd1 == activateForcedForkIfNeeded(fd, h, state, idx)
             fd2 == IF newState = BHProcessed THEN AddProcessed(fd1, h, stuck)
                    ELSE fd1
             fd3 == append(fd2, h, newState)
         IN  [fd3 EXCEPT !.highest = computeProbableHighestNonce(fd3)]
=============================================================================
