---------------------------- MODULE ValidatorStats ----------------------------
(***************************************************************************)
(* Who validates what and how it is counted.  The nodes of the setup file  *)
(* are dealt out to the metachain and the shards, the nodes coordinator    *)
(* draws a consensus group for every round of every chain, and each node   *)
(* counts, from the metachain's blocks, the rounds its leaders produced or *)
(* missed.  A shard looks for the header before a notarized one in earlier *)
(* metachain blocks, the metachain in its own storage; both must arrive at *)
(* the same state, whose root the metachain's header carries.              *)
(***************************************************************************)
EXTENDS Integers, Sequences, FiniteSets, SequencesExt, FiniteSetsExt, TLC

CONSTANTS Setups,                 \* records of the setup file: nodes, metaMin, shardMin, size, metaSize
          IndexHash(_, _, _),     \* hash of an index, a seed and a round, as a number
          RandSeedOf(_),          \* the seed a header of a given round carries
          LastRound,              \* bound: rounds
          MaxStatBlocks,          \* bound: blocks of the metachain
          MaxPerShard             \* bound: headers of one shard in a metachain block

Metachain == 99

VARIABLES setup,       \* the setup file
          metaBlocks,  \* the metachain after genesis: [round, prevSeed, info]
          roots,       \* ValidatorStatsRootHash of its headers: the state itself
          shardAt,     \* the metachain blocks the shard has applied
          shardStats,  \* the shard's peer state: successes, misses and signatures
          statsMissing  \* a header before a notarized one was not found

statVars == <<setup, metaBlocks, roots, shardAt, shardStats, statsMissing>>

-----------------------------------------------------------------------------
(* nodesSetup: the first nodes go to the metachain, the next to the shards *)
(* one shard after the other, the rest to the shards in turn.              *)

processConfig(f) ==
  /\ f.size >= 1 /\ f.shardMin >= f.size
  /\ f.metaSize >= 1 /\ f.metaMin >= f.metaSize
  /\ f.nodes >= f.metaMin + f.shardMin

nrOfShards(f) == (f.nodes - f.metaMin) \div f.shardMin
processShardAssignment(f, i) ==
  LET rest == f.metaMin + nrOfShards(f) * f.shardMin
  IN IF i < f.metaMin THEN Metachain
     ELSE IF i < rest THEN (i - f.metaMin) \div f.shardMin
     ELSE (i - rest) % nrOfShards(f)

ShardIds(f) == 0 .. nrOfShards(f) - 1
NodeIds(f) == 0 .. f.nodes - 1
createInitialNodesInfo(f, shard) ==
  SelectSeq([i \in 1 .. f.nodes |-> i - 1], LAMBDA i : processShardAssignment(f, i) = shard)
consensusGroupSize(f, shard) == IF shard = Metachain THEN f.metaSize ELSE f.size

(* What the coordinator asks of the assignment before it takes it.         *)
SetNodesPerShards(f) ==
  /\ Len(createInitialNodesInfo(f, Metachain)) >= f.metaSize
  /\ \A s \in ShardIds(f) : Len(createInitialNodesInfo(f, s)) >= f.size

(* indexHashedNodesCoordinator: a hash proposes an index for every place,  *)
(* an index that is taken moves on to the next one, round about.           *)
expandEligibleList(f, shard) == createInitialNodesInfo(f, shard)
computeListIndex(i, len, seed, round) == IndexHash(i, seed, round) % len
checkIndex(proposed, list, selected) ==
  LET free == {k \in 0 .. Len(list) - 1 : list[1 + ((proposed + k) % Len(list))] \notin ToSet(selected)}
  IN (proposed + Min(free)) % Len(list)

ComputeValidatorsGroup(f, seed, round, shard) ==
  LET list == expandEligibleList(f, shard)
      add(selected, i) ==
        Append(selected, list[checkIndex(computeListIndex(i, Len(list), seed, round), list, selected) + 1])
  IN FoldLeft(add, <<>>, [i \in 1 .. consensusGroupSize(f, shard) |-> i - 1])

-----------------------------------------------------------------------------
(* validatorStatistics.                                                    *)

Led(stats, v) == [stats EXCEPT ![v].success = @ + 1]
Missed(stats, v) == [stats EXCEPT ![v].missed = @ + 1]
Signed(stats, v) == [stats EXCEPT ![v].signed = @ + 1]

updateValidatorInfo(stats, group) == FoldLeft(Signed, Led(stats, group[1]), Tail(group))

Mut_RoundsBetween(previous, current) == [i \in 1 .. current - previous |-> previous + i]
RoundsBetween(previous, current) == [i \in 1 .. current - previous - 1 |-> previous + i]
(* The leader of a missed round is drawn with the seed before the previous *)
(* header's own.                                                           *)
checkForMissedBlocks(stats, current, previous, prevSeed, shard) ==
  FoldLeft(LAMBDA st, r : Missed(st, ComputeValidatorsGroup(setup, prevSeed, r, shard)[1]),
           stats, RoundsBetween(previous, current))

(* What a chain of metachain blocks tells of a shard's header.             *)
getMatchingPrevShardData(h, info) == {p \in ToSet(info) : p.shard = h.shard /\ h.nonce = p.nonce + 1}

(* The shard looks into the block itself, into the one before and then     *)
(* further back; the metachain reads the header by its hash.  At most one  *)
(* header is found, none is ErrMissingPrevShardData.                       *)
loadPreviousShardHeaders(h, blocks) ==
  LET at == {i \in DOMAIN blocks : getMatchingPrevShardData(h, blocks[i].info) # {}}
  IN IF at = {} THEN {} ELSE getMatchingPrevShardData(h, blocks[Max(at)].info)
loadPreviousShardHeadersMeta(h, blocks) ==
  {p \in UNION {ToSet(b.info) : b \in ToSet(blocks)} : p.shard = h.shard /\ p.nonce = h.nonce - 1}

loadPrevious(side, h, blocks) ==
  IF side = "shard" THEN loadPreviousShardHeaders(h, blocks) ELSE loadPreviousShardHeadersMeta(h, blocks)

Found(blocks, side) ==
  Len(blocks) > 1 => \A h \in ToSet(Last(blocks).info) : h.nonce # 1 => loadPrevious(side, h, blocks) # {}

updateShardDataPeerState(stats, blocks, side) ==
  LET one(st, h) ==
        LET counted == updateValidatorInfo(st, ComputeValidatorsGroup(setup, h.prevSeed, h.round, h.shard))
        IN IF h.nonce = 1 THEN counted
           ELSE LET p == CHOOSE q \in loadPrevious(side, h, blocks) : TRUE
                IN checkForMissedBlocks(counted, h.round, p.round, p.prevSeed, h.shard)
  IN FoldLeft(one, stats, Last(blocks).info)

(* UpdatePeerState for the last of the blocks.  The first block counts     *)
(* only its own group.                                                     *)
UpdatePeerState(stats, blocks, side) ==
  LET b == Last(blocks)
      before == blocks[Len(blocks) - 1]
      own == updateValidatorInfo(stats, ComputeValidatorsGroup(setup, b.prevSeed, b.round, Metachain))
  IN IF Len(blocks) = 1 THEN own
     ELSE updateShardDataPeerState(checkForMissedBlocks(own, b.round, before.round, before.prevSeed, Metachain), blocks, side)

-----------------------------------------------------------------------------
NoStats(f) == [v \in NodeIds(f) |-> [success |-> 0, missed |-> 0, signed |-> 0]]

StatInit ==
  /\ setup \in Setups /\ processConfig(setup)
  /\ metaBlocks = <<>> /\ roots = <<>>
  /\ shardAt = 0
  /\ shardStats = NoStats(setup)
  /\ statsMissing = FALSE

Notarized(blocks, shard) == SelectSeq(FlattenSeq([i \in DOMAIN blocks |-> blocks[i].info]), LAMBDA h : h.shard = shard)
LastNotarized(shard) ==
  LET hs == Notarized(metaBlocks, shard)
  IN IF hs = <<>> THEN [shard |-> shard, nonce |-> 0, round |-> 0, prevSeed |-> 0] ELSE Last(hs)
MetaRound == IF metaBlocks = <<>> THEN 0 ELSE Last(metaBlocks).round
Rooted == IF roots = <<>> THEN NoStats(setup) ELSE Last(roots)

(* The headers of a shard that follow its last notarized one: each was     *)
(* produced in a later round than the one before it.                       *)
NextHeaders(shard, round) ==
  LET last == LastNotarized(shard)
      chain(rs) == [i \in DOMAIN rs |->
        [shard |-> shard, nonce |-> last.nonce + i, round |-> rs[i],
         prevSeed |-> RandSeedOf(IF i = 1 THEN last.round ELSE rs[i - 1])]]
      rounds == {R \in SUBSET (last.round + 1 .. round - 1) : Cardinality(R) <= MaxPerShard}
  IN {chain(SetToSortSeq(R, <)) : R \in rounds}

CommitMetaBlock(round) ==
  /\ Len(metaBlocks) < MaxStatBlocks
  /\ \E ready \in [ShardIds(setup) -> UNION {NextHeaders(s, round) : s \in ShardIds(setup)}] :
       /\ \A s \in ShardIds(setup) : ready[s] \in NextHeaders(s, round)
       /\ LET info == FlattenSeq([i \in 1 .. nrOfShards(setup) |-> ready[i - 1]])
              blocks == Append(metaBlocks, [round |-> round, prevSeed |-> RandSeedOf(MetaRound), info |-> info])
          IN /\ metaBlocks' = blocks
             /\ roots' = Append(roots, UpdatePeerState(Rooted, blocks, "meta"))
  /\ UNCHANGED <<setup, shardAt, shardStats, statsMissing>>

(* RevertPeerState: the trie is recreated at the root of the header before. *)
RevertMetaBlock ==
  /\ Len(metaBlocks) > shardAt
  /\ metaBlocks' = Front(metaBlocks) /\ roots' = Front(roots)
  /\ UNCHANGED <<setup, shardAt, shardStats, statsMissing>>

(* A shard applies the next metachain block once the one after it exists.  *)
ShardUpdates ==
  /\ shardAt + 1 < Len(metaBlocks) /\ ~statsMissing
  /\ shardAt' = shardAt + 1
  /\ LET blocks == SubSeq(metaBlocks, 1, shardAt + 1)
     IN /\ statsMissing' = ~Found(blocks, "shard")
        /\ shardStats' = IF statsMissing' THEN shardStats
                         ELSE UpdatePeerState(shardStats, blocks, "shard")
  /\ UNCHANGED <<setup, metaBlocks, roots>>

StatNext == ShardUpdates \/ RevertMetaBlock \/ \E r \in MetaRound + 1 .. LastRound : CommitMetaBlock(r)
StatSpec == StatInit /\ [][StatNext]_statVars

-----------------------------------------------------------------------------
(* The coordinator takes the assignment of every setup that processConfig  *)
(* accepts: no chain has fewer nodes than its consensus group needs; and   *)
(* every node is of the metachain or of a shard that exists.               *)
EveryShardStaffed ==
  /\ SetNodesPerShards(setup)
  /\ \A v \in NodeIds(setup) : processShardAssignment(setup, v) \in ShardIds(setup) \cup {Metachain}

(* A consensus group has as many different members as the chain asks for,  *)
(* all of them nodes of that chain: for the headers of the last block.     *)
GroupsWellFormed ==
  metaBlocks # <<>> =>
  \A h \in ToSet(Last(metaBlocks).info)
          \cup {[shard |-> Metachain, round |-> MetaRound, prevSeed |-> Last(metaBlocks).prevSeed]} :
    LET group == ComputeValidatorsGroup(setup, h.prevSeed, h.round, h.shard)
    IN /\ Cardinality(ToSet(group)) = consensusGroupSize(setup, h.shard)
       /\ \A v \in ToSet(group) : processShardAssignment(setup, v) = h.shard

(* The shard's peer state after a metachain block is the one whose root    *)
(* the block carries, though it finds the earlier headers in another way.  *)
ShardAgrees == ~statsMissing /\ (shardAt > 0 => shardStats = roots[shardAt])

(* Every round of every chain is counted once, as produced or as missed,   *)
(* from the first block that is counted to the last notarized one.         *)
CountedRounds(shard) ==
  LET hs == IF shard = Metachain THEN metaBlocks ELSE Notarized(metaBlocks, shard)
      first == IF metaBlocks = <<>> \/ shard = Metachain THEN <<>> ELSE Notarized(<<metaBlocks[1]>>, shard)
  IN IF hs = <<>> THEN 0
     ELSE Last(hs).round - (IF first = <<>> THEN hs[1].round - 1 ELSE Last(first).round)
EachRoundOnce ==
  MapThenSumSet(LAMBDA v : Rooted[v].success + Rooted[v].missed, NodeIds(setup))
    = MapThenSumSet(CountedRounds, ShardIds(setup) \cup {Metachain})

=============================================================================
