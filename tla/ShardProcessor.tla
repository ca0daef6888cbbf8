--------------------------- MODULE ShardProcessor ---------------------------
(***************************************************************************)
(* The shard block processor: how a shard node executes the mini blocks    *)
(* that other shards send to it, and how it keeps track of what has been   *)
(* executed through commits, roll backs, crashes and restarts              *)
(* (process/block/shardblock.go, the notarized headers of                  *)
(* process/block/baseProcess.go, process/block/bootstrapStorage and        *)
(* process/sync/storageBootstrap).                                         *)
(*                                                                         *)
(* The metachain is the sequence of final meta blocks 1..MaxMeta; meta     *)
(* block m notarizes the mini blocks MbsOf[m] with this shard as their     *)
(* destination.  A shard block lists the meta blocks it works on and the   *)
(* mini blocks of them it executes.  A meta block may be spread over       *)
(* several shard blocks: the node remembers the executed part of it in     *)
(* processedMiniBlocks until it is complete, then moves it to the          *)
(* MetaBlockUnit storage and makes it the last notarized header.           *)
(***************************************************************************)
EXTENDS Naturals, Sequences, FiniteSets, FiniteSetsExt

CONSTANTS
  MaxMeta,   \* meta blocks 1..MaxMeta exist (the last one only attests the one before)
  Mbs,       \* the mini blocks with this shard as destination
  MbsOf,     \* the mini blocks of each meta block
  MaxRound,  \* shard blocks are made in the rounds 1..MaxRound
  MaxCrash,  \* number of restarts
  Modulus,   \* of the unsigned nonces (2^64 in the code)
  Faults     \* which disturbances may happen, see FaultNames

Metas == 1..MaxMeta
Rounds == 1..MaxRound
Genesis == 0

\* late: the goroutine that stores the boot data is overtaken by later work;
\* own: a commit fails because a header of this shard is missing;
\* accounts: a commit fails because the accounts cannot be committed;
\* overlap: the other goroutine starts processing before the commit;
\* early: the node restarts before any block of it is final;
\* lost: the node stops before the boot data of a block is stored.
FaultNames == {"late", "own", "accounts", "overlap", "early", "lost"}

ASSUME BoundsAssumption ==
  /\ MaxMeta \in Nat /\ MaxRound \in Nat /\ MaxCrash \in Nat
  /\ Modulus \in Nat /\ Modulus > MaxRound

ASSUME MbsAssumption ==
  /\ MbsOf \in [Metas -> SUBSET Mbs]
  /\ \A m, n \in Metas : m # n => MbsOf[m] \cap MbsOf[n] = {}

ASSUME FaultsAssumption == Faults \subseteq FaultNames

VARIABLES
  chain,      \* the blocks from genesis to the current block header
  notarized,  \* notarizedHdrs of the metachain, oldest first
  processed,  \* processedMiniBlocks: executed mini blocks of unfinished meta blocks
  pool,       \* the meta blocks of the data pool
  stored,     \* the meta blocks of the MetaBlockUnit storage
  cur,        \* hdrsForCurrBlock: the meta blocks used by the block being processed
  work,       \* what the node is doing, and with which block
  final,      \* GetHighestFinalBlockNonce of the fork detector
  boot,       \* the boot data stored for each round
  highest,    \* the highest round stored under the static key
  lastRound,  \* bootstrapStorer.lastRound, in memory
  pending,    \* boot data handed to a goroutine and not stored yet
  clock,      \* the current round
  crashes     \* restarts so far

memory == <<chain, notarized, processed, pool, cur, final, lastRound, pending>>
disk == <<stored, boot, highest>>
vars == <<chain, notarized, processed, pool, stored, cur, work, final, boot,
          highest, lastRound, pending, clock, crashes>>

Block == [round : Rounds, metas : SUBSET Metas, mbs : SUBSET Mbs]

NoData == [none |-> TRUE]

Idle == [stage |-> "idle"]
NoneProcessed == [m \in Metas |-> {}]

\* The block a list ends with, the list without it, and the list backwards.
Newest(list) == list[Len(list)]
Earlier(list) == SubSeq(list, 1, Len(list) - 1)
Reversed(list) == [i \in 1..Len(list) |-> list[Len(list) + 1 - i]]

LastNotarized == Newest(notarized)

-----------------------------------------------------------------------------
(* What the chain says, whatever the node remembers of it.                 *)

ExecutedIn(c) == UNION {c[i].mbs : i \in DOMAIN c}
ListedIn(c) == UNION {c[i].metas : i \in DOMAIN c}

\* The last meta block all of whose mini blocks the chain has executed.
CompleteIn(c) ==
  Max({Genesis} \cup {m \in ListedIn(c) : MbsOf[m] \subseteq ExecutedIn(c)})

\* The executed part of each meta block that is not complete.
PartlyIn(c) ==
  [m \in Metas |-> IF m > CompleteIn(c) THEN MbsOf[m] \cap ExecutedIn(c) ELSE {}]

-----------------------------------------------------------------------------
(* Creating and checking blocks.                                           *)

\* The contents a block may get on top of the meta block `last' when the mini
\* blocks `done' have been executed: the next meta blocks in order, all but the
\* last completely.  Time, size limits and missing transactions decide how far
\* it gets (createAndProcessCrossMiniBlocksDstMe).  A meta block without new
\* mini blocks is listed only when it has none for this shard at all.
Contents(last, done) ==
  LET Rest(m) == MbsOf[m] \ done[m]
      Full(k) == UNION {Rest(m) : m \in (last + 1)..(k - 1)}
      Used(k) == {m \in (last + 1)..k : MbsOf[m] = {} \/ Rest(m) # {}}
      Parts(k) == {p \in SUBSET Rest(k) : p = {} => Rest(k) = {}}
  IN {[metas |-> {}, mbs |-> {}]}
     \cup UNION {{[metas |-> Used(k), mbs |-> Full(k) \cup p] : p \in Parts(k)}
                   : k \in (last + 1)..(MaxMeta - 1)}

\* The meta blocks that must be there before a block is accepted: the ones it
\* lists and the one that makes the last of them final (metaBlockFinality = 1).
Needed(metas) == IF metas = {} THEN {} ELSE metas \cup {Max(metas) + 1}

\* checkMetaHeadersValidityAndFinality: the listed meta blocks follow the last
\* notarized one without a gap.
Consecutive(metas, last) ==
  \A m \in metas : m > last /\ (last + 1)..m \subseteq metas

\* verifyCrossShardMiniBlockDstMe: every mini block comes from a listed meta
\* block that is newer than the last notarized one.
ComesFromMeta(b) ==
  b.mbs \subseteq UNION {MbsOf[m] : m \in {n \in b.metas : n > LastNotarized}}

-----------------------------------------------------------------------------
Init ==
  /\ chain = <<>> /\ notarized = <<Genesis>> /\ processed = NoneProcessed
  /\ pool = {} /\ stored = {} /\ cur = {} /\ work = Idle /\ final = 0
  /\ boot = [r \in Rounds |-> NoData] /\ highest = 0 /\ lastRound = 0
  /\ pending = {} /\ clock = 0 /\ crashes = 0

\* receivedMetaBlock: a meta block enters the pool.
ReceiveMeta(m) ==
  /\ work.stage # "loading"
  /\ m \notin pool /\ m > LastNotarized
  /\ pool' = pool \cup {m}
  /\ UNCHANGED <<chain, notarized, processed, cur, final, lastRound, pending,
                 disk, work, clock, crashes>>

\* Without the fault "late" the boot data of a commit is on disk before the
\* next commit or roll back, which are seconds away.
Saved == pending = {} \/ "late" \in Faults

Start(b) ==
  /\ cur' = b.metas
  /\ clock' = clock + 1
  /\ work' = [stage |-> "processed",
              block |-> [round |-> clock + 1, metas |-> b.metas, mbs |-> b.mbs]]
  /\ UNCHANGED <<chain, notarized, processed, pool, final, lastRound, pending,
                 disk, crashes>>

\* CreateBlockBody: this node is the leader and builds the block from what it
\* remembers.
CreateBlock(b) ==
  /\ work = Idle /\ clock < MaxRound
  /\ b \in Contents(LastNotarized, processed)
  /\ Needed(b.metas) \subseteq pool
  /\ Start(b)

\* ProcessBlock: the block of another node that follows the rules, from
\* consensus or from synchronisation; that node goes by the chain.
ProcessBlock(b) ==
  /\ work = Idle /\ clock < MaxRound
  /\ b \in Contents(CompleteIn(chain), PartlyIn(chain))
  /\ Needed(b.metas) \subseteq pool
  /\ Consecutive(b.metas, LastNotarized)
  /\ ComesFromMeta(b)
  /\ Start(b)

\* ProcessBlock of the other goroutine on a competing block, between the
\* ProcessBlock and the CommitBlock of this one: createBlockStarted replaces
\* hdrsForCurrBlock before the account state is found to be dirty.
OverlappingProcessBlock(b) ==
  /\ "overlap" \in Faults
  /\ work.stage = "processed"
  /\ b \in Contents(CompleteIn(chain), PartlyIn(chain))
  /\ cur' = b.metas \cap pool
  /\ UNCHANGED <<chain, notarized, processed, pool, final, lastRound, pending,
                 disk, work, clock, crashes>>

-----------------------------------------------------------------------------
(* Committing.                                                             *)

\* getOrderedProcessedMetaBlocksFromMiniBlockHashes: the used meta blocks that
\* this block completes.
ProcessedMetas(b) ==
  {m \in cur : \A mb \in MbsOf[m] : mb \in processed[m] \/ mb \in b.mbs}

\* addProcessedCrossMiniBlocksFromHeader: the mini blocks of the listed meta
\* blocks, up to the first one that is not at hand.
KnownMetas(b) == {m \in b.metas : \A n \in b.metas : n <= m => n \in cur}

AddProcessed(b) ==
  [m \in Metas |-> IF m \in KnownMetas(b) THEN processed[m] \cup (b.mbs \cap MbsOf[m])
                                          ELSE processed[m]]

\* saveLastNotarizedHeader: one entry for every block.
SaveLastNotarized(ms) ==
  Append(notarized, IF ms = {} THEN LastNotarized ELSE Max(ms))

\* removeNotarizedHdrsBehindPreviousFinal.
RemoveBehindFinal(s, keep) ==
  IF Len(s) > keep THEN SubSeq(s, Len(s) - keep, Len(s)) ELSE s

\* prepareDataForBootStorer.
DataFor(c, last, proc, fin) ==
  [chain |-> c, notarized |-> last, processed |-> proc,
   finals |-> IF fin > final THEN fin ELSE 0, final |-> fin, lastRound |-> 0]

\* The state changes of CommitBlock when every step succeeds.  The meta blocks
\* it completes may notarize, and so make final, earlier blocks of this shard.
Committed(b, fin) ==
  LET ms == ProcessedMetas(b)
      saved == SaveLastNotarized(ms)
      finished == {m \in ms : m <= Newest(saved)}
      proc == [m \in Metas |-> IF m \in finished THEN {} ELSE AddProcessed(b)[m]]
      newChain == Append(chain, b)
  IN /\ stored' = stored \cup finished
     /\ pool' = pool \ finished
     /\ processed' = proc
     /\ notarized' = RemoveBehindFinal(saved, (Len(newChain) - fin) + 1)
     /\ final' = fin
     /\ chain' = newChain
     /\ pending' = pending \cup {<<b.round, DataFor(newChain, Newest(saved), proc, fin)>>}

CommitBlock(fin) ==
  /\ work.stage = "processed" /\ Saved
  /\ work.block.metas \subseteq cur
  /\ Consecutive(ProcessedMetas(work.block), LastNotarized)
  /\ fin \in final..Len(chain)
  /\ fin > final => ProcessedMetas(work.block) # {}
  /\ Committed(work.block, fin)
  /\ work' = Idle
  /\ UNCHANGED <<cur, boot, highest, lastRound, clock, crashes>>

\* CommitBlock fails before or while the mini blocks of the header are added
\* to processedMiniBlocks: the ones of the meta blocks at hand stay there.
CommitBlockMissesHeader ==
  /\ work.stage = "processed"
  /\ ~(work.block.metas \subseteq cur)
  /\ processed' = AddProcessed(work.block)
  /\ work' = Idle
  /\ UNCHANGED <<chain, notarized, pool, cur, final, lastRound, pending, disk,
                 clock, crashes>>

\* getHighestHdrForOwnShardFromMetachain or saveLastNotarizedHeader fails.
CommitBlockMissesOwnHeader ==
  LET ms == ProcessedMetas(work.block)
  IN /\ work.stage = "processed"
     /\ work.block.metas \subseteq cur
     /\ ~Consecutive(ms, LastNotarized) \/ ("own" \in Faults /\ ms # {})
     /\ processed' = AddProcessed(work.block)
     /\ work' = Idle
     /\ UNCHANGED <<chain, notarized, pool, cur, final, lastRound, pending, disk,
                    clock, crashes>>

\* commitAll fails: the notarized header has been saved already.
CommitBlockFailsAccounts ==
  LET ms == ProcessedMetas(work.block)
  IN /\ "accounts" \in Faults
     /\ work.stage = "processed"
     /\ work.block.metas \subseteq cur
     /\ Consecutive(ms, LastNotarized)
     /\ processed' = AddProcessed(work.block)
     /\ notarized' = SaveLastNotarized(ms)
     /\ work' = Idle
     /\ UNCHANGED <<chain, pool, cur, final, lastRound, pending, disk, clock, crashes>>

\* The proposal is abandoned: consensus did not finish in its round, or saving
\* the block's data failed; nothing but the accounts has to be reverted.
Abandon ==
  /\ work.stage = "processed"
  /\ work' = Idle
  /\ UNCHANGED <<memory, disk, clock, crashes>>

\* The goroutine of prepareDataForBootStorer: bootstrapStorer.Put.
PutBootData(p) ==
  /\ work.stage # "loading"
  /\ p \in pending
  /\ boot' = [boot EXCEPT ![p[1]] = [p[2] EXCEPT !.lastRound = lastRound]]
  /\ highest' = p[1]
  /\ lastRound' = p[1]
  /\ pending' = pending \ {p}
  /\ UNCHANGED <<chain, notarized, processed, pool, stored, cur, work, final,
                 clock, crashes>>

-----------------------------------------------------------------------------
(* Rolling back one block (rollBackOneBlock and RestoreBlockIntoPools).    *)

\* The mini blocks that earlier blocks executed are forgotten.
Mut_RestoredProcessed(b) == [m \in Metas |-> processed[m] \ b.mbs]

\* restoreMetaBlockIntoPool: a meta block that had been completed gets all its
\* mini blocks back as processed, then the ones of this block are taken out.
RestoredProcessed(b) ==
  [m \in Metas |->
     (IF m \in b.metas \cap stored THEN processed[m] \cup MbsOf[m] ELSE processed[m])
       \ b.mbs]

\* removeLastNotarized: the oldest entry stays.
RemoveLastNotarized == IF Len(notarized) > 1 THEN Earlier(notarized) ELSE notarized

\* The block is not final, or the roll back is refused.
RollBack ==
  /\ work = Idle /\ Saved
  /\ Len(chain) > final
  /\ LET b == Newest(chain)
     IN /\ processed' = RestoredProcessed(b)
        /\ pool' = pool \cup (b.metas \cap stored)
        /\ stored' = stored \ b.metas
  /\ notarized' = RemoveLastNotarized
  /\ chain' = Earlier(chain)
  /\ work' = [stage |-> "rollback"]
  /\ UNCHANGED <<cur, final, boot, highest, lastRound, pending, clock, crashes>>

RoundOf(c) == IF c = <<>> THEN 0 ELSE Newest(c).round

\* bootStorer.SaveLastRound at the end of rollBack.
SaveLastRound ==
  /\ work.stage = "rollback"
  /\ highest' = RoundOf(chain)
  /\ lastRound' = RoundOf(chain)
  /\ work' = Idle
  /\ UNCHANGED <<chain, notarized, processed, pool, stored, cur, final, boot,
                 pending, clock, crashes>>

-----------------------------------------------------------------------------
(* Restarting (storageBootstrapper.loadBlocks).                            *)

\* bootStorer.Get.
Has(r) == r \in Rounds /\ boot[r] # NoData

\* The node stops at any point and starts again with what is on disk.  Rounds
\* above the configured bootstrap round are not loaded.
Restart(limit) ==
  /\ work.stage # "loading" /\ crashes < MaxCrash
  /\ limit = MaxRound \/ \E i \in DOMAIN chain : chain[i].round = limit
  /\ work.stage = "rollback" /\ chain = <<>> => "early" \in Faults
  /\ pending # {} => "lost" \in Faults
  /\ \A r \in {highest, RoundOf(chain), limit} :
       Has(r) /\ boot[r].final = 0 => "early" \in Faults
  /\ crashes' = crashes + 1
  /\ chain' = <<>> /\ notarized' = <<Genesis>> /\ processed' = NoneProcessed
  /\ pool' = {} /\ cur' = {} /\ final' = 0 /\ pending' = {}
  /\ lastRound' = highest
  /\ work' = [stage |-> "loading", round |-> highest, limit |-> limit,
              passed |-> {}, was |-> chain, wasFinal |-> final]
  /\ UNCHANGED <<disk, clock>>

\* Only the blocks after the final one.
Mut_LowestNonce(r) == boot[r].final + 1

\* getBootInfos: the rounds whose data is applied, newest first: down to the
\* block before the last final one.
LowestNonce(r) ==
  Max({(boot[r].final + Modulus - 1) % Modulus, 1})

BootRounds(r) ==
  LET Enough(p) ==
        LET l == Newest(p)
        IN \/ ~Has(l)
           \/ Len(boot[l].chain) <= LowestNonce(r)
           \/ Len(p) > 1 /\ boot[l].lastRound = 0
      path[i \in 0..MaxRound] ==
        IF i = 0 THEN <<r>>
        ELSE IF Enough(path[i - 1]) THEN path[i - 1]
        ELSE Append(path[i - 1], boot[Newest(path[i - 1])].lastRound)
  IN path[MaxRound]

\* applyBootInfos, oldest first; a last notarized header of nonce 0 is not part
\* of the boot data.
NotarizedFrom(p) ==
  LET saved == [i \in DOMAIN p |-> boot[p[i]].notarized]
  IN <<Genesis>> \o SelectSeq(Reversed(saved), LAMBDA n : n # Genesis)

Loadable(p) ==
  /\ Has(Newest(p))
  /\ \A i \in DOMAIN p : boot[p[i]].notarized \in stored \cup {Genesis}

\* The round is above the bootstrap round.
SkipRound ==
  /\ work.stage = "loading"
  /\ Has(work.round) /\ work.round > work.limit
  /\ work' = [work EXCEPT !.passed = @ \cup {work.round}, !.round = boot[@].lastRound]
  /\ UNCHANGED <<memory, disk, clock, crashes>>

\* applyHeaderInfo makes the block the current one before its boot data turns
\* out not to be applicable.
LoadRoundFails ==
  /\ work.stage = "loading"
  /\ Has(work.round) /\ work.round <= work.limit
  /\ ~Loadable(BootRounds(work.round))
  /\ chain' = boot[work.round].chain
  /\ work' = [work EXCEPT !.passed = @ \cup {work.round}, !.round = boot[@].lastRound]
  /\ UNCHANGED <<notarized, processed, pool, cur, final, lastRound, pending, disk,
                 clock, crashes>>

\* The oldest of the blocks applied becomes the current one.
Mut_LoadRound ==
  /\ work.stage = "loading"
  /\ Has(work.round) /\ work.round <= work.limit
  /\ LET r == work.round
         p == BootRounds(r)
     IN /\ Loadable(p)
        /\ chain' = boot[Newest(p)].chain
        /\ notarized' = NotarizedFrom(p)
        /\ processed' = boot[r].processed
        /\ final' = Max({boot[p[i]].finals : i \in DOMAIN p})
        /\ highest' = r
        /\ lastRound' = r
  /\ work' = Idle
  /\ UNCHANGED <<pool, stored, cur, pending, boot, clock, crashes>>

\* The round is applied; cleanupNotarizedStorage takes the meta blocks of the
\* rounds passed over out of the storage.
LoadRound ==
  /\ work.stage = "loading"
  /\ Has(work.round) /\ work.round <= work.limit
  /\ LET r == work.round
         p == BootRounds(r)
     IN /\ Loadable(p)
        /\ chain' = boot[r].chain
        /\ notarized' = NotarizedFrom(p)
        /\ processed' = boot[r].processed
        /\ final' = Max({boot[p[i]].finals : i \in DOMAIN p})
        /\ stored' = stored \ UNION {Newest(boot[q].chain).metas : q \in work.passed}
        /\ highest' = r
        /\ lastRound' = r
  /\ work' = Idle
  /\ UNCHANGED <<pool, cur, pending, boot, clock, crashes>>

\* ErrNotEnoughValidBlocksInStorage, which StartSync only logs: the node goes
\* on with the current block it has.
LoadNothing ==
  /\ work.stage = "loading"
  /\ ~Has(work.round)
  /\ highest' = 0
  /\ lastRound' = 0
  /\ work' = Idle
  /\ UNCHANGED <<chain, notarized, processed, pool, stored, cur, final, boot,
                 pending, clock, crashes>>

-----------------------------------------------------------------------------
Next ==
  \/ \E m \in Metas : ReceiveMeta(m)
  \/ \E b \in Contents(LastNotarized, processed) : CreateBlock(b)
  \/ \E b \in Contents(CompleteIn(chain), PartlyIn(chain)) : ProcessBlock(b)
  \/ \E fin \in 0..MaxRound : CommitBlock(fin)
  \/ Abandon
  \/ \E p \in pending : PutBootData(p)
  \/ RollBack
  \/ SaveLastRound
  \/ \E limit \in 0..MaxRound : Restart(limit)
  \/ SkipRound
  \/ LoadRoundFails
  \/ LoadRound
  \/ LoadNothing

Spec == Init /\ [][Next]_vars

FaultyNext ==
  \/ Next
  \/ \E b \in Contents(CompleteIn(chain), PartlyIn(chain)) : OverlappingProcessBlock(b)
  \/ CommitBlockMissesHeader
  \/ CommitBlockMissesOwnHeader
  \/ CommitBlockFailsAccounts

FaultySpec == Init /\ [][FaultyNext]_vars

-----------------------------------------------------------------------------
TypeOK ==
  /\ chain \in Seq(Block)
  /\ notarized \in Seq(0..MaxMeta) /\ notarized # <<>>
  /\ processed \in [Metas -> SUBSET Mbs]
  /\ pool \subseteq Metas /\ stored \subseteq Metas /\ cur \subseteq Metas
  /\ work.stage \in {"idle", "processed", "rollback", "loading"}
  /\ final \in 0..MaxRound
  /\ \A r \in Rounds : boot[r] = NoData \/ boot[r].chain \in Seq(Block)
  /\ highest \in 0..MaxRound /\ lastRound \in 0..MaxRound
  /\ \A p \in pending : p[1] \in Rounds
  /\ clock \in 0..MaxRound /\ crashes \in 0..MaxCrash

Running == work.stage # "loading"

\* No mini block is executed by two blocks of the chain, also when the node
\* builds blocks itself after roll backs and restarts; and whatever the last
\* notarized meta block, no mini block of it or of an earlier one is skipped.
ExecutedOnce ==
  /\ \A i, j \in DOMAIN chain : i # j => chain[i].mbs \cap chain[j].mbs = {}
  /\ Running => \A m \in 1..LastNotarized : MbsOf[m] \subseteq ExecutedIn(chain)

\* processedMiniBlocks is exactly what the chain has executed of the meta
\* blocks that are not complete.
ProcessedFollowsChain == Running => processed = PartlyIn(chain)

\* The list of notarized headers holds, for the current block and for every
\* block a roll back may go back to, the last meta block complete there.
NotarizedFollowsChain ==
  Running =>
    \A n \in final..Len(chain) :
      LET d == Len(chain) - n
          entry == IF d < Len(notarized) THEN notarized[Len(notarized) - d]
                                         ELSE notarized[1]
      IN entry = CompleteIn(SubSeq(chain, 1, n))

\* A restart that is not told to stop at an earlier round keeps every block
\* that was final.
FinalSurvivesRestart ==
  [][ /\ work.stage = "loading" /\ work'.stage = "idle" /\ work.limit = MaxRound
      => LET kept == SubSeq(work.was, 1, work.wasFinal)
         IN Len(kept) <= Len(chain') /\ SubSeq(chain', 1, Len(kept)) = kept ]_vars

\* The MetaBlockUnit storage holds only meta blocks all of whose mini blocks the
\* chain has executed; the roll back takes it for the list of complete ones.
OnlyCompleteStored == Running => \A m \in stored : m <= CompleteIn(chain)

\* Once no boot data is on its way, the highest round of the boot storage is
\* the round of the current block.
HighestRoundIsCurrent ==
  work = Idle /\ pending = {} => highest = RoundOf(chain)
=============================================================================
