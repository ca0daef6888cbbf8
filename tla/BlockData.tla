----------------------------- MODULE BlockData -----------------------------
(***************************************************************************)
(* Where the transactions of a shard's blocks are, from the pool to the    *)
(* storage and back.  The coordinator hands a block to one preprocessor    *)
(* per kind of mini block ("tx", "scr", "reward"); each keeps the table of *)
(* the transactions of the current block.  What a block itself makes,      *)
(* smart contract results and rewards, is kept by the interim processors.  *)
(* A block that is committed is saved from the tables, removed from the    *)
(* pools and broadcast; a block that is rolled back returns from storage.  *)
(*                                                                         *)
(* An item is a transaction of any kind; it stands for its own hash.       *)
(***************************************************************************)
EXTENDS Naturals, Sequences, FiniteSets, SequencesExt, FiniteSetsExt

CONSTANTS SelfId,       \* the shard of this node
          BlockItems,   \* all items
          KindOf, SndOf, RcvOf,  \* kind and shards of an item
          MadeBy,       \* MadeBy[i]: the results that executing i makes
          RewardsOf,    \* RewardsOf[h]: the rewards of the block of height h
          CrossMbs,     \* the mini blocks other shards have for this one
          MaxDataOps    \* bound: blocks begun, rolled back and restarts

Heights == DOMAIN RewardsOf

VARIABLES itemPool,   \* the three pools
          mbPool,     \* the pool of mini blocks
          table,      \* txHashAndInfo of the preprocessors that hold a transaction
          awaited,    \* their entries that hold none yet
          interim,    \* what the interim processors hold
          units,      \* the storage units
          dataChain,  \* the bodies of the committed blocks
          dataPc,     \* where the node is
          curBody,    \* the block it creates or processes
          proposer,   \* has it created that block?
          dispatched, \* what it has broadcast of its last block: item -> times
          dataOps

dataVars == <<itemPool, mbPool, table, awaited, interim, units, dataChain, dataPc,
              curBody, proposer, dispatched, dataOps>>

-----------------------------------------------------------------------------
(* Bodies.                                                                 *)

Mb(kind, snd, rcv, items) == [kind |-> kind, snd |-> snd, rcv |-> rcv, items |-> items]

\* one mini block for each kind and destination of what this shard sends
FromMe(items) ==
  {Mb(k, SelfId, r, {i \in items : KindOf[i] = k /\ RcvOf[i] = r}) :
     <<k, r>> \in {<<KindOf[i], RcvOf[i]>> : i \in items}}

ItemsOf(body) == UNION {mb.items : mb \in body}
OfKind(body, k) == {mb \in body : mb.kind = k}
separateBodyByType(body) == [k \in {mb.kind : mb \in body} |-> OfKind(body, k)]

OnChain == UNION {ItemsOf(dataChain[h]) : h \in DOMAIN dataChain}
NextHeight == Len(dataChain) + 1


\* the rewards handler makes them from the fees and the consensus groups
miniblocksFromRewardTxs(h) == RewardsOf[h]

\* intermediateResultsProcessor.AddIntermediateTransactions: executing makes results
ResultsOf(items) == UNION {MadeBy[i] : i \in items}

\* rewardsHandler.AddIntermediateTransactions: the rewards of this shard only
RewardsKept(items) == {i \in items : KindOf[i] = "reward" /\ SndOf[i] = SelfId}

-----------------------------------------------------------------------------
(* The preprocessors, one operator for each that does it its own way.      *)

\* What the pools do not have is requested from the sender's shard.
computeMissingTxsForMiniBlock(mb) == IF mb.kind = "tx" THEN mb.items \ itemPool ELSE {}
computeMissingScrsForMiniBlock(mb) == IF mb.kind = "scr" THEN mb.items \ itemPool ELSE {}
computeMissingRewardTxsForMiniBlock(mb) == IF mb.kind = "reward" THEN mb.items \ itemPool ELSE {}

RequestTransactionsForMiniBlock(mb) ==
  computeMissingTxsForMiniBlock(mb) \cup computeMissingScrsForMiniBlock(mb)
    \cup computeMissingRewardTxsForMiniBlock(mb)


\* RequestBlockTransactions looks for the transactions of every mini block, but
\* not for results and rewards that this shard makes itself.
Expected(mb) == mb.kind = "tx" \/ mb.snd # SelfId

\* ProcessBlockTransactions: results take effect at their destination only
Executed(mb) == mb.kind = "scr" => mb.rcv = SelfId /\ mb.snd # SelfId

\* SaveTxBlockToStorage
SavesTx(mb) == mb.kind = "tx"
SavesScr(mb) == mb.kind = "scr" /\ mb.rcv = SelfId /\ mb.snd # SelfId
SavesReward(mb) == mb.kind = "reward"
SavedFromTable(mb) == SavesTx(mb) \/ SavesScr(mb) \/ SavesReward(mb)

\* SaveCurrentIntermediateTxToStorage of the two interim processors
savedResults(held) == {i \in held : KindOf[i] = "scr"}
savedRewards(held) == {i \in held : KindOf[i] = "reward"}

\* saveTxsToStorage: an item that is not in the table is an error
saveTxsToStorage(items) == [err |-> ~(items \subseteq table), items |-> items \cap table]

SaveBlockDataToStorage(body) ==
  LET saved == saveTxsToStorage(ItemsOf({mb \in body : SavedFromTable(mb)}))
  IN  [saved EXCEPT !.items = @ \cup savedResults(interim) \cup savedRewards(interim)]

\* RemoveTxBlockFromPools
removeDataFromPools(body) ==
  /\ itemPool' = itemPool \ ItemsOf(body)
  /\ mbPool' = mbPool \ body

Mut_restoreScrs(mbs) == {mb \in mbs : mb.snd # SelfId}

(* RestoreTxBlockIntoPools: an item that is not stored ends the restoring  *)
(* of its kind, here before it has begun.                                  *)
restoreTxs(mbs) == IF ItemsOf(mbs) \subseteq units THEN mbs ELSE {}
restoreScrs(mbs) == IF ItemsOf(mbs) \subseteq units THEN mbs ELSE {}
restoreRewards(mbs) == IF ItemsOf(mbs) \subseteq units THEN mbs ELSE {}

RestoreBlockDataFromStorage(body) ==
  restoreTxs(OfKind(body, "tx")) \cup restoreScrs(OfKind(body, "scr"))
    \cup restoreRewards(OfKind(body, "reward"))

\* CreateMarshalizedData of the preprocessors: what the table does not hold is
\* left out
createMarshalizedData(mb) == mb.items \cap table

\* ... of the results: the same with what the interim processor holds
marshalizedResults(mb) == IF mb.kind = "scr" THEN mb.items \cap interim ELSE {}

\* ... of the rewards handler: one that it does not hold is an error
marshalizedRewards(mb) ==
  IF mb.kind = "reward" /\ mb.items \subseteq interim THEN mb.items ELSE {}

(* What a mini block that leaves the shard makes the leader broadcast:     *)
(* item -> times.  A reward is held by both, and sent twice.               *)
CreateMarshalizedData(body) ==
  LET leaving == {mb \in body : mb.rcv # SelfId}
      Times(i, Marshalized(_)) == IF \E mb \in leaving : i \in Marshalized(mb) THEN 1 ELSE 0
  IN  [i \in BlockItems |-> Times(i, createMarshalizedData) + Times(i, marshalizedResults)
                              + Times(i, marshalizedRewards)]

-----------------------------------------------------------------------------
DataInit ==
  /\ itemPool = {} /\ mbPool = {} /\ table = {} /\ awaited = {} /\ interim = {} /\ units = {}
  /\ dataChain = <<>> /\ dataPc = "idle" /\ curBody = {} /\ proposer = FALSE
  /\ dispatched = [i \in BlockItems |-> 0]
  /\ dataOps = 0

\* What users and other shards send; they send it again after a rollback.
FromOutside(i) == /\ i \notin OnChain
                  /\ \/ KindOf[i] = "tx" /\ SndOf[i] = SelfId
                     \/ \E mb \in CrossMbs : i \in mb.items

\* AddData and the handler of the preprocessor that waits for the item
AddItem(i) ==
  /\ FromOutside(i) /\ i \notin itemPool
  /\ itemPool' = itemPool \cup {i}
  /\ awaited' = awaited \ {i}
  /\ table' = IF i \in awaited THEN table \cup {i} ELSE table
  /\ UNCHANGED <<mbPool, interim, units, dataChain, dataPc, curBody, proposer, dispatched, dataOps>>

\* receivedMiniBlock
AddMiniBlock(mb) ==
  /\ mb \in CrossMbs \ mbPool /\ mb.items \cap OnChain = {}
  /\ mbPool' = mbPool \cup {mb}
  /\ UNCHANGED <<itemPool, table, awaited, interim, units, dataChain, dataPc, curBody, proposer,
                 dispatched, dataOps>>

\* a pool that is full drops something
EvictItem(i) ==
  /\ i \in itemPool /\ dataPc = "waiting" /\ i \in ItemsOf(curBody)
  /\ itemPool' = itemPool \ {i}
  /\ UNCHANGED <<mbPool, table, awaited, interim, units, dataChain, dataPc, curBody, proposer,
                 dispatched, dataOps>>

Mut_CreateBlockStarted(left) == left

\* CreateBlockStarted of the preprocessors and the interim processors: what the
\* block before has left in the table is dropped
CreateBlockStarted(left) == {}

Begins == /\ dataPc = "idle" /\ NextHeight \in Heights /\ dataOps < MaxDataOps
          /\ dataOps' = dataOps + 1
          /\ dispatched' = [i \in BlockItems |-> 0]

(* CreateBlockBody: the leader takes complete mini blocks of other shards  *)
(* from the pools, then transactions of its own, whose results and the     *)
(* rewards follow.  begun: the rewards it executes; when one cannot be     *)
(* credited the block goes without rewards, but the rewards handler keeps  *)
(* the ones that were begun.                                               *)
MakeBlock(cross, own, begun, credited) ==
  LET fromOthers == ItemsOf(cross)
      results == ResultsOf(own \cup {i \in fromOthers : KindOf[i] # "reward"})
      rewards == miniblocksFromRewardTxs(NextHeight)
      paid == IF credited THEN rewards ELSE {}
  IN  /\ Begins
      /\ cross \subseteq mbPool /\ \A mb \in cross : RequestTransactionsForMiniBlock(mb) = {}
      /\ own \subseteq {i \in itemPool : KindOf[i] = "tx" /\ SndOf[i] = SelfId}
      /\ (fromOthers \cup own) \cap OnChain = {}
      /\ credited => begun = rewards
      /\ table' = CreateBlockStarted(table) \cup fromOthers \cup own \cup paid
      /\ awaited' = {}
      /\ interim' = CreateBlockStarted(interim) \cup results \cup RewardsKept(begun)
      /\ itemPool' = itemPool \cup rewards
      /\ curBody' = cross \cup FromMe(own \cup results \cup paid)
      /\ proposer' = TRUE /\ dataPc' = "made"
      /\ UNCHANGED <<mbPool, units, dataChain>>

(* ProcessBlock with the body of another leader: RequestBlockTransactions  *)
(* puts what the pools have into the tables and asks for the rest.         *)
StartProcessing(cross, own, credited) ==
  LET results == ResultsOf(own \cup {i \in ItemsOf(cross) : KindOf[i] # "reward"})
      paid == IF credited THEN RewardsOf[NextHeight] ELSE {}
      body == cross \cup FromMe(own \cup results \cup paid)
      needed == ItemsOf({mb \in body : Expected(mb)})
  IN  /\ Begins
      /\ (ItemsOf(cross) \cup own) \cap OnChain = {}
      /\ curBody' = body /\ proposer' = FALSE
      /\ table' = CreateBlockStarted(table) \cup (needed \cap itemPool)
      /\ awaited' = needed \ itemPool
      /\ interim' = CreateBlockStarted(interim)
      /\ dataPc' = "waiting"
      /\ UNCHANGED <<itemPool, mbPool, units, dataChain>>

\* IsDataPreparedForProcessing returns an error
DataTimeOut ==
  /\ dataPc = "waiting" /\ awaited # {}
  /\ dataPc' = "idle" /\ curBody' = {}
  /\ UNCHANGED <<itemPool, mbPool, table, awaited, interim, units, dataChain, proposer, dispatched,
                 dataOps>>

(* ProcessBlockTransaction and VerifyCreatedBlockTransactions, in the      *)
(* order of the kinds.  The rewards are computed by the preprocessor of    *)
(* the rewards, which runs when the block has any.                         *)
ProcessData ==
  LET kinds == DOMAIN separateBodyByType(curBody)
      rewards == IF "reward" \in kinds THEN miniblocksFromRewardTxs(NextHeight) ELSE {}
      found == table \cup rewards
      executed == ItemsOf({mb \in curBody : Executed(mb)})
      kept == interim \cup ResultsOf({i \in executed : KindOf[i] # "reward"})
      fine == /\ executed \subseteq found
              /\ \A mb \in OfKind(curBody, "scr") :
                   mb.rcv # SelfId => mb.items = {i \in kept : KindOf[i] = "scr" /\ RcvOf[i] = mb.rcv}
              /\ rewards = RewardsKept(interim \cup executed)
  IN  /\ dataPc = "waiting" /\ awaited = {}
      /\ table' = found
      /\ itemPool' = itemPool \cup rewards
      /\ interim' = kept \cup RewardsKept(executed)
      /\ dataPc' = IF fine THEN "made" ELSE "refused"
      /\ UNCHANGED <<mbPool, awaited, units, dataChain, curBody, proposer, dispatched, dataOps>>

\* the block or the consensus on it fails: RevertAccountState
GiveUpBlock ==
  /\ dataPc \in {"made", "refused"}
  /\ dataPc' = "idle" /\ curBody' = {}
  /\ UNCHANGED <<itemPool, mbPool, table, awaited, interim, units, dataChain, proposer, dispatched,
                 dataOps>>

\* CommitBlock: save, commit, remove from the pools
CommitData ==
  /\ dataPc = "made"
  /\ LET saved == SaveBlockDataToStorage(curBody)
     IN  /\ units' = units \cup saved.items
         /\ IF saved.err
            THEN /\ dataPc' = "unsaved"
                 /\ UNCHANGED <<itemPool, mbPool, dataChain>>
            ELSE /\ dataPc' = "committed"
                 /\ dataChain' = Append(dataChain, curBody)
                 /\ removeDataFromPools(curBody)
  /\ UNCHANGED <<table, awaited, interim, curBody, proposer, dispatched, dataOps>>

\* MarshalizedDataToBroadcast, by the leader, after the commit
Dispatch ==
  /\ dataPc = "committed"
  /\ dataPc' = "idle"
  /\ dispatched' = IF proposer THEN CreateMarshalizedData(curBody) ELSE dispatched
  /\ UNCHANGED <<itemPool, mbPool, table, awaited, interim, units, dataChain, curBody, proposer, dataOps>>

\* RestoreBlockDataFromStorage, when a fork is rolled back
RollBackData ==
  /\ dataPc = "idle" /\ dataChain # <<>> /\ dataOps < MaxDataOps
  /\ LET body == RestoreBlockDataFromStorage(Last(dataChain))
     IN  /\ itemPool' = itemPool \cup ItemsOf(body)
         /\ mbPool' = mbPool \cup body
         /\ awaited' = awaited \ ItemsOf(body)
         /\ curBody' = Last(dataChain)
  /\ dataChain' = Front(dataChain)
  /\ dataOps' = dataOps + 1
  /\ dataPc' = "restored"
  /\ UNCHANGED <<table, interim, units, proposer, dispatched>>

AfterRollBack ==
  /\ dataPc = "restored"
  /\ dataPc' = "idle" /\ curBody' = {}
  /\ UNCHANGED <<itemPool, mbPool, table, awaited, interim, units, dataChain, proposer, dispatched,
                 dataOps>>

\* the memory of the node is lost, its storage is not
RestartData ==
  /\ dataOps < MaxDataOps
  /\ dataOps' = dataOps + 1
  /\ itemPool' = {} /\ mbPool' = {} /\ table' = {} /\ awaited' = {} /\ interim' = {}
  /\ curBody' = {} /\ proposer' = FALSE /\ dispatched' = [i \in BlockItems |-> 0]
  /\ dataPc' = "idle"
  /\ UNCHANGED <<units, dataChain>>

CrossChoices == {c \in SUBSET CrossMbs : \A mb \in c : mb.items \cap OnChain = {}}
OwnChoices == SUBSET {i \in BlockItems : KindOf[i] = "tx" /\ SndOf[i] = SelfId /\ i \notin OnChain}

DataNext ==
  \/ \E i \in BlockItems : AddItem(i) \/ EvictItem(i)
  \/ \E mb \in CrossMbs : AddMiniBlock(mb)
  \/ /\ NextHeight \in Heights
     /\ \E cross \in CrossChoices, own \in OwnChoices, credited \in BOOLEAN :
          \/ StartProcessing(cross, own, credited)
          \/ \E begun \in {RewardsOf[NextHeight]} \cup {{r} : r \in RewardsOf[NextHeight]} :
                MakeBlock(cross, own, begun, credited)
  \/ DataTimeOut \/ ProcessData \/ GiveUpBlock \/ CommitData \/ Dispatch
  \/ RollBackData \/ AfterRollBack \/ RestartData

DataSpec == DataInit /\ [][DataNext]_dataVars

-----------------------------------------------------------------------------
(* Types; an entry of a table either holds its transaction or waits for    *)
(* it, and none waits in a block that was processed.                       *)
DataTypeOK ==
  /\ itemPool \cup table \cup awaited \cup interim \cup units \subseteq BlockItems
  /\ dataPc \in {"idle", "waiting", "made", "refused", "unsaved", "committed", "restored"}
  /\ proposer \in BOOLEAN
  /\ table \cap awaited = {} /\ (dataPc \in {"made", "committed"} => awaited = {})
  /\ Len(dataChain) <= Cardinality(Heights)

(* A block that an honest leader made, processed by a node that got its    *)
(* data in time, passes the comparison with what the node computes itself  *)
(* and can be saved: ProcessBlock and CommitBlock never miss an item.      *)
(* The one exception is a block whose leader could not credit its rewards. *)
HonestBlockGoesThrough ==
  /\ dataPc # "unsaved"
  /\ dataPc = "refused" => RewardsKept(ItemsOf(curBody)) # RewardsOf[NextHeight]

(* Everything in the committed blocks is in storage, whoever made the item *)
(* and whether the node led the round or followed it; a later rollback and *)
(* the answers to other nodes read it from there.                          *)
CommittedIsStored == OnChain \subseteq units

(* RestoreBlockIntoPools: after a rollback, also one after a restart, the  *)
(* mini blocks and all their items can be found in the pools again.        *)
RolledBackIsInPools ==
  dataPc = "restored" => /\ curBody \subseteq mbPool
                         /\ ItemsOf(curBody) \subseteq itemPool

(* What a committed block sends to other shards is broadcast by its leader *)
(* completely, results and rewards included, and nothing else is.          *)
LeaderSendsAll ==
  (proposer /\ dataPc = "idle" /\ curBody # {}) =>
     {i \in BlockItems : dispatched[i] > 0} = ItemsOf({mb \in curBody : mb.rcv # SelfId})
=============================================================================
