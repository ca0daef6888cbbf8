------------------------------- MODULE Ledger -------------------------------
(***************************************************************************)
(* The value held by the accounts of all shards while blocks are executed, *)
(* committed or given up.  A block of a shard runs its own transactions    *)
(* and what other shards have sent to it, and ends with the reward         *)
(* transactions.  What a committed block sends to another shard is in      *)
(* flying until that shard commits a block that executes it.               *)
(***************************************************************************)
EXTENDS TxProcessor, FiniteSetsExt

CONSTANTS Shards,
          Txs,                \* the transactions of the pools; they stay there
          VmOutputs(_, _),    \* what the virtual machine may answer
          Genesis, Contracts, \* balances and contracts of the first block
          Group, MetaGroup,   \* consensus groups, the leader first
          Community, Burn,    \* addresses
          LeaderPercentage, CommunityPercentage, BurnPercentage,
          RewardsValue,
          MaxBlocks           \* bound: blocks per shard

VARIABLES chain,     \* chain[s]: the committed accounts
          work,      \* work[s]: the block that s executes
          running,   \* shards that execute a block
          flying,    \* sent by a committed block, not yet executed
          created    \* protocol rewards minus what rounding loses

vars == <<chain, work, running, flying, created>>

\* CreateBlockStarted: the counters of the block start from nothing
NewBlock(s, c) ==
  [shard |-> s, bal |-> c.bal, nonce |-> c.nonce, code |-> c.code, log |-> c.log,
   height |-> c.height, fees |-> 0, scrs |-> {}, refunded |-> {}, isCallBack |-> FALSE,
   used |-> {}, sent |-> {}]

Init ==
  /\ chain = [s \in Shards |->
                [bal |-> [a \in Addr |-> IF ShardOf[a] = s THEN Genesis[a] ELSE 0],
                 nonce |-> [a \in Addr |-> 0],
                 code |-> {a \in Contracts : ShardOf[a] = s},
                 log |-> <<>>, height |-> 0]]
  /\ work = [s \in Shards |-> NewBlock(s, chain[s])]
  /\ running = {}
  /\ flying = {}
  /\ created = 0

CreateBlockStarted(s) ==
  /\ s \notin running /\ chain[s].height < MaxBlocks
  /\ running' = running \cup {s}
  /\ work' = [work EXCEPT ![s] = NewBlock(s, chain[s])]
  /\ UNCHANGED <<chain, flying, created>>

\* processAndRemoveBadTransaction: a transaction that fails is reverted and left out
ExecuteOwn(s, tx) ==
  /\ s \in running /\ ShardOf[tx.snd] = s
  /\ \E vm \in VmOutputs(work[s], tx) :
       LET r == ProcessTransaction(work[s], tx, vm)
       IN  /\ r.err = "none"
           /\ work' = [work EXCEPT ![s] =
                [r.st EXCEPT !.log = Append(@, tx),
                             !.sent = IF RcvShard(tx) = s THEN @ ELSE @ \cup {tx}]]
  /\ UNCHANGED <<chain, running, flying, created>>

Destination(item) == IF item.kind = "tx" THEN RcvShard(item) ELSE ShardOf[item.rcv]

\* ProcessMiniBlock of the preprocessor that is responsible for the item
ExecuteCross(s, item) ==
  /\ s \in running /\ Destination(item) = s /\ item \notin work[s].used
  /\ LET st == [work[s] EXCEPT !.used = @ \cup {item}]
     IN  \/ /\ item.kind = "tx"
            /\ \E vm \in VmOutputs(st, item) :
                 LET r == ProcessTransaction(st, item, vm)
                 IN  r.err = "none" /\ work' = [work EXCEPT ![s] = r.st]
         \/ /\ item.kind = "scr"
            /\ \E vm \in VmOutputs(st, item) :
                 work' = [work EXCEPT ![s] = ProcessSmartContractResult(st, item, vm)]
         \/ /\ item.kind = "reward"
            /\ work' = [work EXCEPT ![s] = ProcessRewardTransaction(st, item)]
  /\ UNCHANGED <<chain, running, flying, created>>

-----------------------------------------------------------------------------
\* rewards

Reward(s, a, value, round) ==
  [kind |-> "reward", rcv |-> a, value |-> value, shard |-> s, round |-> round]

getPercentageOfValue(value, percentage) == (value * percentage) \div 100

createRewardFromFees(s, st) ==
  IF st.fees < 1 THEN <<>>
  ELSE << Reward(s, Group[s][1], getPercentageOfValue(st.fees, LeaderPercentage), st.height),
          Reward(s, Community, getPercentageOfValue(st.fees, CommunityPercentage), st.height),
          Reward(s, Burn, getPercentageOfValue(st.fees, BurnPercentage), st.height) >>

createProtocolRewards(s, st) ==
  IF RewardsValue = 0 THEN <<>>
  ELSE [i \in DOMAIN Group[s] |-> Reward(s, Group[s][i], RewardsValue, st.height)]

\* the group of a meta block is paid by the shards of its addresses
createProtocolRewardsForMeta(s, st, meta) ==
  IF RewardsValue = 0 \/ ~meta THEN <<>>
  ELSE LET here == SelectSeq(MetaGroup, LAMBDA a : ShardOf[a] = s)
       IN  [i \in DOMAIN here |-> Reward(s, here[i], RewardsValue, -1 - st.height)]

\* transactions with the same hash are one entry of rewardTxsForBlock
verifyCreatedRewardsTxs(rewards) == Cardinality(Range(rewards)) = Len(rewards)

SumValue(S) == MapThenSumSet(LAMBDA x : x.value, S)

Mut_CreateAllInterMiniBlocks(s, st) == st.scrs

\* the results for this shard are only recorded, they took effect already
CreateAllInterMiniBlocks(s, st) == {r \in st.scrs : r.rcv # ZeroAddr /\ Destination(r) # s}

\* The rewards are created and executed last, the results for other shards are
\* put into mini blocks, and the block is committed.  meta: the block refers to a
\* meta block.
CommitBlock(s, meta) ==
  LET st == work[s]
      fromFees == createRewardFromFees(s, st)
      rewards == createProtocolRewards(s, st) \o createProtocolRewardsForMeta(s, st, meta) \o fromFees
      done == FoldLeft(LAMBDA w, r : ProcessRewardTransaction(w, r), st, rewards)
      minted == SumValue(Range(rewards) \ Range(fromFees))
  IN  /\ s \in running
      /\ verifyCreatedRewardsTxs(rewards)
      /\ chain' = [chain EXCEPT ![s] =
                     [bal |-> done.bal, nonce |-> done.nonce, code |-> done.code,
                      log |-> done.log, height |-> done.height + 1]]
      /\ flying' = (flying \ st.used) \cup st.sent
                     \cup CreateAllInterMiniBlocks(s, st)
                     \cup {r \in Range(rewards) : ShardOf[r.rcv] # s}
      /\ created' = created + minted - (st.fees - SumValue(Range(fromFees)))
      /\ running' = running \ {s}
      /\ UNCHANGED work

\* RevertAccountState: the block is not accepted or ran out of time
RevertBlock(s) ==
  /\ s \in running
  /\ running' = running \ {s}
  /\ UNCHANGED <<chain, work, flying, created>>

Next ==
  \E s \in Shards :
    \/ CreateBlockStarted(s)
    \/ \E tx \in Txs : ExecuteOwn(s, tx)
    \/ \E item \in flying : ExecuteCross(s, item)
    \/ \E meta \in BOOLEAN : CommitBlock(s, meta)
    \/ RevertBlock(s)

Spec == Init /\ [][Next]_vars

-----------------------------------------------------------------------------
TypeOK ==
  /\ running \subseteq Shards
  /\ created \in Int
  /\ \A s \in Shards : /\ chain[s].nonce \in [Addr -> Nat]
                       /\ work[s].fees \in Nat
                       /\ chain[s].height \in 0 .. MaxBlocks
  /\ \A item \in flying : item.kind \in {"tx", "scr", "reward"}

SumBalances(c) == MapThenSumSet(LAMBDA a : c.bal[a], Addr)

\* No value appears or vanishes between the accounts of all shards and what is
\* on its way between them, but for the rewards that the protocol creates and
\* the rounding of the fee percentages: fees that senders pay and refunds that
\* they get are exactly what the rewards handler distributes.
Conservation ==
  MapThenSumSet(LAMBDA s : SumBalances(chain[s]), Shards) + SumValue(flying)
    = MapThenSumSet(LAMBDA a : Genesis[a], Addr) + created

\* No account of a shard is overdrawn, also in the middle of a block and when
\* several transactions of one sender run in it.
NoOverdraft == \A s \in running : \A a \in Addr : work[s].bal[a] >= 0

\* The transactions of a sender are executed in the order of their nonces and
\* none twice, although they stay in the pools and blocks are given up.
NoncesInOrder ==
  \A s \in Shards : \A a \in Addr :
    LET mine == SelectSeq(chain[s].log, LAMBDA tx : tx.snd = a)
    IN  \A i \in DOMAIN mine : mine[i].nonce = i - 1

\* A block whose transactions were executed can be committed.
RewardsAreAccepted ==
  \A s \in running :
    verifyCreatedRewardsTxs(createProtocolRewards(s, work[s])
                              \o createRewardFromFees(s, work[s]))
=============================================================================
