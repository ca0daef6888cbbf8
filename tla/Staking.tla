------------------------------- MODULE Staking -------------------------------
(***************************************************************************)
(* The staking contract of the metachain, the peer accounts the metachain  *)
(* derives from it after every block, and the peer changes it puts into    *)
(* the block for the shards.                                               *)
(*                                                                         *)
(* Calls that end in UserError change nothing: the value sent goes back to *)
(* the caller.  The contract is its own owner since it is deployed by a    *)
(* transaction sent from its own address, so that slash, which only the    *)
(* owner may call, is never called.                                        *)
(***************************************************************************)
EXTENDS Integers, Sequences, FiniteSets, SequencesExt, FiniteSetsExt

CONSTANTS Stakers,       \* addresses that stake
          GenesisStakers,\* those of them that stake at genesis
          BlsKeys,       \* public keys
          StakeValue,    \* the stake every validator pays
          UnBoundPeriod, \* blocks between unStake and unBound
          LeaversAlone,  \* a block that holds an unBound holds no other call
          SkipRounds,    \* rounds without a block happen
          LastBlock,     \* bound: blocks of the metachain
          MaxStaked      \* bound: what the stakers can pay

ASSUME StakingAssumption ==
  /\ StakeValue \in Nat \ {0} /\ UnBoundPeriod \in Nat \ {0} /\ GenesisStakers \subseteq Stakers

VARIABLES storage,     \* the contract's data under each address
          scBalance,   \* the contract's balance
          currentNonce, currentRound, \* of the block that is built
          touched,     \* the storage keys changed in this block
          peers,       \* the metachain's peer accounts
          ambiguous,   \* two nodes may have computed different PeerInfo
          shardPeers,  \* the peer accounts of a shard that follows
          shardFailed, \* it could not apply a block
          lastStaked,  \* history: the last block in which an address was staked
          leftAt       \* history: the block in which it got its stake back

stakingVars == <<storage, scBalance, currentNonce, currentRound, touched, peers, ambiguous,
                 shardPeers, shardFailed, lastStaked, leftAt>>

NoData == [staked |-> FALSE, start |-> 0, unStaked |-> 0, key |-> "", value |-> 0]
Never == -1

-----------------------------------------------------------------------------
(* The contract.  Its storage is read and written by its caller's address; *)
(* the context collects the writes and the transfers of one call.          *)

GetStorage(addr) == storage[addr]
Registered(addr) == GetStorage(addr) # NoData

(* The output of a call names the storage keys it wrote; they travel in a  *)
(* smart contract result, from which getAllModifiedStates reads them.      *)
CreateVMOutput(addr) == touched' = touched \cup {addr}
SetStorage(addr, data) == storage' = [storage EXCEPT ![addr] = data] /\ CreateVMOutput(addr)

AddTxValueToSmartContract(value) == scBalance' = scBalance + value
Transfer(value) == scBalance' = scBalance - value

(* stake keeps what an earlier registration recorded as its value.         *)
stake(addr, key) ==
  LET data == GetStorage(addr) IN
  /\ ~ data.staked /\ scBalance + StakeValue <= MaxStaked
  /\ SetStorage(addr, [data EXCEPT !.staked = TRUE, !.start = currentNonce, !.key = key,
                                   !.value = IF Registered(addr) THEN data.value ELSE StakeValue])
  /\ AddTxValueToSmartContract(StakeValue)
  /\ leftAt' = leftAt

unStake(addr) ==
  /\ Registered(addr) /\ GetStorage(addr).staked
  /\ SetStorage(addr, [GetStorage(addr) EXCEPT !.staked = FALSE, !.unStaked = currentNonce])
  /\ UNCHANGED <<scBalance, leftAt>>

MayLeave(data) ==
  /\ ~ data.staked /\ data.unStaked > data.start
  /\ currentNonce - data.unStaked >= UnBoundPeriod

DataLeft(addr) == NoData

unBound(addr) ==
  /\ Registered(addr) /\ MayLeave(GetStorage(addr))
  /\ SetStorage(addr, DataLeft(addr))
  /\ Transfer(GetStorage(addr).value)
  /\ leftAt' = [leftAt EXCEPT ![addr] = currentNonce]

-----------------------------------------------------------------------------
(* stakingToPeer.  UpdateProtocol walks over the touched addresses in any  *)
(* order, since they are the keys of a map, and returns as soon as it      *)
(* removed one peer account.  Its second argument, called nonce, is the    *)
(* round of the block.                                                     *)

NoPeer == [key |-> "", stake |-> 0, nonce |-> 0, unStaked |-> 0, waiting |-> FALSE, address |-> "empty"]

Change(addr, account, action, time, value) ==
  [of |-> addr, address |-> account.address, key |-> account.key, action |-> action, time |-> time, value |-> value]

peerUnregistered(addr, account) == Change(addr, account, "deregistration", currentRound, account.stake)

createPeerChangeData(addr, data, account) ==
  IF account.key = "" THEN Change(addr, account, "registration", data.start, data.value)
  ELSE Change(addr, account,
         IF data.unStaked = currentRound THEN "unstaking"
         ELSE IF data.start = currentRound THEN "registration"
         ELSE IF account.stake < data.value THEN "slashed"
         ELSE IF account.stake > data.value THEN "restake"
         ELSE "none", currentRound, account.stake - data.value)

Mut_updatePeerState(data, account) ==
  [account EXCEPT !.key = data.key, !.stake = data.value, !.nonce = data.start,
                  !.waiting = @ \/ data.start # account.nonce]
updatePeerState(data, account) ==
  [account EXCEPT !.key = data.key, !.stake = data.value, !.nonce = data.start,
                  !.waiting = @ \/ data.start # account.nonce, !.unStaked = data.unStaked]

ReturnsAfter(addr) == ~ Registered(addr)

getPeerAccount(ps, addr) == IF addr \in DOMAIN ps THEN ps[addr] ELSE NoPeer
UpdateOne(result, addr) ==
  LET account == getPeerAccount(result.peers, addr)
      data == GetStorage(addr)
  IN IF result.stop THEN result
     ELSE IF ~ Registered(addr)
     THEN [peers |-> [a \in DOMAIN result.peers \ {addr} |-> result.peers[a]],
           changes |-> result.changes \cup {peerUnregistered(addr, account)}, stop |-> ReturnsAfter(addr)]
     ELSE [peers |-> [a \in DOMAIN result.peers \cup {addr} |->
                        IF a = addr THEN updatePeerState(data, account) ELSE result.peers[a]],
           changes |-> result.changes \cup {createPeerChangeData(addr, data, account)}, stop |-> ReturnsAfter(addr)]

getAllModifiedStates == SetToSeqs(touched)
UpdateProtocol(order) == FoldLeft(UpdateOne, [peers |-> peers, changes |-> {}, stop |-> FALSE], order)

(* VerifyPeerChanges compares what the proposer put into the block with    *)
(* what this node computed, in an order of its own.                        *)
VerifyPeerChanges == \A a, b \in getAllModifiedStates : UpdateProtocol(a).changes = UpdateProtocol(b).changes

-----------------------------------------------------------------------------
(* A shard applies the changes of a metachain block to its peer accounts.  *)
(* The address of a change is the Address of the peer account: the text of *)
(* the address for the nodes of genesis, nothing for the others.           *)

CreateAddressFromPublicKeyBytes(change) == IF change.address = "empty" THEN {} ELSE {<<"text", change.of>>}

ShardAccount(ps, adr) == IF adr \in DOMAIN ps THEN ps[adr] ELSE NoPeer
Changed(account, change) ==
  [account EXCEPT !.key = change.key, !.stake = @ + change.value,
     !.nonce    = IF change.action = "registration" THEN change.time ELSE @,
     !.waiting  = @ \/ (change.action = "registration" /\ change.time # account.nonce),
     !.unStaked = IF change.action = "unstaking" THEN change.time ELSE @]
shardUpdatePeerState(ps, change, adr) ==
  IF change.action = "deregistration"
  THEN [a \in DOMAIN ps \ {adr} |-> ps[a]]
  ELSE [a \in DOMAIN ps \cup {adr} |-> IF a = adr THEN Changed(ShardAccount(ps, adr), change) ELSE ps[a]]
processPeerChanges(ps, changes) ==
  FoldSet(LAMBDA c, acc : shardUpdatePeerState(acc, c, CHOOSE a \in CreateAddressFromPublicKeyBytes(c) : TRUE),
          ps, changes)

-----------------------------------------------------------------------------
GenesisStake(a) == IF a \in GenesisStakers
              THEN [staked |-> TRUE, start |-> 0, unStaked |-> 0, key |-> CHOOSE k \in BlsKeys : TRUE, value |-> StakeValue]
              ELSE NoData
savePeerAccountData(a) == [NoPeer EXCEPT !.key = GenesisStake(a).key, !.stake = StakeValue, !.address = "text"]

StakingInit ==
  /\ storage = [a \in Stakers |-> GenesisStake(a)]
  /\ scBalance = StakeValue * Cardinality(GenesisStakers)
  /\ currentNonce = 1 /\ currentRound = 1
  /\ touched = {} /\ ambiguous = FALSE /\ shardFailed = FALSE
  /\ peers = [a \in GenesisStakers |-> savePeerAccountData(a)]
  /\ shardPeers = [x \in {<<"raw", a>> : a \in GenesisStakers} |-> savePeerAccountData(x[2])]
  /\ lastStaked = [a \in Stakers |-> IF a \in GenesisStakers THEN 0 ELSE Never]
  /\ leftAt = [a \in Stakers |-> Never]

Alone(addr) == LeaversAlone => touched \subseteq {addr}
NobodyLeft == LeaversAlone => \A a \in Stakers : leftAt[a] # currentNonce

Execute(addr) ==
  /\ \/ NobodyLeft /\ \E k \in BlsKeys : stake(addr, k)
     \/ NobodyLeft /\ unStake(addr)
     \/ Alone(addr) /\ unBound(addr)
  /\ lastStaked' = [a \in Stakers |-> IF storage[a].staked \/ storage'[a].staked THEN currentNonce ELSE lastStaked[a]]
  /\ UNCHANGED <<currentNonce, currentRound, peers, ambiguous, shardPeers, shardFailed>>

(* The end of a metachain block: the peer accounts follow the contract and *)
(* the shard applies the changes.                                          *)
EndBlock ==
  /\ currentNonce < LastBlock
  /\ \E order \in getAllModifiedStates :
       \E result \in {UpdateProtocol(order)} :
         /\ peers' = result.peers
         /\ LET fails == \E c \in result.changes : CreateAddressFromPublicKeyBytes(c) = {}
            IN /\ shardFailed' = (shardFailed \/ fails)
               /\ shardPeers' = IF shardFailed' THEN shardPeers ELSE processPeerChanges(shardPeers, result.changes)
  /\ ambiguous' = (ambiguous \/ ~ VerifyPeerChanges)
  /\ touched' = {}
  /\ currentNonce' = currentNonce + 1
  /\ \E skipped \in IF SkipRounds /\ currentRound = currentNonce THEN 0 .. 1 ELSE {0} : currentRound' = currentRound + 1 + skipped
  /\ lastStaked' = [a \in Stakers |-> IF storage[a].staked THEN currentNonce' ELSE lastStaked[a]]
  /\ UNCHANGED <<storage, scBalance, leftAt>>

StakingNext == EndBlock \/ \E a \in Stakers : Execute(a)
StakingSpec == StakingInit /\ [][StakingNext]_stakingVars

-----------------------------------------------------------------------------
(* The contract can give back every stake it has recorded, whatever        *)
(* sequence of stake, unStake and unBound its callers go through.          *)
StakesCovered == MapThenSumSet(LAMBDA a : storage[a].value, Stakers) <= scBalance

(* Nobody gets a stake back before UnBoundPeriod blocks without being      *)
(* staked have passed, whatever was registered before.                     *)
LeavesAfterPeriod ==
  \A a \in Stakers : leftAt[a] # Never /\ leftAt[a] >= lastStaked[a] => leftAt[a] - lastStaked[a] >= UnBoundPeriod

(* After every block the peer accounts of the metachain are what the       *)
(* contract recorded.                                                      *)
PeersFollowContract ==
  \A a \in Stakers \ touched :
    IF ~ Registered(a) THEN a \notin DOMAIN peers
    ELSE /\ a \in DOMAIN peers
         /\ peers[a].key = storage[a].key /\ peers[a].stake = storage[a].value
         /\ peers[a].nonce = storage[a].start /\ peers[a].unStaked = storage[a].unStaked

(* Two nodes that execute one block find the same peer changes: an honest  *)
(* proposer's block passes VerifyPeerChanges.                              *)
SamePeerChanges == ~ ambiguous

(* A shard can apply every metachain block, and has then the same peer     *)
(* accounts: checkValidatorStatisticsRootHash compares the roots.          *)
ShardsFollow ==
  /\ ~ shardFailed
  /\ touched = {} => shardPeers = [x \in {<<"raw", a>> : a \in DOMAIN peers} |-> peers[x[2]]]

=============================================================================
