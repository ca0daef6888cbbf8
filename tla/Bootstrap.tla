----------------------------- MODULE Bootstrap ------------------------------
(* The bootstrapper of one node (process/sync: baseSync, shardblock,         *)
(* metablock) with its fork detector, its chain, the headers pool and the    *)
(* consensus that commits blocks beside it.                                  *)
(*                                                                           *)
(* The sync loop is a goroutine of its own: headers arrive, rounds pass and  *)
(* the consensus commits between its steps.                                  *)
EXTENDS ForkDetector

CONSTANTS
    Nodes,                          \* kinds of node: [chain, inConsensus, headers,
                                    \* lastRound], the last two bounds: the headers
                                    \* there are for it and where its clock stops
    MaxRequestsWithTimeoutAllowed   \* 5 in the code

ASSUME BootstrapAssumption ==
    /\ Nodes \subseteq [chain : {"meta", "shard"}, inConsensus : BOOLEAN,
                        headers : SUBSET Hashes, lastRound : Nat]
    /\ MaxRequestsWithTimeoutAllowed \in Nat \ {0}

VARIABLES
    node,        \* what kind of node this is; an observer is not inConsensus
    index,       \* rounder.Index()
    head,        \* blkc.GetCurrentBlockHeaderHash()
    fd,          \* the fork detector
    blackList,   \* blackListHandler
    pool,        \* the headers cacher: hashes of received headers
    noncePool,   \* headersNonces: nonce -> hash of the last header received
    store,       \* headerStore: every header ever committed
    consensus,   \* the round the consensus runs for, and if it may still commit
    sync,        \* where the sync loop is, and the header it works on
    forkInfo,    \* boot.forkInfo
    synced,      \* boot.isNodeSynchronized
    roundIndex,  \* boot.roundIndex
    timeouts     \* boot.requestsWithTimeout

chainVars == <<head, fd, blackList, pool, noncePool, store>>
syncVars == <<sync, forkInfo, synced, roundIndex, timeouts>>
vars == <<index, consensus, chainVars, syncVars, node>>

Nonces == {Hdr[h].nonce : h \in Hashes}
Nonce(h) == IF h = GenesisHash THEN 0 ELSE Hdr[h].nonce
Round(h) == IF h = GenesisHash THEN 0 ELSE Hdr[h].round

\* Steps of syncBlock
Idle == [pc |-> "idle", hdr |-> NoHash]
RollingBack == [pc |-> "rollBack", hdr |-> NoHash]
GettingHeader == [pc |-> "getHeader", hdr |-> NoHash]
Processing(h) == [pc |-> "process", hdr |-> h]

Init ==
    /\ node \in Nodes
    /\ index = 1
    /\ head = GenesisHash
    /\ fd = NewForkDetector(node.chain)
    /\ blackList = {}
    /\ pool = {}
    /\ noncePool = [n \in Nonces |-> NoHash]
    /\ store = {GenesisHash}
    /\ consensus = [round |-> 0, open |-> FALSE]
    /\ sync = Idle
    /\ forkInfo = NewForkInfo
    /\ synced = FALSE
    /\ roundIndex = 0
    /\ timeouts = 0
-----------------------------------------------------------------------------
(* The clock, the network and the black list *)

UpdateRound ==
    /\ index < node.lastRound
    /\ index' = index + 1
    /\ UNCHANGED <<consensus, chainVars, syncVars>>

\* The black list part of checkBlockBasicValidity, then AddHeader
BlackListAfter(h) ==
    IF Hdr[h].prev \in blackList THEN blackList \cup {h} ELSE blackList
ForkDetectorAfter(d, h, state, stuck) ==
    IF Hdr[h].prev \in blackList THEN d ELSE AddHeader(d, h, state, index, stuck)

\* The interceptor saves a header in the pools; the pool it is new to calls
\* processReceivedHeader or receivedHeaderNonce.  A header comes at the earliest
\* one round before its own, when the clock of the node is late.
ReceiveHeader(h) ==
    /\ h \in pool => noncePool[Hdr[h].nonce] # h
    /\ h \notin blackList
    /\ Hdr[h].round <= index + 1
    /\ pool' = pool \cup {h}
    /\ noncePool' = [noncePool EXCEPT ![Hdr[h].nonce] = h]
    /\ fd' = ForkDetectorAfter(fd, h, BHReceived, FALSE)
    /\ blackList' = BlackListAfter(h)
    /\ UNCHANGED <<index, head, store, consensus, syncVars>>

\* The consensus worker hands a proposed header to the fork detector
ReceiveProposed(h) ==
    /\ node.inConsensus
    /\ Hdr[h].round \in {index, index + 1}
    /\ fd' = ForkDetectorAfter(fd, h, BHProposed, FALSE)
    /\ blackList' = BlackListAfter(h)
    /\ UNCHANGED <<index, head, pool, noncePool, store, consensus, syncVars>>

\* Sweep of the time cache behind the black list
ForgetBlackListed(h) ==
    /\ blackList' = blackList \ {h}
    /\ UNCHANGED <<index, head, fd, pool, noncePool, store, consensus, syncVars>>
-----------------------------------------------------------------------------
(* Blocks: the parts of CommitBlock and rollBackOneBlock the sync depends on *)

CheckBlockValidity(h) ==
    /\ Hdr[h].prev = head
    /\ Hdr[h].nonce = Nonce(head) + 1
    /\ Hdr[h].round > Round(head)

CommitBlock(h) ==
    /\ CheckBlockValidity(h)
    /\ store' = store \cup {h}
    /\ noncePool' = [noncePool EXCEPT ![Hdr[h].nonce] = NoHash]
    /\ pool' = pool \ {h}
    /\ \E stuck \in IF fd.chain = "meta" THEN {FALSE} ELSE BOOLEAN :
          fd' = ForkDetectorAfter(fd, h, BHProcessed, stuck)
    /\ blackList' = BlackListAfter(h)
    /\ head' = h

\* isForkTriggeredByMeta of the two bootstrappers
IsForkTriggeredByMeta ==
    /\ forkInfo.detected
    /\ forkInfo.hash # NoHash
    /\ IF fd.chain = "meta" THEN forkInfo.round # MaxUint64
       ELSE forkInfo.round = MinForkRound

ForgetNonces(ns) ==
    [n \in Nonces |-> IF n \in ns THEN NoHash ELSE noncePool[n]]

\* rollBack(false) from the detector d, when the headers of the nonces in gone
\* left the pools: one block is rolled back unless it is final, or everything
\* is left as it is since a step of it fails.  reset is what the caller
\* resets of the detector afterwards.
CanRollBack == head # GenesisHash /\ Nonce(head) > fd.final.nonce
RollBackLast(d, gone, reset) ==
    LET Finish(e) == CASE reset = "nothing" -> e
                       [] reset = "highest" -> ResetProbableHighestNonce(e)
                       [] reset = "fork" -> ResetFork(ResetProbableHighestNonce(e))
    IN  \/ /\ CanRollBack
           /\ head' = Hdr[head].prev
           /\ noncePool' = ForgetNonces(gone \cup {Nonce(head)})
           /\ fd' = Finish(RemoveHeaders(d, Nonce(head)))
        \/ /\ head' = head
           /\ noncePool' = ForgetNonces(gone)
           /\ fd' = Finish(d)
-----------------------------------------------------------------------------
(* ShouldSync, called by the sync loop and at the start of every round *)

SynchronizedInCurrentRound == roundIndex = index /\ synced

ShouldSync(shouldSync) ==
    IF SynchronizedInCurrentRound
      THEN shouldSync = FALSE /\ UNCHANGED <<forkInfo, synced, roundIndex>>
      ELSE /\ forkInfo' = CheckFork(fd)
           /\ synced' = (~CheckFork(fd).detected /\ fd.highest <= Nonce(head))
           /\ roundIndex' = index
           /\ shouldSync = ~synced'

ConsensusStartRound ==
    /\ node.inConsensus
    /\ consensus.round < index
    /\ \E should \in BOOLEAN : /\ ShouldSync(should)
                               /\ ~should
    /\ consensus' = [round |-> index, open |-> TRUE]
    /\ UNCHANGED <<index, chainVars, sync, timeouts>>

\* The same, but the node has to synchronise: the round is left out
ConsensusNotSynchronized ==
    /\ node.inConsensus
    /\ consensus.round < index
    /\ ShouldSync(TRUE)
    /\ UNCHANGED <<index, consensus, chainVars, sync, timeouts>>

\* doEndRoundJob: the node was the leader of the round
ConsensusCommit(h) ==
    /\ consensus = [round |-> index, open |-> TRUE]
    /\ Hdr[h].round = index
    /\ CommitBlock(h)
    /\ consensus' = [consensus EXCEPT !.open = FALSE]
    /\ UNCHANGED <<index, syncVars>>
-----------------------------------------------------------------------------
(* syncBlock *)

SyncNotNeeded ==
    /\ sync = Idle
    /\ ShouldSync(FALSE)
    /\ UNCHANGED <<index, consensus, chainVars, sync, timeouts>>

\* The fork was forced: rollBackOnForcedFork
IsForcedFork(f) == f.detected /\ f.nonce = MaxUint64 /\ f.hash = NoHash
RollBackOnForcedFork ==
    /\ sync = Idle
    /\ ShouldSync(TRUE)
    /\ IsForcedFork(forkInfo')
    /\ RollBackLast(fd, {}, "fork")
    /\ UNCHANGED <<index, consensus, blackList, pool, store, sync, timeouts>>

\* There is work: roll back to the fork, or go on with the next header
StartSync ==
    /\ sync = Idle
    /\ ShouldSync(TRUE)
    /\ ~IsForcedFork(forkInfo')
    /\ sync' = IF forkInfo'.detected THEN RollingBack ELSE GettingHeader
    /\ UNCHANGED <<index, consensus, chainVars, timeouts>>

\* One turn of the loop of rollBack(true).  It reads boot.forkInfo, which a
\* ShouldSync of the consensus may have replaced.
RollBackToFork ==
    /\ sync = RollingBack
    /\ head # GenesisHash
    /\ head' = Hdr[head].prev
    /\ noncePool' = ForgetNonces({Nonce(head)})
    /\ fd' = RemoveHeaders(fd, Nonce(head))
    /\ blackList' = IF IsForkTriggeredByMeta THEN blackList \cup {head}
                    ELSE blackList
    /\ sync' = IF Nonce(head) > forkInfo.nonce THEN RollingBack ELSE GettingHeader
    /\ UNCHANGED <<index, pool, store, consensus, forkInfo, synced, roundIndex,
                   timeouts>>

\* A step of rollBack(true) fails, or there is no block left
RollBackFails ==
    /\ sync = RollingBack
    /\ sync' = Idle
    /\ UNCHANGED <<index, consensus, chainVars, forkInfo, synced, roundIndex,
                   timeouts>>

\* getNextHeaderRequestingIfMissing: by hash when the next header is notarized
\* or a fork was detected, by nonce otherwise
NotarizedHashes(nonce) ==
    {i.hash : i \in {j \in fd.headers : NonceOf(j) = nonce
                                          /\ j.state = BHNotarized}}
NextHeaders ==
    LET nonce == Nonce(head) + 1
        hashes == IF forkInfo.detected THEN {forkInfo.hash} \ {NoHash}
                  ELSE NotarizedHashes(nonce)
    IN  IF hashes # {} THEN hashes \cap (pool \cup store)
        ELSE {noncePool[n] : n \in {nonce} \cap Nonces} \cap pool

GetHeader ==
    /\ sync = GettingHeader
    /\ \E h \in NextHeaders : sync' = Processing(h)
    /\ UNCHANGED <<index, consensus, chainVars, forkInfo, synced, roundIndex,
                   timeouts>>

\* ProcessBlock and CommitBlock succeed
SyncCommit ==
    /\ sync.pc = "process"
    /\ CommitBlock(sync.hdr)
    /\ sync' = Idle
    /\ timeouts' = 0
    /\ UNCHANGED <<index, consensus, forkInfo, synced, roundIndex>>

\* The part of doJobOnSyncBlockFail that rolls back, after n timeouts in a row
FailedSync(n) ==
    LET limit == n >= MaxRequestsWithTimeoutAllowed /\ IsInProperRound(index)
        gone == {Hdr[h].nonce : h \in {sync.hdr} \ {NoHash}}
    IN  /\ timeouts' = 0
        /\ RollBackLast(IF gone = {} THEN fd
                        ELSE RemoveHeaders(fd, Hdr[sync.hdr].nonce),
                        gone, IF limit THEN "highest" ELSE "nothing")

\* The header or the body did not come in time
SyncTimeout ==
    LET n == timeouts + 1
    IN  /\ sync.pc \in {"getHeader", "process"}
        /\ IF n >= MaxRequestsWithTimeoutAllowed /\ IsInProperRound(index)
             THEN FailedSync(n)
             ELSE /\ timeouts' = IF n > MaxRequestsWithTimeoutAllowed
                                   THEN timeouts ELSE n
                  /\ UNCHANGED <<head, noncePool, fd>>
        /\ sync' = Idle
        /\ UNCHANGED <<index, consensus, blackList, pool, store, forkInfo,
                       synced, roundIndex>>

\* ProcessBlock or CommitBlock returns an error, or the header that was announced
\* is not in the pool any more
SyncError ==
    /\ sync.pc \in {"getHeader", "process"}
    /\ FailedSync(timeouts)
    /\ sync' = Idle
    /\ UNCHANGED <<index, consensus, blackList, pool, store, forkInfo, synced,
                   roundIndex>>
-----------------------------------------------------------------------------
Next ==
    /\ UNCHANGED node
    /\ \/ UpdateRound
       \/ \E h \in node.headers : ReceiveHeader(h)
       \/ \E h \in node.headers : ReceiveProposed(h)
       \/ \E h \in blackList : ForgetBlackListed(h)
       \/ ConsensusStartRound
       \/ ConsensusNotSynchronized
       \/ \E h \in node.headers : ConsensusCommit(h)
       \/ SyncNotNeeded
       \/ RollBackOnForcedFork
       \/ StartSync
       \/ RollBackToFork
       \/ RollBackFails
       \/ GetHeader
       \/ SyncCommit
       \/ SyncTimeout
       \/ SyncError

Spec == Init /\ [][Next]_vars
-----------------------------------------------------------------------------
(* Catching up.  Canonical are the headers of the chain the peers agree on. *)

\* The step brings no other header, and nothing in it fails that can succeed
CleanStep(Canonical) ==
    /\ \A h \in Hashes \ Canonical :
          noncePool'[Hdr[h].nonce] = h => noncePool[Hdr[h].nonce] = h
    /\ sync.pc = "rollBack" /\ sync' = Idle => head = GenesisHash
    /\ sync.pc = "getHeader" /\ sync' = Idle => NextHeaders = {}
    /\ sync.pc = "process" /\ sync' = Idle =>
          head' = sync.hdr \/ ~CheckBlockValidity(sync.hdr)
    /\ sync # Idle /\ sync' = Idle /\ timeouts' = 0 /\ CanRollBack => head' # head

\* The clock ticks, the peers answer and repeat, the black list expires and the
\* goroutine of the sync loop runs
Fairness(Canonical) ==
    /\ WF_vars(UpdateRound /\ UNCHANGED node)
    /\ \A h \in Canonical : SF_vars(ReceiveHeader(h) /\ UNCHANGED node)
    /\ WF_vars((\E h \in blackList : ForgetBlackListed(h)) /\ UNCHANGED node)
    /\ WF_vars((StartSync \/ RollBackToFork \/ GetHeader \/ SyncCommit
                 \/ SyncTimeout \/ SyncError) /\ UNCHANGED node)
-----------------------------------------------------------------------------
TypeOK ==
    /\ node \in Nodes
    /\ index \in 1 .. node.lastRound
    /\ head \in Hashes \cup {GenesisHash}
    /\ fd \in [chain : {node.chain}, headers : SUBSET HeaderInfos, checkpoint : Seq(Checkpoints),
               final : Checkpoints, highest : Nat, force : BOOLEAN,
               stuck : BOOLEAN]
    /\ blackList \subseteq Hashes
    /\ pool \subseteq Hashes
    /\ noncePool \in [Nonces -> Hashes \cup {NoHash}]
    /\ store \subseteq Hashes \cup {GenesisHash}
    /\ consensus \in [round : 0 .. node.lastRound, open : BOOLEAN]
    /\ sync \in [pc : {"idle", "rollBack", "getHeader", "process"},
                 hdr : Hashes \cup {NoHash}]
    /\ timeouts \in 0 .. MaxRequestsWithTimeoutAllowed

\* A header and the headers below it
Ancestry[h \in Hashes \cup {GenesisHash}] ==
    IF h = GenesisHash THEN {} ELSE {h} \cup Ancestry[Hdr[h].prev]

\* At most one header of a nonce is recorded as processed: CheckFork compares
\* the others with it, and takes the last one if there were two
OneProcessedPerNonce ==
    \A i, j \in fd.headers :
        i.state = BHProcessed /\ j.state = BHProcessed /\ NonceOf(i) = NonceOf(j)
        => i = j

\* A block at or below the final checkpoint is rolled back only when the
\* metachain notarized a header that is not on the chain of the node: what
\* rollBackOneBlock refuses, through forks, resets and forced roll backs
FinalNotReverted ==
    [][Nonce(head') < Nonce(head) /\ Nonce(head) <= fd.final.nonce =>
         \E i \in fd.headers : /\ i.state = BHNotarized
                               /\ NonceOf(i) <= Nonce(head)
                               /\ i.hash \notin Ancestry[head]]_vars

\* What GetHighestFinalBlockNonce promises: the block "is final and it can not be
\* reverted anymore"
FinalIsFinal == [][Nonce(head') < Nonce(head) => Nonce(head) > fd.final.nonce]_vars

\* The final checkpoint of an observer never goes back, through forks, roll backs
\* and resets
ObserverFinalMonotone ==
    [][~node.inConsensus => fd'.final.nonce >= fd.final.nonce]_vars

\* An observer's fork detector has every block of its chain above the final
\* checkpoint recorded as processed, so that a fork against any of them is seen
ObserverChainIsRecorded ==
    ~node.inConsensus =>
        \A h \in Ancestry[head] :
            Nonce(h) > fd.final.nonce =>
                [hash |-> h, state |-> BHProcessed] \in fd.headers
=============================================================================
