----------------------------- MODULE MCWaiting -----------------------------
(***************************************************************************)
(* What must come about in the end, and what must hold meanwhile: the      *)
(* components of a node that wait for others, one per behaviour.           *)
(***************************************************************************)
EXTENDS MissingData, Interceptors, BnConsensus, Storage, Connections,
        SyncRequests, TLC

-----------------------------------------------------------------------------
(* MissingData *)
CONSTANTS txX, txY, txZ

\* Two blocks that have a transaction in common.
TwoBodies == (1 :> {txX, txY}) @@ (2 :> {txY, txZ})

-----------------------------------------------------------------------------
(* Interceptors: single data and lists of them, good and bad. *)
D(kind, wrong, snd, rcv, nonce) ==
  [kind |-> kind, wrong |-> wrong, snd |-> snd, rcv |-> rcv, nonce |-> nonce, cost |-> 1, parts |-> <<>>]

\* Transactions at and past the account's nonce, one for another shard, one
\* badly signed; two headers of one place; a body with a mini block of others.
SentData ==
  [d \in {"t0", "t2", "tx", "ts", "h1", "h2", "hm", "rf", "r", "u", "ms", "m1", "b"} |->
     CASE d = "t0" -> D("tx", {}, Self, "other", 0)
       [] d = "t2" -> D("tx", {}, Self, Self, 2)
       [] d = "tx" -> D("tx", {}, "other", "third", 0)
       [] d = "ts" -> D("tx", {"sig"}, "other", Self, 0)
       [] d \in {"h1", "h2"} -> D("hdr", {}, Self, Self, 1)
       [] d = "hm" -> D("hdr", {"bytes"}, Self, Self, 1)
       [] d = "rf" -> D("reward", {"fields"}, "other", Self, 0)
       [] d = "r"  -> D("reward", {}, "other", Self, 0)
       [] d = "u"  -> D("scr", {}, "other", Self, 0)
       [] d = "ms" -> D("meta", {"shardInfo"}, "META", "META", 1)
       [] d = "m1" -> D("meta", {}, "META", "META", 1)
       [] d = "b"  -> [D("body", {}, Self, Self, 0) EXCEPT !.parts = << <<"other", "third">>, <<"other", Self>> >>]]

Messages == [txs |-> <<"t0", "ts", "tx">>, rewards |-> <<"r", "rf">>, late |-> <<"t2">>, scrs |-> <<"u">>,
             hdr1 |-> <<"h1">>, hdr2 |-> <<"h2">>, bad |-> <<"hm">>, body |-> <<"b">>,
             meta1 |-> <<"m1">>, meta2 |-> <<"ms">>]
ThreeMessages == {<<"txs", "hdr1", "bad">>, <<"rewards", "late", "body">>, <<"hdr1", "hdr2", "txs">>,
            <<"scrs", "meta1", "meta2">>}

-----------------------------------------------------------------------------
(***************************************************************************)
(* Storage with two keys and one configuration of each kind: those that    *)
(* write each Put at once may have a cache of one entry and lose it, those *)
(* that collect writes keep every key in the cache.                        *)
(***************************************************************************)
Plain == [db |-> "LvlDBSerial", cacheType |-> "LRU", cacheSize |-> 2,
          maxBatchSize |-> 2, bloom |-> FALSE, fails |-> FALSE,
          clears |-> FALSE, restarts |-> FALSE]

UnitSettingsDef ==
    { [Plain EXCEPT !.maxBatchSize = 1, !.cacheSize = 1, !.clears = TRUE],
      Plain,
      [Plain EXCEPT !.restarts = TRUE, !.maxBatchSize = 3],
      [Plain EXCEPT !.db = "LvlDB", !.fails = TRUE, !.cacheType = "FIFOSharded"],
      [Plain EXCEPT !.db = "LvlDB", !.maxBatchSize = 1, !.cacheSize = 1,
                    !.bloom = TRUE, !.clears = TRUE],
      [Plain EXCEPT !.db = "BadgerDB", !.restarts = TRUE],
      [Plain EXCEPT !.db = "BoltDB", !.cacheType = "FIFOSharded",
                    !.cacheSize = 1, !.fails = TRUE, !.clears = TRUE] }

BloomBitsDef == [k \in StoreKeys |-> IF k = "a" THEN {1, 2} ELSE {2, 3}]


-----------------------------------------------------------------------------
(* Connections *)
MCPeerKey == [p \in 1..3 |-> CASE p = 1 -> 1 [] p = 2 -> 6 [] p = 3 -> 4 ]
MCPeerShard == [p \in 1..3 |-> IF p \in {2} THEN 0 ELSE 1]
MCInitialPeers == <<3, 1>>

-----------------------------------------------------------------------------
(* A shard with two blocks, the second with a mini block, and the            *)
(* metachain with one.                                                       *)
SmallNetwork ==
    [h \in {"s1", "s2", "m1"} |->
        CASE h = "s1" -> [shard |-> "shard", nonce |-> 1, prev |-> "nil", parts |-> {}]
          [] h = "s2" -> [shard |-> "shard", nonce |-> 2, prev |-> "s1", parts |-> {"a"}]
          [] h = "m1" -> [shard |-> "meta", nonce |-> 1, prev |-> "nil", parts |-> {"a"}]]

-----------------------------------------------------------------------------
(* SyncRequests: headers of another chain *)
(* Five headers: one per round, or with a round skipped in the middle.     *)
FiveHeaders == {[n \in 1..5 |-> n], [n \in 1..5 |-> IF n > 2 THEN n + 1 ELSE n]}

-----------------------------------------------------------------------------
\* Four members of which one says nothing, in one round
SilentPlan == {[size |-> 4, rounds |-> 1, patient |-> TRUE, silent |-> {4}, failing |-> {}]}
TurnLeader(p, r) == ((r - 1) % p.size) + 1

VARIABLE part   \* the component this behaviour is about

Parts == {"missing", "in", "bn", "store", "conn", "sync", "gaps"}

\* A component this behaviour is not about stays in one initial state.
WaitingInit ==
  /\ part \in Parts
  /\ Init
  /\ InInit /\ (part # "in" => came = CHOOSE c \in Arriving : TRUE)
  /\ BnInit
  /\ StorageInit /\ (part # "store" => setting = Plain)
  /\ ConnInit
  /\ NewBootstrap /\ (part # "sync" => self = "shard" /\ notarized = {})
  /\ GapInit /\ (part # "gaps" => side = "shard" /\ roundOf = CHOOSE r \in OtherChains : TRUE)

\* What the other components do
NotMissing == UNCHANGED <<part, inVars, bnVars, storageVars, connVars, srVars, gapVars>>
NotIn == UNCHANGED <<part, vars, bnVars, storageVars, connVars, srVars, gapVars>>
NotBn == UNCHANGED <<part, vars, inVars, storageVars, connVars, srVars, gapVars>>
NotStore == UNCHANGED <<part, vars, inVars, bnVars, connVars, srVars, gapVars>>
NotConn == UNCHANGED <<part, vars, inVars, bnVars, storageVars, srVars, gapVars>>
NotSync == UNCHANGED <<part, vars, inVars, bnVars, storageVars, connVars, gapVars>>
NotGaps == UNCHANGED <<part, vars, inVars, bnVars, storageVars, connVars, srVars>>

WaitingNext ==
  \/ part = "missing" /\ Next /\ NotMissing
  \/ part = "in" /\ InNext /\ NotIn
  \/ part = "bn" /\ BnNext /\ NotBn
  \/ part = "store" /\ StorageNext /\ NotStore
  \/ part = "conn" /\ ConnNext /\ NotConn
  \/ part = "sync" /\ SyncRequestsNext /\ NotSync
  \/ part = "gaps" /\ GapNext /\ NotGaps

waitingVars == <<part, vars, inVars, bnVars, storageVars, connVars, srVars, gapVars>>

-----------------------------------------------------------------------------
(* The fairness of the components, numbered: a behaviour is about one of   *)
(* them, so an obligation with one number stands for one of each.          *)
MissingWeak(i) ==
  \/ i = 1 /\ \E t \in Txs : AddData(t)
  \/ i = 2 /\ \E t \in Txs : Handle(t)
  \/ i = 3 /\ Process
  \/ i = 4 /\ TimeOut

BnWeak(i) == i \in 1 .. 3 /\ (StartRound(i) \/ Job(i) \/ BnReceive(i))

StoreWeak(i) == (i = 1 /\ TimerSteps) \/ (i = 2 /\ UnitSteps)

ConnWeak(i) ==
  \/ i = 1 /\ \E p \in NetPeers : Handles(p)
  \/ i = 2 /\ connectToOnePeerFromInitialPeersList("boot")
  \/ i = 3 /\ connectToOnePeerFromInitialPeersList("dht")
  \/ i = 4 /\ connectToOnePeerFromInitialPeersList("monitor")
  \/ i = 5 /\ doReconnection
  \/ i = 6 /\ connectToInitialAndBootstrap

SyncWeak(i) ==
  \/ i = 1 /\ SyncStep
  \/ i = 2 /\ RunCallback
  \/ i = 3 /\ ReceiveHdr("s1")
  \/ i = 4 /\ ReceiveHdr("s2")
  \/ i = 5 /\ ReceiveHdr("m1")
  \/ i = 6 /\ ReceivePart("a")

GapWeak(i) ==
  \/ i = 1 /\ CheckGaps
  \/ i = 2 /\ AnswerHeader
  \/ i = 3 /\ AnswerBodies
  \/ i = 4 /\ NotarizeNext
  \/ i = 5 /\ RoundPasses

Weak(i) ==
  \/ part = "missing" /\ MissingWeak(i) /\ NotMissing
  \/ part = "in" /\ i \in InMsgs /\ InterceptMessage(i) /\ NotIn
  \/ part = "bn" /\ BnWeak(i) /\ NotBn
  \/ part = "store" /\ StoreWeak(i) /\ NotStore
  \/ part = "conn" /\ ConnWeak(i) /\ NotConn
  \/ part = "sync" /\ SyncWeak(i) /\ NotSync
  \/ part = "gaps" /\ GapWeak(i) /\ NotGaps

WaitingSpec ==
  /\ WaitingInit /\ [][WaitingNext]_waitingVars
  /\ \A i \in 1 .. 6 : WF_waitingVars(Weak(i))

-----------------------------------------------------------------------------
\* Every block is prepared in the end, however often the wait for its
\* transactions runs out of time (EventuallyPrepared of MissingData).
BlocksPrepared == []<>(part = "missing" => LastPrepared)

\* Three nodes of four commit the block of the round although the fourth says
\* nothing, or the leader left one of them out (RoundSucceeds of BnConsensus).
RoundEnds == []<>(part = "bn" => AllCommitted)

\* What Put acknowledged reaches the database, by a full batch or by the timer
\* (EventuallyDurable of Storage).
WritesDurable == []<>(part = "store" => AllDurable)

\* A node that has lost its last connection gets a new one, whatever signals to
\* the monitor were lost (IsolatedReconnects of Connections).
NodeReconnects == []<>(part = "conn" => connected # {})

\* A node behind the network commits the highest block in the end
\* (SyncCatchesUp of SyncRequests).
SyncEnds == []<>(part = "sync" => tip = Highest)

\* Whatever is lost on the way, a header that reached the pool is notarized in
\* the end with everything below it (GapsAreFilled of SyncRequests).
GapsFilled == []<>(part = "gaps" => NoGap)
=============================================================================
