------------------------------- MODULE MCNode -------------------------------
(***************************************************************************)
(* What a node keeps and what it exchanges with others, one component per  *)
(* behaviour: tries, databases, the hook of the virtual machine, metrics,  *)
(* heartbeats, the messenger, direct messages, transactions sent in bulk,  *)
(* requests for data and the channels of the consensus worker.             *)
(***************************************************************************)
EXTENDS Trie, DataStore, VmHook, StatusMetrics, Heartbeat, Messenger,
        DirectSender, BulkSender, DataRequests, WorkerChannels

CONSTANT NodeParts   \* the components this run is about

KeysDef == {<<0, 0>>, <<0, 1>>, <<1, 1>>, <<0, 0, 1, 0>>, <<0, 0, 1, 1>>}

MCCastTopic == [m \in Casts |-> IF m = "c" THEN "t2" ELSE "t1"]

MCPeerOf == [s \in Sendings |-> IF s = "s3" THEN "q" ELSE "p"]

-----------------------------------------------------------------------------
(* Transactions of one size or another, one of them refused, with their    *)
(* place in the call.                                                      *)
Kinds == {[shard |-> 0, size |-> z, valid |-> TRUE] : z \in {1, 3, 5}}
           \union {[shard |-> 1, size |-> 3, valid |-> TRUE], [shard |-> 0, size |-> 1, valid |-> FALSE]}

Placed(kinds) == [i \in DOMAIN kinds |-> kinds[i] @@ [at |-> i]]

OneShard == [shard |-> 0, size |-> 2, valid |-> TRUE]

(* A bulk of up to two transactions next to a generated one or a single   *)
(* transaction.                                                            *)
BulkPlans ==
    {[c \in {"a", "b"} |->
        IF c = "a" THEN [kind |-> "bulk", txs |-> Placed(k)]
        ELSE o] :
       k \in UNION {[1..n -> Kinds] : n \in 0..2},
       o \in {[kind |-> "generate", txs |-> Placed(<<OneShard, OneShard, OneShard>>)],
              [kind |-> "single", txs |-> Placed(<<[OneShard EXCEPT !.valid = FALSE]>>)]}}

-----------------------------------------------------------------------------
CONSTANTS nodeA, nodeB, nodeC, nodeM

\* Two nodes in shard 0, one in shard 1 and one in the metachain.
NodeShards == [n \in {nodeA, nodeB, nodeC, nodeM} |-> CASE n \in {nodeA, nodeB} -> 0 [] n = nodeC -> 1 [] OTHER -> META]

\* A block of a first round and a signature of a second.
Message(k, r) == [mtype |-> k, mround |-> r, from |-> "a"]
FewMessages == {Message(2, 1), Message(3, 2)}

-----------------------------------------------------------------------------
VARIABLE part   \* the component this behaviour is about

\* A component this behaviour is not about stays in one initial state.
NodeInit ==
  /\ part \in NodeParts
  /\ TrieInit /\ (part # "trie" => root = Nil)
  /\ DataStoreInit
  /\ NewBlockChainHookImpl /\ (part # "hook" => ledger = CHOOSE l \in [LocalAddresses -> Amounts] : TRUE)
  /\ NewStatusMetrics /\ (part # "metrics" => role = "shard" /\ prompt = TRUE)
  /\ HeartbeatInit /\ (part # "beats" => genesis = 0)
  /\ MsgrInit
  /\ DirectInit
  /\ SendInit /\ (part # "bulk" => requests = CHOOSE p \in SendPlans : TRUE)
  /\ NetInit /\ (part # "net" => want = (CHOOSE w \in Wants : TRUE) /\ holders = {})
  /\ NewWorker

StateSteps ==
  \/ part = "trie" /\ TrieNext /\ UNCHANGED <<dataStoreVars, hookVars, smVars>>
  \/ part = "units" /\ DataStoreNext /\ UNCHANGED <<trieVars, hookVars, smVars>>
  \/ part = "hook" /\ HookNext /\ UNCHANGED <<trieVars, dataStoreVars, smVars>>
  \/ part = "metrics" /\ MetricsNext /\ UNCHANGED <<trieVars, dataStoreVars, hookVars>>

PeerSteps ==
  \/ part = "beats" /\ HeartbeatNext /\ UNCHANGED <<msgrVars, directVars, bulkVars, netVars, wcVars>>
  \/ part = "messenger" /\ MsgrNext /\ UNCHANGED <<hbVars, directVars, bulkVars, netVars, wcVars>>
  \/ part = "direct" /\ DirectNext /\ UNCHANGED <<hbVars, msgrVars, bulkVars, netVars, wcVars>>
  \/ part = "bulk" /\ SendNext /\ UNCHANGED <<hbVars, msgrVars, directVars, netVars, wcVars>>
  \/ part = "net" /\ NetNext /\ UNCHANGED <<hbVars, msgrVars, directVars, bulkVars, wcVars>>
  \/ part = "worker" /\ WorkerNext /\ UNCHANGED <<hbVars, msgrVars, directVars, bulkVars, netVars>>

stateVars == <<trieVars, dataStoreVars, hookVars, smVars>>
peerVars == <<hbVars, msgrVars, directVars, bulkVars, netVars, wcVars>>

NodeNext ==
  \/ StateSteps /\ UNCHANGED <<part, peerVars>>
  \/ PeerSteps /\ UNCHANGED <<part, stateVars>>

NodeSpec == NodeInit /\ [][NodeNext]_<<part, stateVars, peerVars>>

-----------------------------------------------------------------------------
\* What a node reports is right: the total of processed transactions follows
\* the chain through roll backs and restarts (TotalFollowsChain of
\* StatusMetrics), and up and down time together are all the time a peer was
\* watched (AllTimeCounted of Heartbeat).
ReportsAreRight == TotalFollowsChain /\ AllTimeCounted

\* What a node sends on its own account goes out once and whole: every accepted
\* transaction of a bulk is in one packet (EachSentOnce of BulkSender), and one
\* call at a time writes to the stream of a peer (OneWriterPerPeer of
\* DirectSender).
SendingIsExact == EachSentOnce /\ OneWriterPerPeer
=============================================================================
