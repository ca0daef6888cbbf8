---------------------------- MODULE DataRequests ----------------------------
(***************************************************************************)
(* First the topics of the network: what a node of a shard and a node of   *)
(* the metachain intercept, resolve, ask for and broadcast.  A topic is a  *)
(* base name and the communication identifier of two shards; the data that *)
(* travels is an item [kind, snd, rcv]: a transaction, a smart contract    *)
(* result ("scr"), a reward, a mini block ("mb"), a shard header ("hdr",   *)
(* snd = rcv = its shard) or a metachain header ("meta").                  *)
(*                                                                         *)
(* Then one item of data on its way through the network: a node that       *)
(* misses it asks two of the peers its resolver lists, remembers that it   *)
(* asked until a sweep of its time cache, and takes the answer through an  *)
(* interceptor; or the producer of the item broadcasts it.  Messages get   *)
(* lost, links to peers go up and down.                                    *)
(***************************************************************************)
EXTENDS Integers, FiniteSets

CONSTANTS NetShards,    \* the shards, without the metachain
          META          \* sharding.MetachainShardId

ASSUME NetShardsAssumption == META \notin NetShards

AllShards == NetShards \cup {META}

(* The identifier does not depend on which of the two shards the node is in. *)
CommunicationIdentifier(s, d) == {s, d}

Topic(base, s, d) == <<base, CommunicationIdentifier(s, d)>>
MetachainBlocks == <<"metachainBlocks", {}>>
NoTopic == <<"none", {}>>

-----------------------------------------------------------------------------
(* Interceptors: the pairs of a topic and the kind of data taken from it.  *)

OnTopics(base, kind, s, D) == {<<Topic(base, s, d), kind>> : d \in D}

ShardTxInterceptors(s) == OnTopics("transactions", "tx", s, AllShards)
ShardUnsignedTxInterceptors(s) == OnTopics("unsigned", "scr", s, AllShards)
ShardRewardTxInterceptors(s) == OnTopics("rewards", "reward", s, AllShards)
ShardHdrInterceptor(s) == OnTopics("headers", "hdr", s, {s})
ShardMiniBlocksInterceptors(s) == OnTopics("miniBlocks", "mb", s, AllShards)
ShardMetachainHeaderInterceptor == {<<MetachainBlocks, "meta">>}

ShardInterceptors(s) ==
  ShardTxInterceptors(s) \cup ShardUnsignedTxInterceptors(s) \cup ShardRewardTxInterceptors(s)
    \cup ShardHdrInterceptor(s) \cup ShardMiniBlocksInterceptors(s) \cup ShardMetachainHeaderInterceptor

MetaMetablockInterceptor == {<<MetachainBlocks, "meta">>}
MetaShardHeaderInterceptors == OnTopics("shardHeadersForMetachain", "hdr", META, NetShards)
MetaTxInterceptors == OnTopics("transactions", "tx", META, AllShards)
MetaUnsignedTxInterceptors == OnTopics("unsigned", "scr", META, NetShards)
MetaMiniBlocksInterceptors == OnTopics("miniBlocks", "mb", META, AllShards)

MetaInterceptors ==
  MetaMetablockInterceptor \cup MetaShardHeaderInterceptors \cup MetaTxInterceptors
    \cup MetaUnsignedTxInterceptors \cup MetaMiniBlocksInterceptors

Interceptors == [s \in AllShards |-> IF s = META THEN MetaInterceptors ELSE ShardInterceptors(s)]

(* What the intercepted data says of itself: a node keeps what its shard   *)
(* sends or receives; metachain headers are for everyone and the metachain *)
(* keeps the headers of all shards.                                        *)
Mut_IsForCurrentShardHdr(item, s) == item.snd = s
IsForCurrentShardHdr(item, s) == item.snd = s \/ s = META
IsForCurrentShardTx(item, s) == item.snd = s \/ item.rcv = s
IsForCurrentShard(item, s) ==
  CASE item.kind = "meta" -> TRUE
    [] item.kind = "hdr"  -> IsForCurrentShardHdr(item, s)
    [] OTHER              -> IsForCurrentShardTx(item, s)

-----------------------------------------------------------------------------
(* Resolvers: the topic served and answered on, the kind of data served,   *)
(* the topic whose peers are asked, the topic whose peers are left out and *)
(* the shard whose headers are searched by nonce.                          *)

Resolver(topic, kind, peers, excluded, target) ==
  [topic |-> topic, kind |-> kind, peers |-> peers, excluded |-> excluded, target |-> target]

ResolverPerShard(base, kind, s, D) ==
  {Resolver(Topic(base, s, d), kind, Topic(base, s, d), Topic(base, s, s), 0) : d \in D}

ShardTxResolvers(s, base, kind) == ResolverPerShard(base, kind, s, AllShards)
ShardHdrResolver(s) ==
  LET t == Topic("headers", s, s) IN {Resolver(t, "hdr", t, NoTopic, s)}
ShardMiniBlocksResolvers(s) == ResolverPerShard("miniBlocks", "mb", s, AllShards)
ShardPeerChBlockBodyResolver(s) ==
  LET t == Topic("peerChangeBlockBodies", s, s) IN {Resolver(t, "mb", t, NoTopic, s)}
ShardMetachainShardHeaderResolver(s) ==
  LET t == Topic("shardHeadersForMetachain", s, META) IN {Resolver(t, "hdr", t, NoTopic, s)}
ShardMetablockHeaderResolver(s) ==
  {Resolver(MetachainBlocks, "meta", Topic("shardHeadersForMetachain", s, META),
            Topic("transactions", s, s), META)}

ShardResolvers(s) ==
  ShardTxResolvers(s, "transactions", "tx") \cup ShardTxResolvers(s, "unsigned", "scr")
    \cup ShardTxResolvers(s, "rewards", "reward") \cup ShardHdrResolver(s)
    \cup ShardMiniBlocksResolvers(s) \cup ShardPeerChBlockBodyResolver(s)
    \cup ShardMetachainShardHeaderResolver(s) \cup ShardMetablockHeaderResolver(s)

(* No node is ever on the topic the shard header resolvers of the          *)
(* metachain leave out, shardHeadersForMetachain_META.                     *)
MetaShardHeaderResolvers ==
  {Resolver(Topic("shardHeadersForMetachain", META, d), "hdr", Topic("shardHeadersForMetachain", META, d),
            Topic("shardHeadersForMetachain", META, META), d) : d \in NetShards}
MetaChainHeaderResolvers ==
  {Resolver(MetachainBlocks, "meta", MetachainBlocks, NoTopic, META)}
MetaTxResolvers(base, kind) == ResolverPerShard(base, kind, META, AllShards)
MetaMiniBlocksResolvers == ResolverPerShard("miniBlocks", "mb", META, AllShards)

MetaResolvers ==
  MetaShardHeaderResolvers \cup MetaChainHeaderResolvers \cup MetaTxResolvers("transactions", "tx")
    \cup MetaTxResolvers("unsigned", "scr") \cup MetaMiniBlocksResolvers

Resolvers == [s \in AllShards |-> IF s = META THEN MetaResolvers ELSE ShardResolvers(s)]

(* The topics a node joins: those it intercepts and, in a shard, the one   *)
(* it sends its headers to the metachain on.                               *)
createTopicHeadersForMetachain(s) ==
  IF s = META THEN {} ELSE {Topic("shardHeadersForMetachain", s, META)}
JoinedTopics == [s \in AllShards |-> {i[1] : i \in Interceptors[s]} \cup createTopicHeadersForMetachain(s)]

-----------------------------------------------------------------------------
(* The pre-processors of a node, by kind of the mini block's content.      *)
ShardPreProcessors == {"tx", "scr", "reward"}
MetaPreProcessors == {"tx", "scr"}
PreProcessors(s) == IF s = META THEN MetaPreProcessors ELSE ShardPreProcessors

(* The kinds of intermediate results: what a node makes while processing.  *)
ShardInterimProcessors == {"scr", "reward"}
MetaInterimProcessors == {"scr"}
InterimProcessors(s) == IF s = META THEN MetaInterimProcessors ELSE ShardInterimProcessors

(* The topic the content of a mini block for shard d is broadcast on.      *)
createBroadcastTopic(kind, s, d) ==
  CASE kind = "tx"     -> Topic("transactions", s, d)
    [] kind = "scr"    -> Topic("unsigned", s, d)
    [] kind = "reward" -> Topic("rewards", s, d)

(* What a node of shard s publishes of a block: its header, its mini       *)
(* blocks to its own shard, and to another shard the mini blocks for it    *)
(* with their content.                                                     *)
ShardBroadcastBlock(item, s) ==
  CASE item.kind = "hdr" -> {Topic("headers", s, s)}
    [] item.kind = "mb"  -> {Topic("miniBlocks", s, s)}
    [] OTHER             -> {}
MetaBroadcastBlock(item) ==
  CASE item.kind = "meta" -> {MetachainBlocks}
    [] item.kind = "mb"   -> {Topic("miniBlocks", META, META)}
    [] OTHER              -> {}
BroadcastShardHeader(item, s) ==
  IF item.kind = "hdr" /\ s # META THEN {Topic("shardHeadersForMetachain", s, META)} ELSE {}
BroadcastMiniBlocks(item, s) ==
  IF item.kind = "mb" /\ item.rcv # s THEN {Topic("miniBlocks", s, item.rcv)} ELSE {}
CreateMarshalizedData(item, s) ==
  IF item.kind \in PreProcessors(s) \cup InterimProcessors(s) /\ item.rcv # s
    THEN {createBroadcastTopic(item.kind, s, item.rcv)} ELSE {}

Published(item, s) ==
  (IF s = META THEN MetaBroadcastBlock(item) ELSE ShardBroadcastBlock(item, s))
    \cup BroadcastShardHeader(item, s) \cup BroadcastMiniBlocks(item, s)
    \cup CreateMarshalizedData(item, s)

-----------------------------------------------------------------------------
(* The topic a node of shard s asks for an item on, by the way it asks:    *)
(* "hash" and "nonce" through the request handler, "sync" through the      *)
(* resolvers the bootstrapper took when it started.                        *)

requestByHashes(item, s) ==
  CASE item.kind = "tx"     -> Topic("transactions", s, item.snd)
    [] item.kind = "scr"    -> Topic("unsigned", s, item.snd)
    [] item.kind = "reward" -> Topic("rewards", s, item.snd)
RequestMiniBlock(item, s) == Topic("miniBlocks", s, item.snd)
RequestHeader(item, s) ==
  IF item.kind = "meta" THEN MetachainBlocks
  ELSE Topic(IF s = META THEN "shardHeadersForMetachain" ELSE "headers", s, item.snd)
RequestHeaderByNonce(item, s) ==
  IF s = META THEN Topic("shardHeadersForMetachain", s, item.snd) ELSE MetachainBlocks
SyncResolver(item, s) ==
  CASE item.kind = "mb"  -> Topic("miniBlocks", s, s)
    [] item.kind = "hdr" -> Topic("headers", s, s)
    [] OTHER             -> MetachainBlocks

RequestTopic(item, way, s) ==
  IF way = "sync" THEN SyncResolver(item, s)
  ELSE IF way = "nonce" THEN RequestHeaderByNonce(item, s)
  ELSE CASE item.kind = "mb"              -> RequestMiniBlock(item, s)
         [] item.kind \in {"hdr", "meta"} -> RequestHeader(item, s)
         [] OTHER                         -> requestByHashes(item, s)

-----------------------------------------------------------------------------
(* One item on its way                                                     *)

CONSTANTS NetNodes,       \* the nodes
          Askers,         \* the nodes that may want an item
          shardOf,        \* the shard of every node
          RequestSpan,    \* ticks before a requested item may be swept
          SweepSpan,      \* ticks between two sweeps
          MaxDown         \* links that are down at a time

ASSUME NetNodesAssumption == shardOf \in [NetNodes -> AllShards] /\ Askers \subseteq NetNodes

VARIABLES want,       \* who wants what and how it asks for it
          holders,    \* the nodes that have the item in a pool or in storage
          askedAge,   \* ticks since the item entered requestedItemsHandler, -1: absent
          sweepAge,   \* ticks since the last sweep
          wire,       \* messages under way
          peersUp,  \* the peers the asking node is connected to
          unhandled   \* requests and answers no resolver or interceptor took

netVars == <<want, holders, askedAge, sweepAge, wire, peersUp, unhandled>>

NumPeersToQuery == 2
RouteKinds == {"tx", "scr", "reward", "mb", "hdr", "meta"}
Routes == {[kind |-> k, snd |-> s, rcv |-> d] : k \in RouteKinds, s \in AllShards, d \in AllShards}

(* The items that exist: rewards are made by shards for shards, a header   *)
(* belongs to one shard.                                                   *)
Items == {i \in Routes : /\ i.kind = "reward" => META \notin {i.snd, i.rcv}
                         /\ i.kind = "hdr" => i.snd = i.rcv /\ i.snd # META
                         /\ i.kind = "meta" => i.snd = META /\ i.rcv = META}

(* The pre-processors, the coordinator and the block processors ask for    *)
(* what their shard receives from another one and for the transactions it  *)
(* sends; a header is asked for by its shard and by the metachain, a metachain      *)
(* header by everyone.  Headers of the other chain are also asked for by   *)
(* nonce.  The bootstrapper asks its own shard.  In the last case the node *)
(* only waits for a broadcast.                                             *)
Wanted(n, item, way) ==
  LET s == shardOf[n] IN
  CASE way = "hash"  -> \/ item.kind = "meta"
                        \/ item.kind = "hdr" /\ (item.snd = s \/ s = META)
                        \/ item.kind \in {"tx", "scr", "reward", "mb"} /\ item.snd # item.rcv /\ item.rcv = s
                        \/ item.kind = "tx" /\ item.snd = s
    [] way = "nonce" -> item.kind = IF s = META THEN "hdr" ELSE "meta"
    [] way = "sync"  -> \/ item.kind = "mb" /\ s \in {item.snd, item.rcv}
                        \/ item.kind = "hdr" /\ item.snd = s
                        \/ item.kind = "meta" /\ s = META
    [] way = "gossip" -> IsForCurrentShard(item, s)

Ways == {"hash", "nonce", "sync", "gossip"}
Asker == want.node
AskTopic == RequestTopic(want.item, want.way, shardOf[Asker])

Wants == {w \in [node : Askers, item : Items, way : Ways] : Wanted(w.node, w.item, w.way)}

NetInit ==
  /\ want \in Wants
  /\ holders \in {H \in SUBSET (NetNodes \ {want.node}) :
                    /\ Cardinality(H) \in 0 .. 1
                    /\ \A n \in H : IsForCurrentShard(want.item, shardOf[n])}
  /\ askedAge = -1 /\ sweepAge = 0
  /\ wire = {}
  /\ peersUp = NetNodes \ {want.node}
  /\ unhandled = {}

ConnectedPeersOnTopic(topic) == {m \in peersUp : topic \in JoinedTopics[shardOf[m]]}

(* The peers on the resolver's topic without those on the excluded one,    *)
(* all of them when nobody is left.                                        *)
PeerList(r) ==
  LET all == ConnectedPeersOnTopic(r.peers)
      diff == all \ ConnectedPeersOnTopic(r.excluded)
  IN  IF diff = {} THEN all ELSE diff

(* sweepIfNeeded, then TimeCache.Sweep: the item's age after it.           *)
SweptAge == IF sweepAge > SweepSpan /\ askedAge > RequestSpan THEN -1 ELSE askedAge

Msg(to, type) == [to |-> to, type |-> type, topic |-> AskTopic]

(* SendOnRequestTopic: the order of the peer list is the order the         *)
(* messenger happens to list them in; an empty list is an error.           *)
SendOnRequestTopic(r, P) ==
  /\ P \subseteq PeerList(r)
  /\ Cardinality(P) = IF Cardinality(PeerList(r)) < NumPeersToQuery
                        THEN Cardinality(PeerList(r)) ELSE NumPeersToQuery
  /\ wire' = wire \cup {Msg(m, "request") : m \in P}

(* requestByHashes marks the hashes before it looks for a resolver and     *)
(* sends; the other requests mark the item once it was sent.  The          *)
(* bootstrapper uses its resolver directly.                                *)
AskForData(P) ==
  LET topic == AskTopic
      found == {r \in Resolvers[shardOf[Asker]] : r.topic = topic}
      marksFirst == want.item.kind \in {"tx", "scr", "reward"}
  IN
  /\ Asker \notin holders /\ want.way # "gossip"
  /\ want.way = "sync" => UNCHANGED <<askedAge, sweepAge>>
  /\ want.way # "sync" => sweepAge' = IF sweepAge > SweepSpan THEN 0 ELSE sweepAge
  /\ IF want.way # "sync" /\ SweptAge # -1
       THEN P = {} /\ askedAge' = SweptAge /\ UNCHANGED <<wire, unhandled>>
       ELSE /\ IF found = {}
                 THEN P = {} /\ UNCHANGED wire /\ unhandled' = unhandled \cup {AskTopic}
                 ELSE (\E r \in found : SendOnRequestTopic(r, P)) /\ UNCHANGED unhandled
            /\ want.way # "sync" => askedAge' = IF marksFirst \/ P # {} THEN 0 ELSE -1
  /\ UNCHANGED <<want, holders, peersUp>>

(* The type of a request: transactions, and the mini blocks of a body that *)
(* is synchronized, are asked for by a list of hashes.                     *)
HeaderRequestType == IF want.way = "nonce" THEN "NonceType" ELSE "HashType"
BodyRequestType == IF want.way = "sync" THEN "HashArrayType" ELSE "HashType"
RequestType == CASE want.item.kind \in {"hdr", "meta"} -> HeaderRequestType
                 [] want.item.kind = "mb" -> BodyRequestType
                 [] OTHER -> "HashArrayType"

(* What a resolver can answer.  A header asked for by nonce is found only  *)
(* under the resolver's own shard.                                         *)
resolveHeaderFromNonce(r) == r.target = want.item.snd
HeaderResolves(r) == \/ RequestType = "HashType"
                     \/ RequestType = "NonceType" /\ resolveHeaderFromNonce(r)
BodyResolves == RequestType \in {"HashType", "HashArrayType"}
TxResolves == RequestType \in {"HashType", "HashArrayType"}

(* directMessageHandler gives the request to the resolver of the topic,    *)
(* which sends what it has back to the asking node.                        *)
Resolves(m, r) == /\ m \in holders /\ r.kind = want.item.kind
                  /\ CASE r.kind \in {"hdr", "meta"} -> HeaderResolves(r)
                       [] r.kind = "mb" -> BodyResolves
                       [] OTHER -> TxResolves
ProcessRequest(m) ==
  LET msg == Msg(m, "request")
      found == {r \in Resolvers[shardOf[m]] : r.topic = msg.topic}
      answers == {Msg(Asker, "data") : r \in {f \in found : Resolves(m, f) /\ m \in peersUp}}
  IN
  /\ msg \in wire
  /\ wire' = (wire \ {msg}) \cup answers
  /\ unhandled' = IF found = {} THEN unhandled \cup {msg.topic} ELSE unhandled
  /\ UNCHANGED <<want, holders, askedAge, sweepAge, peersUp>>

(* The interceptor of the topic takes the item if it is of its kind and    *)
(* for this shard.                                                         *)
Accepts(n, topic) ==
  /\ <<topic, want.item.kind>> \in Interceptors[shardOf[n]]
  /\ IsForCurrentShard(want.item, shardOf[n])
ReceiveData(n) ==
  \E msg \in {w \in wire : w.to = n /\ w.type = "data"} :
    /\ wire' = wire \ {msg}
    /\ holders' = IF Accepts(n, msg.topic) THEN holders \cup {n} ELSE holders
    /\ unhandled' = IF \E i \in Interceptors[shardOf[n]] : i[1] = msg.topic
                      THEN unhandled ELSE unhandled \cup {msg.topic}
    /\ UNCHANGED <<want, askedAge, sweepAge, peersUp>>

(* A producer of the item publishes it; the gossip of a topic reaches the  *)
(* nodes on it and those without an interceptor only pass it on.           *)
BroadcastOwn(n) ==
  /\ n \in holders /\ shardOf[n] = want.item.snd
  /\ wire = {} /\ Asker \notin holders /\ want.way = "gossip"
  /\ wire' = UNION {{[to |-> m, type |-> "data", topic |-> t] :
                       m \in {p \in NetNodes \ {n} : t \in {i[1] : i \in Interceptors[shardOf[p]]}}} :
                    t \in Published(want.item, shardOf[n])}
  /\ UNCHANGED <<want, holders, askedAge, sweepAge, peersUp, unhandled>>

Lose(msg) == wire' = wire \ {msg} /\ UNCHANGED <<want, holders, askedAge, sweepAge, peersUp, unhandled>>
Link(m) == /\ m # Asker /\ want.way # "gossip"
           /\ m \in peersUp => Cardinality(NetNodes \ peersUp) <= MaxDown
           /\ peersUp' = (peersUp \cup {m}) \ (peersUp \cap {m})
           /\ UNCHANGED <<want, holders, askedAge, sweepAge, wire, unhandled>>
NetTick == /\ askedAge' = IF askedAge = -1 \/ askedAge > RequestSpan THEN askedAge ELSE askedAge + 1
           /\ sweepAge' = IF sweepAge > SweepSpan THEN sweepAge ELSE sweepAge + 1
           /\ want.way \in {"hash", "nonce"}
           /\ <<askedAge, sweepAge>>' # <<askedAge, sweepAge>>
           /\ UNCHANGED <<want, holders, wire, peersUp, unhandled>>

NetNext == \/ \E P \in SUBSET NetNodes : AskForData(P)
           \/ \E m \in NetNodes : ProcessRequest(m) \/ ReceiveData(m) \/ BroadcastOwn(m) \/ Link(m)
           \/ \E msg \in wire : Lose(msg)
           \/ NetTick

NetSpec == NetInit /\ [][NetNext]_netVars

(* Rounds go by and the missing item is asked for again in each of them;   *)
(* the messenger lists its peers in an order that changes, so a peer that  *)
(* can be asked is asked in the end; a message sent again and again gets   *)
(* through in the end.                                                     *)
NetFairness == /\ WF_netVars(NetTick)
               /\ SF_netVars(\E P \in SUBSET NetNodes : P \cap holders # {} /\ AskForData(P))
               /\ \A m \in NetNodes : SF_netVars(ProcessRequest(m)) /\ SF_netVars(ReceiveData(m))

-----------------------------------------------------------------------------
(* Every request the processors and the bootstrapper make finds a resolver *)
(* in the container of the asking node, and every request and answer sent  *)
(* to a peer finds a resolver or an interceptor registered there: the      *)
(* containers of the two kinds of nodes agree on the topics.               *)
NothingUnhandled == unhandled = {}

(* An answer on its way to the asking node is data its interceptor takes:  *)
(* of the right kind and for its shard, so the retry loop can end.         *)
AnswerIsKept ==
  \A w \in wire : w.type = "data" /\ w.to = Asker /\ w.topic = AskTopic => Accepts(Asker, w.topic)

(* Data of another shard is asked from the nodes of that shard as long as  *)
(* one of them is connected, never from nodes of the own shard, which miss *)
(* it for the same reason.  Two cases are left out, in which the metachain *)
(* also asks its own nodes because nobody is on the topic its resolver     *)
(* excludes: shard headers, and smart contract results, for which the      *)
(* metachain has no interceptor on unsigned_META.                          *)
AskedWhereProduced ==
  [][ \A m \in NetNodes :
        /\ Msg(m, "request") \in wire' \ wire
        /\ want.way # "sync" /\ want.item.snd # shardOf[Asker] /\ want.item.kind # "hdr"
        /\ ~ (want.item.kind = "scr" /\ shardOf[Asker] = META)
        /\ \E p \in peersUp : shardOf[p] = want.item.snd
        => shardOf[m] = want.item.snd ]_netVars

(* Who has to get a broadcast item: the shard it is for, the shard of a    *)
(* mini block itself, the shard of a header and the metachain, everyone    *)
(* for a metachain header.                                                 *)
Addressee(m) ==
  LET s == shardOf[m] IN
  CASE want.item.kind = "meta" -> TRUE
    [] want.item.kind = "hdr"  -> s \in {want.item.snd, META}
    [] want.item.kind = "mb"   -> s \in {want.item.snd, want.item.rcv}
    [] OTHER                   -> s = want.item.rcv /\ s # want.item.snd

(* What a proposer publishes of its block reaches every addressee on a     *)
(* topic that node intercepts, as data it keeps.                           *)
BroadcastIsKept ==
  [][ \A n, m \in NetNodes :
        BroadcastOwn(n) /\ n # m /\ Addressee(m)
          => \E w \in wire' : w.to = m /\ w.type = "data" /\ Accepts(m, w.topic) ]_netVars

(* If from some point on a peer the resolver lists has the item, the node  *)
(* gets it, whatever messages are lost and although it asks again only     *)
(* after the sweep of the requested items.                                 *)
ListedHolder ==
  \E r \in Resolvers[shardOf[Asker]] : r.topic = AskTopic /\ holders \cap PeerList(r) # {}
EventuallyHeld == <>[](want.way # "gossip" /\ ListedHolder) => []<>(Asker \in holders)

=============================================================================
