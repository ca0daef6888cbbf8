----------------------------- MODULE NodeProofs -----------------------------
(***************************************************************************)
(* TLAPS proofs about parts of a node that work side by side, for any      *)
(* shards, nodes, topics, peers, accounts and bounds.                      *)
(*   DataRequests: the interceptors and resolvers of the nodes agree on    *)
(*   the topics, so that requests are answered and broadcasts are kept.    *)
(*   DataStore: the units of a shard node do not share databases.          *)
(*   VmHook: a contract sees the temporary account of its own sender.      *)
(*   Messenger: the throttler counts the broadcasts under way.             *)
(***************************************************************************)
EXTENDS Messenger, VmHook, DataStore, DataRequests, TLAPS

-----------------------------------------------------------------------------
(* The containers of interceptors and resolvers                            *)

LEMMA ShardsApart == \A s \in AllShards : s = META \/ (s \in NetShards /\ s # META)
BY NetShardsAssumption, Zenon DEF AllShards

LEMMA SamePair ==
  \A a, b, c, d : {a, b} = {c, d} <=> (a = c /\ b = d) \/ (a = d /\ b = c)
OBVIOUS

\* The topics of the interceptors of a node of a shard, and of the metachain.
LEMMA ShardTakes ==
  ASSUME NEW s \in NetShards, NEW d \in AllShards
  PROVE  /\ <<Topic("transactions", s, d), "tx">> \in Interceptors[s]
         /\ <<Topic("unsigned", s, d), "scr">> \in Interceptors[s]
         /\ <<Topic("rewards", s, d), "reward">> \in Interceptors[s]
         /\ <<Topic("miniBlocks", s, d), "mb">> \in Interceptors[s]
         /\ <<Topic("headers", s, s), "hdr">> \in Interceptors[s]
         /\ <<MetachainBlocks, "meta">> \in Interceptors[s]
<1>1. s \in AllShards /\ s # META
  BY NetShardsAssumption, Zenon DEF AllShards
<1>2. Interceptors[s] = ShardInterceptors(s)
  BY <1>1, Zenon DEF Interceptors
<1> QED BY <1>2, Zenon DEF ShardInterceptors, ShardTxInterceptors, ShardUnsignedTxInterceptors,
      ShardRewardTxInterceptors, ShardHdrInterceptor, ShardMiniBlocksInterceptors,
      ShardMetachainHeaderInterceptor, OnTopics

LEMMA MetaTakes ==
  /\ \A d \in AllShards : /\ <<Topic("transactions", META, d), "tx">> \in Interceptors[META]
                          /\ <<Topic("miniBlocks", META, d), "mb">> \in Interceptors[META]
  /\ \A d \in NetShards : /\ <<Topic("unsigned", META, d), "scr">> \in Interceptors[META]
                          /\ <<Topic("shardHeadersForMetachain", META, d), "hdr">> \in Interceptors[META]
  /\ <<MetachainBlocks, "meta">> \in Interceptors[META]
<1>1. META \in AllShards
  BY Zenon DEF AllShards
<1>2. Interceptors[META] = MetaInterceptors
  BY <1>1, Zenon DEF Interceptors
<1> QED BY <1>2, Zenon DEF MetaInterceptors, MetaMetablockInterceptor, MetaShardHeaderInterceptors,
      MetaTxInterceptors, MetaUnsignedTxInterceptors, MetaMiniBlocksInterceptors, OnTopics

\* And no others.
TakenByShard(s, i) ==
  \/ \E d \in AllShards : \/ i = <<Topic("transactions", s, d), "tx">>
                          \/ i = <<Topic("unsigned", s, d), "scr">>
                          \/ i = <<Topic("rewards", s, d), "reward">>
                          \/ i = <<Topic("miniBlocks", s, d), "mb">>
  \/ i = <<Topic("headers", s, s), "hdr">>
  \/ i = <<MetachainBlocks, "meta">>

TakenByMeta(i) ==
  \/ \E d \in AllShards : \/ i = <<Topic("transactions", META, d), "tx">>
                          \/ i = <<Topic("miniBlocks", META, d), "mb">>
  \/ \E d \in NetShards : \/ i = <<Topic("unsigned", META, d), "scr">>
                          \/ i = <<Topic("shardHeadersForMetachain", META, d), "hdr">>
  \/ i = <<MetachainBlocks, "meta">>

LEMMA ShardTakesOnly ==
  ASSUME NEW s \in NetShards, NEW i \in Interceptors[s]
  PROVE  TakenByShard(s, i)
<1>1. s \in AllShards /\ s # META
  BY NetShardsAssumption, Zenon DEF AllShards
<1>2. Interceptors[s] = ShardInterceptors(s)
  BY <1>1, Zenon DEF Interceptors
<1> QED BY <1>2, Zenon DEF TakenByShard, ShardInterceptors, ShardTxInterceptors, ShardUnsignedTxInterceptors,
      ShardRewardTxInterceptors, ShardHdrInterceptor, ShardMiniBlocksInterceptors,
      ShardMetachainHeaderInterceptor, OnTopics

LEMMA MetaTakesOnly ==
  ASSUME NEW i \in Interceptors[META]
  PROVE  TakenByMeta(i)
<1>1. META \in AllShards
  BY Zenon DEF AllShards
<1>2. Interceptors[META] = MetaInterceptors
  BY <1>1, Zenon DEF Interceptors
<1> QED BY <1>2, Zenon DEF TakenByMeta, MetaInterceptors, MetaMetablockInterceptor, MetaShardHeaderInterceptors,
      MetaTxInterceptors, MetaUnsignedTxInterceptors, MetaMiniBlocksInterceptors, OnTopics

-----------------------------------------------------------------------------
(* What is asked for                                                       *)

LEMMA ItemFacts ==
  ASSUME NEW item \in Items
  PROVE  /\ item.kind \in RouteKinds /\ item.snd \in AllShards /\ item.rcv \in AllShards
         /\ item.kind = "reward" => item.snd # META /\ item.rcv # META
         /\ item.kind = "hdr" => item.snd = item.rcv /\ item.snd # META
         /\ item.kind = "meta" => item.snd = META /\ item.rcv = META
BY DEF Items, Routes

LEMMA WantFacts ==
  ASSUME NEW w \in Wants
  PROVE  /\ w.node \in NetNodes /\ shardOf[w.node] \in AllShards /\ w.item \in Items /\ w.way \in Ways
         /\ Wanted(w.node, w.item, w.way)
BY NetNodesAssumption DEF Wants

\* What a node asks for is for its shard.
LEMMA WantedIsForShard ==
  ASSUME NEW w \in Wants
  PROVE  IsForCurrentShard(w.item, shardOf[w.node])
<1>1. PICK s, item : s = shardOf[w.node] /\ item = w.item /\ item \in Items
  BY WantFacts, Zenon
<1>2. item.kind \in RouteKinds
  BY <1>1, ItemFacts, Zenon
<1>3. Wanted(w.node, item, w.way) /\ w.way \in Ways
  BY <1>1, WantFacts, Zenon
<1> QED BY <1>1, <1>2, <1>3, ItemFacts, Zenon DEF Wanted, Ways, IsForCurrentShard, IsForCurrentShardHdr, IsForCurrentShardTx, RouteKinds

\* The topics a node asks on.
AskedAs(item, way, s, T) ==
  \/ item.kind = "tx" /\ T = Topic("transactions", s, item.snd)
  \/ item.kind = "scr" /\ T = Topic("unsigned", s, item.snd) /\ item.snd # s
  \/ item.kind = "reward" /\ T = Topic("rewards", s, item.snd) /\ s # META
  \/ item.kind = "mb" /\ T = Topic("miniBlocks", s, item.snd)
  \/ item.kind = "mb" /\ T = Topic("miniBlocks", s, s) /\ way = "sync"
  \/ item.kind = "hdr" /\ s = META /\ T = Topic("shardHeadersForMetachain", META, item.snd)
  \/ item.kind = "hdr" /\ s # META /\ T = Topic("headers", s, s) /\ item.snd = s
  \/ item.kind = "meta" /\ T = MetachainBlocks

LEMMA AskedOn ==
  ASSUME NEW w \in Wants, w.way # "gossip", NEW s, s = shardOf[w.node], NEW item, item = w.item,
         NEW T, T = RequestTopic(item, w.way, s)
  PROVE  AskedAs(item, w.way, s, T)
<1>1. /\ s \in AllShards /\ item \in Items /\ w.way \in {"hash", "nonce", "sync"}
      /\ Wanted(w.node, item, w.way)
  BY WantFacts DEF Ways
<1>2. PICK k, a, b : k = item.kind /\ a = item.snd /\ b = item.rcv
  BY Zenon
<1>3. /\ k \in {"tx", "scr", "reward", "mb", "hdr", "meta"}
      /\ k = "reward" => a # META /\ b # META
      /\ k = "hdr" => a = b /\ a # META
  BY <1>1, <1>2, ItemFacts DEF RouteKinds
<1>4. CASE w.way = "hash"
  <2>1. \/ k = "meta"
        \/ k = "hdr" /\ (a = s \/ s = META)
        \/ k \in {"tx", "scr", "reward", "mb"} /\ a # b /\ b = s
        \/ k = "tx" /\ a = s
    BY <1>1, <1>2, <1>4 DEF Wanted
  <2>2. /\ k = "meta" => T = MetachainBlocks
        /\ k = "hdr" => T = IF s = META THEN Topic("shardHeadersForMetachain", s, a) ELSE Topic("headers", s, a)
        /\ k = "mb" => T = Topic("miniBlocks", s, a)
        /\ k = "tx" => T = Topic("transactions", s, a)
        /\ k = "scr" => T = Topic("unsigned", s, a)
        /\ k = "reward" => T = Topic("rewards", s, a)
    BY <1>2, <1>4, Zenon DEF RequestTopic, RequestMiniBlock, RequestHeader, requestByHashes
  <2> QED BY <1>2, <1>3, <2>1, <2>2 DEF AskedAs
<1>5. CASE w.way = "nonce"
  <2>1. k = IF s = META THEN "hdr" ELSE "meta"
    BY <1>1, <1>2, <1>5 DEF Wanted
  <2>2. T = IF s = META THEN Topic("shardHeadersForMetachain", s, a) ELSE MetachainBlocks
    BY <1>2, <1>5 DEF RequestTopic, RequestHeaderByNonce
  <2> QED BY <1>2, <2>1, <2>2 DEF AskedAs
<1>6. CASE w.way = "sync"
  <2>1. k = "mb" \/ (k = "hdr" /\ a = s) \/ k = "meta"
    BY <1>1, <1>2, <1>6 DEF Wanted
  <2>2. /\ k = "mb" => T = Topic("miniBlocks", s, s)
        /\ k = "hdr" => T = Topic("headers", s, s)
        /\ k = "meta" => T = MetachainBlocks
    BY <1>2, <1>6 DEF RequestTopic, SyncResolver
  <2> QED BY <1>2, <1>3, <1>6, <2>1, <2>2 DEF AskedAs
<1> QED BY <1>1, <1>4, <1>5, <1>6, Zenon

\* The answer comes on a topic the asking node takes this kind of data from.
LEMMA AskedIsIntercepted ==
  ASSUME NEW w \in Wants, w.way # "gossip"
  PROVE  <<RequestTopic(w.item, w.way, shardOf[w.node]), w.item.kind>> \in Interceptors[shardOf[w.node]]
<1>1. PICK s, item, T : s = shardOf[w.node] /\ item = w.item /\ T = RequestTopic(item, w.way, s)
  BY Zenon
<1>2. s \in AllShards /\ item \in Items
  BY <1>1, WantFacts, Zenon
<1>3. item.snd \in AllShards /\ (item.kind = "hdr" => item.snd # META)
  BY <1>2, ItemFacts, Zenon
<1>4. AskedAs(item, w.way, s, T)
  BY <1>1, AskedOn
<1>5. CASE s = META
  BY <1>1, <1>2, <1>3, <1>4, <1>5, MetaTakes, ShardsApart, Zenon DEF AskedAs
<1>6. CASE s \in NetShards /\ s # META
  BY <1>1, <1>2, <1>3, <1>4, <1>6, ShardTakes, Zenon DEF AskedAs
<1> QED BY <1>2, <1>5, <1>6, ShardsApart, Zenon

-----------------------------------------------------------------------------
(* Who serves it                                                           *)

LEMMA ResolversOfShard ==
  ASSUME NEW s \in NetShards
  PROVE  Resolvers[s] = ShardResolvers(s)
BY NetShardsAssumption, Zenon DEF Resolvers, AllShards

LEMMA ResolversOfMeta == Resolvers[META] = MetaResolvers
BY Zenon DEF Resolvers, AllShards

LEMMA ResolverFields ==
  ASSUME NEW t, NEW k, NEW p, NEW e, NEW x
  PROVE  /\ Resolver(t, k, p, e, x).topic = t /\ Resolver(t, k, p, e, x).peers = p
         /\ Resolver(t, k, p, e, x).excluded = e
BY DEF Resolver

LEMMA PerShardServes ==
  ASSUME NEW s, NEW d \in AllShards, NEW base, NEW kind
  PROVE  \E r \in ResolverPerShard(base, kind, s, AllShards) : r.topic = Topic(base, s, d)
<1>1. Resolver(Topic(base, s, d), kind, Topic(base, s, d), Topic(base, s, s), 0)
        \in ResolverPerShard(base, kind, s, AllShards)
  BY Zenon DEF ResolverPerShard
<1> QED BY <1>1, ResolverFields

ServedByShard(s, d) ==
  {Topic("transactions", s, d), Topic("unsigned", s, d), Topic("rewards", s, d), Topic("miniBlocks", s, d),
   Topic("headers", s, s), Topic("shardHeadersForMetachain", s, META), MetachainBlocks}

LEMMA ShardServes ==
  ASSUME NEW s \in NetShards, NEW d \in AllShards,
         NEW T \in ServedByShard(s, d)
  PROVE  \E r \in Resolvers[s] : r.topic = T
<1>1. ASSUME NEW base, NEW kind
      PROVE  \E r \in ResolverPerShard(base, kind, s, AllShards) : r.topic = Topic(base, s, d)
  BY PerShardServes, Zenon
<1>2. CASE T \in {Topic("transactions", s, d), Topic("unsigned", s, d), Topic("rewards", s, d), Topic("miniBlocks", s, d)}
  BY <1>1, <1>2, ResolversOfShard, Zenon DEF ShardResolvers, ShardTxResolvers, ShardMiniBlocksResolvers
<1>3. CASE T = Topic("headers", s, s)
  <2>1. Resolver(T, "hdr", T, NoTopic, s) \in Resolvers[s]
    BY <1>3, ResolversOfShard, Zenon DEF ShardResolvers, ShardHdrResolver
  <2> QED BY <2>1, ResolverFields
<1>4. CASE T = Topic("shardHeadersForMetachain", s, META)
  <2>1. Resolver(T, "hdr", T, NoTopic, s) \in Resolvers[s]
    BY <1>4, ResolversOfShard, Zenon DEF ShardResolvers, ShardMetachainShardHeaderResolver
  <2> QED BY <2>1, ResolverFields
<1>5. CASE T = MetachainBlocks
  <2>1. Resolver(T, "meta", Topic("shardHeadersForMetachain", s, META), Topic("transactions", s, s), META)
          \in Resolvers[s]
    BY <1>5, ResolversOfShard, Zenon DEF ShardResolvers, ShardMetablockHeaderResolver
  <2> QED BY <2>1, ResolverFields
<1> QED BY <1>2, <1>3, <1>4, <1>5, Zenon DEF ServedByShard

LEMMA MetaServes ==
  ASSUME NEW T, \/ T = MetachainBlocks
                \/ \E d \in AllShards : T \in {Topic("transactions", META, d), Topic("unsigned", META, d), Topic("miniBlocks", META, d)}
                \/ \E d \in NetShards : T = Topic("shardHeadersForMetachain", META, d)
  PROVE  \E r \in Resolvers[META] : r.topic = T
<1>1. ASSUME NEW base, NEW kind, NEW d \in AllShards
      PROVE  \E r \in ResolverPerShard(base, kind, META, AllShards) : r.topic = Topic(base, META, d)
  BY PerShardServes, Zenon
<1>2. CASE \E d \in AllShards : T \in {Topic("transactions", META, d), Topic("unsigned", META, d), Topic("miniBlocks", META, d)}
  BY <1>1, <1>2, ResolversOfMeta, Zenon DEF MetaResolvers, MetaTxResolvers, MetaMiniBlocksResolvers
<1>3. CASE T = MetachainBlocks
  <2>1. Resolver(T, "meta", T, NoTopic, META) \in Resolvers[META]
    BY <1>3, ResolversOfMeta, Zenon DEF MetaResolvers, MetaChainHeaderResolvers
  <2> QED BY <2>1, ResolverFields
<1>4. CASE \E d \in NetShards : T = Topic("shardHeadersForMetachain", META, d)
  <2>1. PICK d \in NetShards : T = Topic("shardHeadersForMetachain", META, d)
    BY <1>4, Zenon
  <2>2. Resolver(T, "hdr", T, Topic("shardHeadersForMetachain", META, META), d) \in Resolvers[META]
    BY <2>1, ResolversOfMeta, Zenon DEF MetaResolvers, MetaShardHeaderResolvers
  <2> QED BY <2>2, ResolverFields
<1> QED BY <1>2, <1>3, <1>4, Zenon

LEMMA AskedIsServed ==
  ASSUME NEW w \in Wants, w.way # "gossip"
  PROVE  \E r \in Resolvers[shardOf[w.node]] : r.topic = RequestTopic(w.item, w.way, shardOf[w.node])
<1>1. PICK s, item, T : s = shardOf[w.node] /\ item = w.item /\ T = RequestTopic(item, w.way, s)
  BY Zenon
<1>2. s \in AllShards /\ item \in Items
  BY <1>1, WantFacts, Zenon
<1>3. item.snd \in AllShards /\ (item.kind = "hdr" => item.snd # META)
  BY <1>2, ItemFacts, Zenon
<1>4. AskedAs(item, w.way, s, T)
  BY <1>1, AskedOn
<1>5. CASE s = META
  <2>1. \/ \E d \in AllShards : T \in {Topic("transactions", META, d), Topic("unsigned", META, d), Topic("miniBlocks", META, d)}
        \/ \E d \in NetShards : T = Topic("shardHeadersForMetachain", META, d)
        \/ T = MetachainBlocks
    BY <1>2, <1>3, <1>4, <1>5, ShardsApart, Zenon DEF AskedAs
  <2> QED BY <1>1, <1>5, <2>1, MetaServes, Zenon
<1>6. CASE s \in NetShards /\ s # META
  <2>1. \A d \in AllShards : T \in ServedByShard(s, d)
           => \E r \in Resolvers[s] : r.topic = T
    BY <1>6, ShardServes, Zenon
  <2>2. \E d \in AllShards : T \in ServedByShard(s, d)
    BY <1>2, <1>3, <1>4, <1>6 DEF AskedAs, ServedByShard
  <2> QED BY <1>1, <2>1, <2>2, Zenon
<1> QED BY <1>2, <1>5, <1>6, ShardsApart, Zenon

\* Every node serves the topics it is on.
LEMMA JoinedIsServed ==
  ASSUME NEW s \in AllShards, NEW T \in JoinedTopics[s]
  PROVE  \E r \in Resolvers[s] : r.topic = T
<1>1. JoinedTopics[s] = {i[1] : i \in Interceptors[s]} \cup createTopicHeadersForMetachain(s)
  BY Zenon DEF JoinedTopics
<1>2. CASE s = META
  <2>1. PICK i \in Interceptors[META] : T = i[1]
    BY <1>1, <1>2, Zenon DEF createTopicHeadersForMetachain
  <2>2. TakenByMeta(i)
    BY MetaTakesOnly, Zenon
  <2>3. \/ \E d \in AllShards : T \in {Topic("transactions", META, d), Topic("unsigned", META, d), Topic("miniBlocks", META, d)}
        \/ \E d \in NetShards : T = Topic("shardHeadersForMetachain", META, d)
        \/ T = MetachainBlocks
    BY <2>1, <2>2 DEF TakenByMeta, AllShards
  <2> QED BY <1>2, <2>3, MetaServes, Zenon
<1>3. CASE s \in NetShards /\ s # META
  <2>1. \/ T = Topic("shardHeadersForMetachain", s, META)
        \/ \E i \in Interceptors[s] : T = i[1]
    BY <1>1, <1>3, Zenon DEF createTopicHeadersForMetachain
  <2>2. \A i \in Interceptors[s] :
          TakenByShard(s, i)
    BY <1>3, ShardTakesOnly, Zenon
  <2>3. \E d \in AllShards : T \in ServedByShard(s, d)
    BY <2>1, <2>2 DEF TakenByShard, ServedByShard
  <2> QED BY <1>3, <2>3, ShardServes, Zenon
<1> QED BY <1>2, <1>3, ShardsApart, Zenon

\* A peer on the topic whose peers are asked serves the topic it is asked on.
LEMMA PeersServe ==
  ASSUME NEW s \in AllShards, NEW r \in Resolvers[s], NEW x \in AllShards, r.peers \in JoinedTopics[x]
  PROVE  \E q \in Resolvers[x] : q.topic = r.topic
<1>1. r.topic = r.peers \/ r.topic = MetachainBlocks
  <2>1. CASE s = META
    BY <2>1, ResolversOfMeta, ResolverFields DEF MetaResolvers, MetaShardHeaderResolvers, MetaChainHeaderResolvers, MetaTxResolvers,
         MetaMiniBlocksResolvers, ResolverPerShard
  <2>2. CASE s \in NetShards /\ s # META
    BY <2>2, ResolversOfShard, ResolverFields DEF ShardResolvers, ShardTxResolvers, ShardHdrResolver, ShardMiniBlocksResolvers,
         ShardPeerChBlockBodyResolver, ShardMetachainShardHeaderResolver, ShardMetablockHeaderResolver, ResolverPerShard
  <2> QED BY <2>1, <2>2, ShardsApart, Zenon
<1>2. \E q \in Resolvers[x] : q.topic = MetachainBlocks
  BY ShardsApart, MetaServes, ShardServes, Zenon DEF ServedByShard
<1>3. \E q \in Resolvers[x] : q.topic = r.peers
  BY JoinedIsServed, Zenon
<1> QED BY <1>1, <1>2, <1>3, Zenon

-----------------------------------------------------------------------------
(* What is published                                                       *)

\* The kind of the data on a topic goes by its base name.
BaseKinds == {<<"transactions", "tx">>, <<"unsigned", "scr">>, <<"rewards", "reward">>, <<"miniBlocks", "mb">>,
              <<"headers", "hdr">>, <<"shardHeadersForMetachain", "hdr">>, <<"metachainBlocks", "meta">>}

LEMMA PublishedBase ==
  ASSUME NEW item \in Items, NEW s \in AllShards, NEW t \in Published(item, s)
  PROVE  <<t[1], item.kind>> \in BaseKinds
<1>1. \/ t \in MetaBroadcastBlock(item) \/ t \in ShardBroadcastBlock(item, s)
      \/ t \in BroadcastShardHeader(item, s) \/ t \in BroadcastMiniBlocks(item, s)
      \/ t \in CreateMarshalizedData(item, s)
  BY Zenon DEF Published
<1>2. item.kind \in {"tx", "scr", "reward", "mb", "hdr", "meta"}
  BY ItemFacts, Zenon DEF RouteKinds
<1>3. CASE t \in MetaBroadcastBlock(item)
  BY <1>3 DEF MetaBroadcastBlock, BaseKinds, Topic, MetachainBlocks
<1>4. CASE t \in ShardBroadcastBlock(item, s)
  BY <1>4 DEF ShardBroadcastBlock, BaseKinds, Topic
<1>5. CASE t \in BroadcastShardHeader(item, s) \/ t \in BroadcastMiniBlocks(item, s)
  BY <1>5 DEF BroadcastShardHeader, BroadcastMiniBlocks, BaseKinds, Topic
<1>6. CASE t \in CreateMarshalizedData(item, s)
  <2>1. item.kind \in {"tx", "scr", "reward"} /\ t = createBroadcastTopic(item.kind, s, item.rcv)
    BY <1>2, <1>6 DEF CreateMarshalizedData, PreProcessors, InterimProcessors, MetaPreProcessors, ShardPreProcessors,
         MetaInterimProcessors, ShardInterimProcessors
  <2> QED BY <2>1 DEF createBroadcastTopic, Topic, BaseKinds
<1> QED BY <1>1, <1>3, <1>4, <1>5, <1>6, Zenon

LEMMA InterceptedBase ==
  ASSUME NEW s \in AllShards, NEW i \in Interceptors[s]
  PROVE  i = <<i[1], i[2]>> /\ <<i[1][1], i[2]>> \in BaseKinds
<1>1. CASE s = META
  BY <1>1, MetaTakesOnly DEF TakenByMeta, BaseKinds, Topic, MetachainBlocks
<1>2. CASE s \in NetShards
  BY <1>2, ShardTakesOnly DEF TakenByShard, BaseKinds, Topic, MetachainBlocks
<1> QED BY <1>1, <1>2, ShardsApart, Zenon

\* Whoever takes anything from a topic an item is published on takes the item's kind.
LEMMA PublishedKind ==
  ASSUME NEW item \in Items, NEW s \in AllShards, NEW t \in Published(item, s),
         NEW x \in AllShards, NEW i \in Interceptors[x], i[1] = t
  PROVE  <<t, item.kind>> \in Interceptors[x]
<1>1. <<t[1], item.kind>> \in BaseKinds /\ i = <<i[1], i[2]>> /\ <<i[1][1], i[2]>> \in BaseKinds
  BY PublishedBase, InterceptedBase, Zenon
<1>2. i[2] = item.kind
  BY <1>1 DEF BaseKinds
<1> QED BY <1>1, <1>2

-----------------------------------------------------------------------------
(* The messages under way                                                  *)

\* A request is on its way to a node that serves its topic, data to a node that
\* takes this kind of data from the topic.
Routed(w) ==
  /\ w.to \in NetNodes /\ w.type \in {"request", "data"}
  /\ w.type = "request" =>
       want.way # "gossip" /\ w.topic = AskTopic /\ \E q \in Resolvers[shardOf[w.to]] : q.topic = w.topic
  /\ w.type = "data" => <<w.topic, want.item.kind>> \in Interceptors[shardOf[w.to]]

NetInv ==
  /\ want \in Wants /\ peersUp \subseteq NetNodes /\ unhandled = {}
  /\ \A w \in wire :
       Routed(w)

LEMMA NetInitInv == NetInit => NetInv
BY Zenon DEF NetInit, NetInv

LEMMA Shards == \A n \in NetNodes : shardOf[n] \in AllShards
BY NetNodesAssumption

LEMMA MsgFields ==
  ASSUME NEW m, NEW type
  PROVE  Msg(m, type).to = m /\ Msg(m, type).type = type /\ Msg(m, type).topic = AskTopic
BY DEF Msg

LEMMA AskInv ==
  ASSUME NetInv, NEW P, AskForData(P)
  PROVE  NetInv'
<1>1. want' = want /\ peersUp' = peersUp /\ want.way # "gossip" /\ want \in Wants /\ AskTopic' = AskTopic
  BY Zenon DEF AskForData, NetInv, AskTopic, Asker
<1>2. \E r \in Resolvers[shardOf[Asker]] : r.topic = AskTopic
  BY <1>1, AskedIsServed, Zenon DEF AskTopic, Asker
<1>3. /\ unhandled' = unhandled
      /\ \/ wire' = wire
         \/ \E r \in Resolvers[shardOf[Asker]] : r.topic = AskTopic /\ SendOnRequestTopic(r, P)
  BY <1>2, Zenon DEF AskForData
<1>4. CASE wire' = wire
  BY <1>1, <1>3, <1>4, Zenon DEF NetInv, Routed
<1>5. ASSUME NEW r \in Resolvers[shardOf[Asker]], r.topic = AskTopic, SendOnRequestTopic(r, P)
      PROVE  NetInv'
  <2>1. shardOf[Asker] \in AllShards
    BY <1>1, WantFacts, Zenon DEF Asker
  <2>2. ASSUME NEW m \in P
        PROVE  m \in NetNodes /\ \E q \in Resolvers[shardOf[m]] : q.topic = AskTopic
    <3>1. m \in peersUp /\ r.peers \in JoinedTopics[shardOf[m]]
      BY <1>5, <2>2, Zenon DEF SendOnRequestTopic, PeerList, ConnectedPeersOnTopic
    <3>2. m \in NetNodes /\ shardOf[m] \in AllShards
      BY <3>1, Shards, Zenon DEF NetInv, Routed
    <3> QED BY <1>5, <2>1, <3>1, <3>2, PeersServe, Zenon
  <2>3. \A w \in wire' : w \in wire \/ \E m \in P : w = Msg(m, "request")
    BY <1>5, Zenon DEF SendOnRequestTopic
  <2>4. \A m \in P : Msg(m, "request").to = m /\ Msg(m, "request").type = "request" /\ Msg(m, "request").topic = AskTopic
    BY MsgFields
  <2>5. ASSUME NEW w \in wire'
        PROVE  Routed(w)
    <3>1. CASE w \in wire
      BY <3>1, Zenon DEF NetInv, Routed
    <3>2. ASSUME NEW m \in P, w = Msg(m, "request")
          PROVE  w.to = m /\ w.type = "request" /\ w.topic = AskTopic
      BY <2>4, <3>2, Zenon
    <3> QED BY <1>1, <2>2, <2>3, <3>1, <3>2 DEF Routed
  <2> QED BY <1>1, <1>3, <2>5, Zenon DEF NetInv, Routed
<1> QED BY <1>3, <1>4, <1>5, Zenon

LEMMA ProcessInv ==
  ASSUME NetInv, NEW m \in NetNodes, ProcessRequest(m)
  PROVE  NetInv'
<1>1. want' = want /\ peersUp' = peersUp /\ Msg(m, "request") \in wire /\ AskTopic' = AskTopic /\ want \in Wants
  BY Zenon DEF ProcessRequest, NetInv, AskTopic, Asker
<1>2. want.way # "gossip" /\ \E q \in Resolvers[shardOf[m]] : q.topic = Msg(m, "request").topic
  <2>1. PICK msg : msg = Msg(m, "request") /\ msg \in wire
    BY <1>1, Zenon
  <2>2. msg.to = m /\ msg.type = "request"
    BY <2>1, MsgFields
  <2> QED BY <2>1, <2>2, Zenon DEF NetInv, Routed
<1>3. unhandled' = unhandled
  BY <1>2, Zenon DEF ProcessRequest
<1>4. \A w \in wire' : w \in wire \/ w = Msg(Asker, "data")
  BY Zenon DEF ProcessRequest
<1>5. ASSUME NEW w, w = Msg(Asker, "data")
      PROVE  w.to \in NetNodes /\ w.type = "data" /\ <<w.topic, want.item.kind>> \in Interceptors[shardOf[w.to]]
  <2>1. w.to = Asker /\ w.type = "data" /\ w.topic = AskTopic
    BY <1>5, MsgFields
  <2>2. Asker \in NetNodes /\ <<AskTopic, want.item.kind>> \in Interceptors[shardOf[Asker]]
    BY <1>1, <1>2, WantFacts, AskedIsIntercepted, Zenon DEF Asker, AskTopic
  <2> QED BY <2>1, <2>2, Zenon
<1>6. ASSUME NEW w \in wire'
      PROVE  Routed(w)
  <2>1. CASE w \in wire
    BY <2>1, Zenon DEF NetInv, Routed
  <2>2. CASE w = Msg(Asker, "data")
    BY <1>5, <2>2 DEF Routed
  <2> QED BY <1>4, <2>1, <2>2, Zenon
<1> QED BY <1>1, <1>3, <1>6, Zenon DEF NetInv, Routed

LEMMA ReceiveInv ==
  ASSUME NetInv, NEW n \in NetNodes, ReceiveData(n)
  PROVE  NetInv'
<1>1. PICK msg \in wire : /\ msg.to = n /\ msg.type = "data" /\ wire' = wire \ {msg}
                          /\ unhandled' = IF \E i \in Interceptors[shardOf[n]] : i[1] = msg.topic
                                            THEN unhandled ELSE unhandled \cup {msg.topic}
                          /\ UNCHANGED <<want, peersUp>>
  BY Zenon DEF ReceiveData
<1>2. <<msg.topic, want.item.kind>> \in Interceptors[shardOf[n]]
  BY <1>1, Zenon DEF NetInv, Routed
<1>3. <<msg.topic, want.item.kind>>[1] = msg.topic
  OBVIOUS
<1>4. unhandled' = unhandled
  BY <1>1, <1>2, <1>3, Zenon
<1>5. AskTopic' = AskTopic
  BY <1>1, Zenon DEF AskTopic, Asker
<1> QED BY <1>1, <1>4, <1>5, Zenon DEF NetInv, Routed

LEMMA BroadcastInv ==
  ASSUME NetInv, NEW n \in NetNodes, BroadcastOwn(n)
  PROVE  NetInv'
<1>1. UNCHANGED <<want, peersUp, unhandled>> /\ want \in Wants /\ AskTopic' = AskTopic
  BY Zenon DEF BroadcastOwn, NetInv, AskTopic, Asker
<1>2. want.item \in Items /\ shardOf[n] \in AllShards
  BY <1>1, WantFacts, Shards, Zenon
<1>3. ASSUME NEW w \in wire'
      PROVE  w.to \in NetNodes /\ w.type = "data" /\ <<w.topic, want.item.kind>> \in Interceptors[shardOf[w.to]]
  <2>1. PICK t \in Published(want.item, shardOf[n]), m \in NetNodes :
          w = [to |-> m, type |-> "data", topic |-> t] /\ t \in {i[1] : i \in Interceptors[shardOf[m]]}
    <3>1. PICK S : w \in S /\ \E t \in Published(want.item, shardOf[n]) :
             S = {[to |-> m, type |-> "data", topic |-> t] :
                    m \in {p \in NetNodes \ {n} : t \in {i[1] : i \in Interceptors[shardOf[p]]}}}
      BY Zenon DEF BroadcastOwn
    <3> QED BY <3>1, Zenon
  <2>2. <<t, want.item.kind>> \in Interceptors[shardOf[m]]
    BY <1>2, <2>1, PublishedKind, Shards, Zenon
  <2>3. w.to = m /\ w.type = "data" /\ w.topic = t
    BY <2>1
  <2> QED BY <2>2, <2>3, Zenon
<1>4. \A w \in wire' :
       Routed(w)
  BY <1>3 DEF Routed
<1> QED BY <1>1, <1>4, Zenon DEF NetInv, Routed

LEMMA NetNextInv == NetInv /\ [NetNext]_netVars => NetInv'
<1> SUFFICES ASSUME NetInv, [NetNext]_netVars PROVE NetInv'
  BY Zenon
<1>1. ASSUME NEW P, AskForData(P) PROVE NetInv'
  BY <1>1, AskInv, Zenon
<1>2. ASSUME NEW m \in NetNodes, ProcessRequest(m) \/ ReceiveData(m) \/ BroadcastOwn(m) PROVE NetInv'
  BY <1>2, ProcessInv, ReceiveInv, BroadcastInv, Zenon
<1>3. ASSUME NEW m \in NetNodes, Link(m) PROVE NetInv'
  <2>1. UNCHANGED <<want, wire, unhandled>> /\ peersUp' \subseteq NetNodes
    BY <1>3, Zenon DEF Link, NetInv
  <2>2. AskTopic' = AskTopic
    BY <2>1, Zenon DEF AskTopic, Asker
  <2> QED BY <2>1, <2>2, Zenon DEF NetInv, Routed
<1>4. ASSUME UNCHANGED <<want, peersUp, unhandled>>, wire' \subseteq wire PROVE NetInv'
  <2>1. AskTopic' = AskTopic
    BY <1>4, Zenon DEF AskTopic, Asker
  <2> QED BY <1>4, <2>1, Zenon DEF NetInv, Routed
<1>5. ASSUME NEW msg \in wire, Lose(msg) PROVE NetInv'
  BY <1>4, <1>5, Zenon DEF Lose
<1>6. CASE NetTick
  BY <1>4, <1>6, Zenon DEF NetTick
<1>7. CASE UNCHANGED netVars
  BY <1>4, <1>7, Zenon DEF netVars
<1> QED BY <1>1, <1>2, <1>3, <1>5, <1>6, <1>7, Zenon DEF NetNext

\* The inductive invariant of the requests: what is on the wire goes to a node
\* that has a resolver or an interceptor for it.
THEOREM NetInvariance == NetSpec => []NetInv
BY NetInitInv, NetNextInv, PTL DEF NetSpec

\* Every request finds a resolver in the asking node and in the peers it goes to,
\* and every answer and broadcast an interceptor, with any number of shards and
\* nodes (the factories of interceptors and resolvers agree on the topics).
THEOREM AllHandled == NetSpec => []NothingUnhandled
<1>1. NetInv => NothingUnhandled
  BY Zenon DEF NetInv, NothingUnhandled
<1> QED BY <1>1, NetInvariance, PTL

\* An answer on its way to the asking node is of a kind its interceptor takes and
\* for its shard, so that it is kept (ProcessReceivedMessage, IsForCurrentShard).
THEOREM AnswersKept == NetSpec => []AnswerIsKept
<1>1. NetInv => AnswerIsKept
  <2> SUFFICES ASSUME NetInv, NEW w \in wire, w.type = "data", w.to = Asker
               PROVE  Accepts(Asker, w.topic)
    BY Zenon DEF AnswerIsKept
  <2>1. want \in Wants /\ <<w.topic, want.item.kind>> \in Interceptors[shardOf[Asker]]
    BY Zenon DEF NetInv, Routed
  <2>2. IsForCurrentShard(want.item, shardOf[Asker])
    BY <2>1, WantedIsForShard, Zenon DEF Asker
  <2> QED BY <2>1, <2>2, Zenon DEF Accepts
<1> QED BY <1>1, NetInvariance, PTL

-----------------------------------------------------------------------------
(* Where it is asked for and where it is published                         *)

\* Who is on the topics of another shard: the other shard, and its own nodes,
\* which are the ones left out.
LEMMA OnTopicOf ==
  ASSUME NEW s \in AllShards, NEW x \in AllShards, NEW d \in AllShards,
         NEW base \in {"transactions", "unsigned", "rewards", "miniBlocks"},
         Topic(base, s, d) \in JoinedTopics[x]
  PROVE  x = s \/ x = d
<1>1. PICK T : T = Topic(base, s, d) /\ T \in JoinedTopics[x] /\ T[1] = base /\ T[2] = {s, d}
  BY DEF Topic, CommunicationIdentifier
<1>2. \/ \E i \in Interceptors[x] : T = i[1]
      \/ T \in createTopicHeadersForMetachain(x)
  BY <1>1, Zenon DEF JoinedTopics
<1>3. T \notin createTopicHeadersForMetachain(x)
  BY <1>1 DEF createTopicHeadersForMetachain, Topic
<1>4. PICK i \in Interceptors[x] : T = i[1]
  BY <1>2, <1>3, Zenon
<1>5. \E e \in AllShards : \E b \in {"transactions", "unsigned", "rewards", "miniBlocks"} : T = Topic(b, x, e)
  <2>1. CASE x = META
    <3>1. TakenByMeta(i)
      BY <1>4, <2>1, MetaTakesOnly, Zenon
    <3>2. \A e : i # <<Topic("shardHeadersForMetachain", META, e), "hdr">>
      BY <1>1, <1>4 DEF Topic
    <3>3. i # <<MetachainBlocks, "meta">>
      BY <1>1, <1>4 DEF MetachainBlocks
    <3> QED BY <1>4, <2>1, <3>1, <3>2, <3>3 DEF TakenByMeta, AllShards
  <2>2. CASE x \in NetShards
    <3>1. TakenByShard(x, i)
      BY <1>4, <2>2, ShardTakesOnly, Zenon
    <3>2. i # <<Topic("headers", x, x), "hdr">>
      BY <1>1, <1>4 DEF Topic
    <3>3. i # <<MetachainBlocks, "meta">>
      BY <1>1, <1>4 DEF MetachainBlocks
    <3> QED BY <1>4, <3>1, <3>2, <3>3 DEF TakenByShard
  <2> QED BY <2>1, <2>2, ShardsApart, Zenon
<1>6. \E e \in AllShards : T[2] = {x, e}
  BY <1>5 DEF Topic, CommunicationIdentifier
<1> QED BY <1>1, <1>6, SamePair, Zenon

LEMMA JoinsTaken ==
  ASSUME NEW x \in AllShards, NEW T, NEW k, <<T, k>> \in Interceptors[x]
  PROVE  T \in JoinedTopics[x]
<1>1. <<T, k>>[1] = T
  OBVIOUS
<1> QED BY <1>1, Zenon DEF JoinedTopics

LEMMA SameTopic == \A base, s, d : Topic(base, s, d) = Topic(base, d, s)
BY DEF Topic, CommunicationIdentifier

LEMMA OnHeaderTopic ==
  ASSUME NEW s \in NetShards, NEW x \in NetShards,
         Topic("shardHeadersForMetachain", s, META) \in JoinedTopics[x]
  PROVE  x = s
<1>1. PICK T : /\ T = Topic("shardHeadersForMetachain", s, META) /\ T \in JoinedTopics[x]
               /\ T[1] = "shardHeadersForMetachain" /\ T[2] = {s, META}
  BY DEF Topic, CommunicationIdentifier
<1>2. x \in AllShards /\ x # META
  BY NetShardsAssumption, Zenon DEF AllShards
<1>3. \A i \in Interceptors[x] : T # i[1]
  <2> SUFFICES ASSUME NEW i \in Interceptors[x], T = i[1] PROVE FALSE
    BY Zenon
  <2>1. TakenByShard(x, i)
    BY ShardTakesOnly, Zenon
  <2>2. i[1][1] \in {"transactions", "unsigned", "rewards", "miniBlocks", "headers", "metachainBlocks"}
    BY <2>1 DEF TakenByShard, Topic, MetachainBlocks
  <2> QED BY <1>1, <2>2
<1>4. T = Topic("shardHeadersForMetachain", x, META)
  BY <1>1, <1>2, <1>3, Zenon DEF JoinedTopics, createTopicHeadersForMetachain
<1>5. {s, META} = {x, META}
  BY <1>1, <1>4 DEF Topic, CommunicationIdentifier
<1> QED BY <1>2, <1>5, SamePair, Zenon

\* The resolver of a topic shared with another shard leaves out the own nodes.
LEMMA ResolverOf ==
  ASSUME NEW s \in AllShards, NEW d, NEW base \in {"transactions", "unsigned", "rewards", "miniBlocks"},
         NEW r \in Resolvers[s], r.topic = Topic(base, s, d)
  PROVE  r.peers = r.topic /\ r.excluded = Topic(base, s, s)
<1>1. r.topic[1] = base
  BY DEF Topic
<1>2. ASSUME NEW b, NEW k, r \in ResolverPerShard(b, k, s, AllShards)
      PROVE  r.peers = r.topic /\ r.excluded = Topic(base, s, s)
  <2>1. PICK e \in AllShards : r = Resolver(Topic(b, s, e), k, Topic(b, s, e), Topic(b, s, s), 0)
    BY <1>2, Zenon DEF ResolverPerShard
  <2>2. r.topic = Topic(b, s, e) /\ r.peers = Topic(b, s, e) /\ r.excluded = Topic(b, s, s)
    BY <2>1, ResolverFields
  <2>3. b = base
    BY <1>1, <2>2 DEF Topic
  <2> QED BY <2>2, <2>3, Zenon
<1>3. ASSUME NEW b \in {"headers", "peerChangeBlockBodies", "shardHeadersForMetachain"}, NEW e,
             NEW k, NEW p, NEW ex, NEW t, r = Resolver(Topic(b, s, e), k, p, ex, t)
      PROVE  FALSE
  BY <1>1, <1>3 DEF Topic, Resolver
<1>4. ASSUME NEW k, NEW p, NEW ex, NEW t, r = Resolver(MetachainBlocks, k, p, ex, t)
      PROVE  FALSE
  BY <1>1, <1>4 DEF MetachainBlocks, Resolver
<1>5. CASE s = META
  <2>1. \/ \E b, k : r \in ResolverPerShard(b, k, s, AllShards)
        \/ \E e : \E k, p, ex, t : r = Resolver(Topic("shardHeadersForMetachain", s, e), k, p, ex, t)
        \/ \E k, p, ex, t : r = Resolver(MetachainBlocks, k, p, ex, t)
    BY <1>5, ResolversOfMeta, Zenon DEF MetaResolvers, MetaShardHeaderResolvers, MetaChainHeaderResolvers, MetaTxResolvers,
         MetaMiniBlocksResolvers
  <2> QED BY <1>2, <1>3, <1>4, <2>1, Zenon
<1>6. CASE s \in NetShards
  <2>1. \/ \E b, k : r \in ResolverPerShard(b, k, s, AllShards)
        \/ \E b \in {"headers", "peerChangeBlockBodies", "shardHeadersForMetachain"} :
             \E e : \E k, p, ex, t : r = Resolver(Topic(b, s, e), k, p, ex, t)
        \/ \E k, p, ex, t : r = Resolver(MetachainBlocks, k, p, ex, t)
    <3>1. \/ \E b, k : r \in ShardTxResolvers(s, b, k)
          \/ r \in ShardMiniBlocksResolvers(s)
          \/ r \in ShardHdrResolver(s) \/ r \in ShardPeerChBlockBodyResolver(s) \/ r \in ShardMetachainShardHeaderResolver(s)
          \/ r \in ShardMetablockHeaderResolver(s)
      BY <1>6, ResolversOfShard, Zenon DEF ShardResolvers
    <3> QED BY <3>1, Zenon DEF ShardTxResolvers, ShardHdrResolver, ShardMiniBlocksResolvers,
         ShardPeerChBlockBodyResolver, ShardMetachainShardHeaderResolver, ShardMetablockHeaderResolver
  <2> QED BY <1>2, <1>3, <1>4, <2>1, Zenon
<1> QED BY <1>5, <1>6, ShardsApart, Zenon

LEMMA ResolverOfMetaBlocks ==
  ASSUME NEW s \in NetShards, NEW r \in Resolvers[s], r.topic = MetachainBlocks
  PROVE  r.peers = Topic("shardHeadersForMetachain", s, META) /\ r.excluded = Topic("transactions", s, s)
<1>1. r.topic[1] = "metachainBlocks"
  BY DEF MetachainBlocks
<1>2. ASSUME NEW b, b # "metachainBlocks", NEW e, NEW k, NEW p, NEW ex, NEW t, r = Resolver(Topic(b, s, e), k, p, ex, t)
      PROVE  FALSE
  BY <1>1, <1>2 DEF Topic, Resolver
<1>3. \/ \E b \in {"transactions", "unsigned", "rewards", "miniBlocks", "headers", "peerChangeBlockBodies",
                   "shardHeadersForMetachain"} :
           \E e : \E k, p, ex, t : r = Resolver(Topic(b, s, e), k, p, ex, t)
      \/ r \in ShardMetablockHeaderResolver(s)
  BY ResolversOfShard, ZenonT(30) DEF ShardResolvers, ShardTxResolvers, ShardHdrResolver, ShardMiniBlocksResolvers,
         ShardPeerChBlockBodyResolver, ShardMetachainShardHeaderResolver, ResolverPerShard
<1>4. r \in ShardMetablockHeaderResolver(s)
  BY <1>2, <1>3
<1> QED BY <1>4, ResolverFields DEF ShardMetablockHeaderResolver

\* Among the peers on the topic and not on the excluded one, if there are any.
LEMMA AskedPeers ==
  ASSUME NEW r, NEW P, SendOnRequestTopic(r, P), NEW m \in P, NEW p \in peersUp,
         r.peers \in JoinedTopics[shardOf[p]], r.excluded \notin JoinedTopics[shardOf[p]]
  PROVE  r.peers \in JoinedTopics[shardOf[m]] /\ (m \in peersUp => r.excluded \notin JoinedTopics[shardOf[m]])
<1>1. p \in ConnectedPeersOnTopic(r.peers) \ ConnectedPeersOnTopic(r.excluded)
  BY Zenon DEF ConnectedPeersOnTopic
<1>2. m \in ConnectedPeersOnTopic(r.peers) \ ConnectedPeersOnTopic(r.excluded)
  BY <1>1, Zenon DEF SendOnRequestTopic, PeerList
<1> QED BY <1>2, Zenon DEF ConnectedPeersOnTopic

LEMMA AskedWhere ==
  ASSUME NetInv, NEW P, AskForData(P), NEW m \in P, NEW r \in Resolvers[shardOf[Asker]], r.topic = AskTopic,
         SendOnRequestTopic(r, P), want.way # "sync", want.item.snd # shardOf[Asker], want.item.kind # "hdr",
         ~ (want.item.kind = "scr" /\ shardOf[Asker] = META), NEW p \in peersUp, shardOf[p] = want.item.snd
  PROVE  shardOf[m] = want.item.snd
<1>1. PICK s, item, d, x : s = shardOf[Asker] /\ item = want.item /\ d = item.snd /\ x = shardOf[m]
  BY Zenon
<1>2. /\ want \in Wants /\ want.way # "gossip" /\ m \in peersUp /\ x \in AllShards /\ item \in Items /\ s \in AllShards
      /\ d \in AllShards /\ d # s
  <2>1. want \in Wants /\ want.way # "gossip" /\ m \in peersUp /\ peersUp \subseteq NetNodes
    BY Zenon DEF NetInv, AskForData, SendOnRequestTopic, PeerList, ConnectedPeersOnTopic
  <2> QED BY <1>1, <2>1, WantFacts, Shards, ItemFacts, Zenon DEF Asker
<1>3. \/ item.kind = "tx" /\ AskTopic = Topic("transactions", s, d)
      \/ item.kind = "scr" /\ AskTopic = Topic("unsigned", s, d) /\ s # META
      \/ item.kind = "reward" /\ AskTopic = Topic("rewards", s, d) /\ s # META /\ d # META
      \/ item.kind = "mb" /\ AskTopic = Topic("miniBlocks", s, d)
      \/ item.kind = "meta" /\ AskTopic = MetachainBlocks /\ d = META
  <2>1. PICK T : T = AskTopic /\ T = RequestTopic(item, want.way, s) /\ s = shardOf[want.node]
    BY <1>1, Zenon DEF AskTopic, Asker
  <2>2. AskedAs(item, want.way, s, T)
    BY <1>1, <1>2, <2>1, AskedOn, Zenon
  <2>3. (item.kind = "reward" => d # META) /\ (item.kind = "meta" => d = META)
    BY <1>1, <1>2, ItemFacts, Zenon
  <2> QED BY <1>1, <2>1, <2>2, <2>3, Zenon DEF AskedAs
<1>4. ASSUME r.peers \in JoinedTopics[d], r.excluded \notin JoinedTopics[d]
      PROVE  r.peers \in JoinedTopics[x] /\ r.excluded \notin JoinedTopics[x]
  BY <1>1, <1>2, <1>4, AskedPeers, Zenon
<1>5. ASSUME NEW base \in {"transactions", "unsigned", "rewards", "miniBlocks"}, AskTopic = Topic(base, s, d),
             NEW k, <<Topic(base, d, s), k>> \in Interceptors[d], <<Topic(base, s, s), k>> \in Interceptors[s]
      PROVE  x = d
  <2>1. r.peers = Topic(base, s, d) /\ r.excluded = Topic(base, s, s)
    BY <1>1, <1>2, <1>5, ResolverOf
  <2>2. r.peers \in JoinedTopics[d]
    BY <1>2, <1>5, <2>1, SameTopic, JoinsTaken, Zenon
  <2>3. r.excluded \notin JoinedTopics[d]
    BY <1>2, <1>5, <2>1, OnTopicOf
  <2>4. x = s \/ x = d
    <3>1. Topic(base, s, d) \in JoinedTopics[x]
      BY <1>4, <2>1, <2>2, <2>3, Zenon
    <3> QED BY <1>2, <1>5, <3>1, OnTopicOf, Zenon
  <2>5. r.excluded \in JoinedTopics[s]
    BY <1>2, <1>5, <2>1, JoinsTaken, Zenon
  <2> QED BY <1>4, <2>2, <2>3, <2>4, <2>5, Zenon
<1>6. CASE item.kind = "tx" /\ AskTopic = Topic("transactions", s, d)
  <2>1. \A a, b \in AllShards : <<Topic("transactions", a, b), "tx">> \in Interceptors[a]
    BY ShardsApart, MetaTakes, ShardTakes, Zenon
  <2> QED BY <1>1, <1>2, <1>5, <1>6, <2>1, Zenon
<1>7. CASE item.kind = "mb" /\ AskTopic = Topic("miniBlocks", s, d)
  <2>1. \A a, b \in AllShards : <<Topic("miniBlocks", a, b), "mb">> \in Interceptors[a]
    BY ShardsApart, MetaTakes, ShardTakes, Zenon
  <2> QED BY <1>1, <1>2, <1>5, <1>7, <2>1, Zenon
<1>8. CASE item.kind = "scr" /\ AskTopic = Topic("unsigned", s, d) /\ s # META
  <2>1. s \in NetShards
    BY <1>2, <1>8, ShardsApart, Zenon
  <2>2. <<Topic("unsigned", d, s), "scr">> \in Interceptors[d] /\ <<Topic("unsigned", s, s), "scr">> \in Interceptors[s]
    BY <1>2, <2>1, ShardsApart, MetaTakes, ShardTakes, Zenon
  <2> QED BY <1>1, <1>5, <1>8, <2>2, Zenon
<1>9. CASE item.kind = "reward" /\ AskTopic = Topic("rewards", s, d) /\ s # META /\ d # META
  <2>1. s \in NetShards /\ d \in NetShards
    BY <1>2, <1>9, ShardsApart, Zenon
  <2>2. <<Topic("rewards", d, s), "reward">> \in Interceptors[d] /\ <<Topic("rewards", s, s), "reward">> \in Interceptors[s]
    BY <1>2, <2>1, ShardTakes, Zenon
  <2> QED BY <1>1, <1>5, <1>9, <2>2, Zenon
<1>10. CASE AskTopic = MetachainBlocks /\ d = META
  <2>1. s \in NetShards
    BY <1>2, <1>10, ShardsApart, Zenon
  <2>2. r.peers = Topic("shardHeadersForMetachain", s, META) /\ r.excluded = Topic("transactions", s, s)
    BY <1>1, <1>10, <2>1, ResolverOfMetaBlocks, Zenon
  <2>3. r.peers \in JoinedTopics[d]
    <3>1. <<Topic("shardHeadersForMetachain", META, s), "hdr">> \in Interceptors[d]
      BY <1>10, <2>1, MetaTakes, Zenon
    <3>2. r.peers = Topic("shardHeadersForMetachain", META, s)
      BY <2>2, SameTopic, Zenon
    <3> QED BY <1>2, <3>1, <3>2, JoinsTaken, Zenon
  <2>4. r.excluded \notin JoinedTopics[d]
    BY <1>2, <2>2, OnTopicOf, Zenon
  <2>5. r.peers \in JoinedTopics[x] /\ r.excluded \notin JoinedTopics[x]
    BY <1>4, <2>3, <2>4, Zenon
  <2>6. x = META \/ x = s
    BY <1>2, <2>1, <2>2, <2>5, OnHeaderTopic, ShardsApart, Zenon
  <2>7. r.excluded \in JoinedTopics[s]
    BY <1>2, <2>1, <2>2, ShardTakes, JoinsTaken, Zenon
  <2> QED BY <1>1, <1>10, <2>5, <2>6, <2>7, Zenon
<1> QED BY <1>1, <1>3, <1>6, <1>7, <1>8, <1>9, <1>10, Zenon

\* Data of another shard is asked from the nodes of that shard as long as one of
\* them is connected (SendOnRequestTopic, excludePeersFromTopic).
THEOREM AsksProducers == NetSpec => AskedWhereProduced
<1> DEFINE Step == \A m \in NetNodes :
             /\ Msg(m, "request") \in wire' \ wire
             /\ want.way # "sync" /\ want.item.snd # shardOf[Asker] /\ want.item.kind # "hdr"
             /\ ~ (want.item.kind = "scr" /\ shardOf[Asker] = META)
             /\ \E p \in peersUp : shardOf[p] = want.item.snd
             => shardOf[m] = want.item.snd
<1>1. NetInv /\ [NetNext]_netVars => [Step]_netVars
  <2> SUFFICES ASSUME NetInv, NetNext, NEW m \in NetNodes, Msg(m, "request") \in wire' \ wire,
                      want.way # "sync", want.item.snd # shardOf[Asker], want.item.kind # "hdr",
                      ~ (want.item.kind = "scr" /\ shardOf[Asker] = META),
                      NEW p \in peersUp, shardOf[p] = want.item.snd
               PROVE  shardOf[m] = want.item.snd
    BY Zenon
  <2>1. PICK msg : msg = Msg(m, "request") /\ msg \in wire' /\ msg \notin wire
    BY Zenon
  <2>2. msg.to = m /\ msg.type = "request"
    BY <2>1, MsgFields
  <2>3. ASSUME NEW n \in NetNodes, ProcessRequest(n) PROVE FALSE
    <3>1. msg = Msg(Asker, "data")
      BY <2>1, <2>3, Zenon DEF ProcessRequest
    <3> QED BY <2>2, <3>1, MsgFields
  <2>4. ASSUME NEW n \in NetNodes, BroadcastOwn(n) PROVE FALSE
    <3>1. PICK S : msg \in S /\ \E t \in Published(want.item, shardOf[n]) :
             S = {[to |-> q, type |-> "data", topic |-> t] :
                    q \in {y \in NetNodes \ {n} : t \in {i[1] : i \in Interceptors[shardOf[y]]}}}
      BY <2>1, <2>4, Zenon DEF BroadcastOwn
    <3>2. PICK t, q : msg = [to |-> q, type |-> "data", topic |-> t]
      BY <3>1, Zenon
    <3> QED BY <2>2, <3>2
  <2>5. PICK P : AskForData(P)
    <3>1. ASSUME wire' \subseteq wire PROVE FALSE
      BY <2>1, <3>1, Zenon
    <3>2. (\E n \in NetNodes : ReceiveData(n) \/ Link(n)) \/ (\E x \in wire : Lose(x)) \/ NetTick => wire' \subseteq wire
      BY Zenon DEF ReceiveData, Link, Lose, NetTick
    <3> QED BY <2>3, <2>4, <3>1, <3>2, Zenon DEF NetNext
  <2>6. PICK r \in Resolvers[shardOf[Asker]] : r.topic = AskTopic /\ SendOnRequestTopic(r, P)
    BY <2>1, <2>5, Zenon DEF AskForData
  <2>7. PICK q \in P : msg = Msg(q, "request")
    BY <2>1, <2>6, Zenon DEF SendOnRequestTopic
  <2>8. q = m
    BY <2>2, <2>7, MsgFields
  <2> QED BY <2>5, <2>6, <2>7, <2>8, AskedWhere, Zenon
<1> QED BY <1>1, NetInvariance, PTL DEF NetSpec, AskedWhereProduced

LEMMA PublishedReaches ==
  ASSUME NEW item \in Items, NEW s, s = item.snd, NEW x \in AllShards,
         \/ item.kind = "meta"
         \/ item.kind = "hdr" /\ x \in {s, META}
         \/ item.kind = "mb" /\ x \in {s, item.rcv}
         \/ item.kind \in {"tx", "scr", "reward"} /\ x = item.rcv /\ x # s
  PROVE  \E t \in Published(item, s) : <<t, item.kind>> \in Interceptors[x]
<1>1. s \in AllShards /\ item.rcv \in AllShards
  BY ItemFacts, Zenon
<1>2. CASE item.kind = "meta"
  <2>1. s = META
    BY <1>2, ItemFacts, Zenon
  <2>2. MetachainBlocks \in Published(item, s)
    BY <1>2, <2>1 DEF Published, MetaBroadcastBlock
  <2>3. <<MetachainBlocks, "meta">> \in Interceptors[x]
    BY ShardsApart, MetaTakes, ShardTakes, Zenon
  <2> QED BY <1>2, <2>2, <2>3, Zenon
<1>3. CASE item.kind = "hdr" /\ x \in {s, META}
  <2>1. s \in NetShards /\ s # META
    BY <1>1, <1>3, ItemFacts, ShardsApart, Zenon
  <2>2. Topic("headers", s, s) \in Published(item, s) /\ Topic("shardHeadersForMetachain", s, META) \in Published(item, s)
    BY <1>3, <2>1 DEF Published, ShardBroadcastBlock, BroadcastShardHeader
  <2>3. <<Topic("headers", s, s), "hdr">> \in Interceptors[s]
    BY <1>1, <2>1, ShardTakes, Zenon
  <2>4. <<Topic("shardHeadersForMetachain", s, META), "hdr">> \in Interceptors[META]
    BY <2>1, MetaTakes, SameTopic, Zenon
  <2> QED BY <1>3, <2>2, <2>3, <2>4, Zenon
<1>4. CASE item.kind = "mb" /\ x \in {s, item.rcv}
  <2>1. \A a, b \in AllShards : <<Topic("miniBlocks", a, b), "mb">> \in Interceptors[a]
    BY ShardsApart, MetaTakes, ShardTakes, Zenon
  <2>2. CASE x = s
    <3>1. Topic("miniBlocks", s, s) \in Published(item, s)
      BY <1>4 DEF Published, ShardBroadcastBlock, MetaBroadcastBlock
    <3> QED BY <1>1, <1>4, <2>1, <2>2, <3>1, Zenon
  <2>3. CASE x = item.rcv /\ x # s
    <3>1. Topic("miniBlocks", s, x) \in Published(item, s)
      BY <1>4, <2>3, Zenon DEF Published, BroadcastMiniBlocks
    <3> QED BY <1>1, <1>4, <2>1, <2>3, <3>1, SameTopic, Zenon
  <2> QED BY <1>4, <2>2, <2>3, Zenon
<1>5. CASE item.kind \in {"tx", "scr", "reward"} /\ x = item.rcv /\ x # s
  <2>1. item.kind = "reward" => s # META /\ x # META
    BY <1>5, ItemFacts, Zenon
  <2>2. item.kind \in PreProcessors(s) \cup InterimProcessors(s)
    BY <1>5, <2>1, Zenon DEF PreProcessors, InterimProcessors, MetaPreProcessors, ShardPreProcessors
  <2>3. createBroadcastTopic(item.kind, s, x) \in Published(item, s)
    BY <1>5, <2>2, Zenon DEF Published, CreateMarshalizedData
  <2>4. CASE item.kind = "tx"
    <3>1. createBroadcastTopic(item.kind, s, x) = Topic("transactions", s, x)
      BY <2>4 DEF createBroadcastTopic
    <3>2. <<Topic("transactions", x, s), "tx">> \in Interceptors[x]
      BY <1>1, ShardsApart, MetaTakes, ShardTakes, Zenon
    <3> QED BY <2>3, <2>4, <3>1, <3>2, SameTopic, Zenon
  <2>5. CASE item.kind = "scr"
    <3>1. createBroadcastTopic(item.kind, s, x) = Topic("unsigned", s, x)
      BY <2>5 DEF createBroadcastTopic
    <3>2. <<Topic("unsigned", x, s), "scr">> \in Interceptors[x]
      BY <1>1, <1>5, ShardsApart, MetaTakes, ShardTakes, Zenon
    <3> QED BY <2>3, <2>5, <3>1, <3>2, SameTopic, Zenon
  <2>6. CASE item.kind = "reward"
    <3>1. createBroadcastTopic(item.kind, s, x) = Topic("rewards", s, x)
      BY <2>6 DEF createBroadcastTopic
    <3>2. <<Topic("rewards", x, s), "reward">> \in Interceptors[x]
      BY <1>1, <2>1, <2>6, ShardsApart, ShardTakes, Zenon
    <3> QED BY <2>3, <2>6, <3>1, <3>2, SameTopic, Zenon
  <2> QED BY <1>5, <2>4, <2>5, <2>6, Zenon
<1> QED BY <1>2, <1>3, <1>4, <1>5, Zenon

\* What a proposer publishes of its block reaches every node that needs it on a
\* topic that this node intercepts (BroadcastBlock, BroadcastMiniBlocks,
\* BroadcastTransactions and their counterparts on the metachain).
THEOREM BroadcastsKept == NetSpec => BroadcastIsKept
<1> DEFINE Step == \A n, m \in NetNodes :
             BroadcastOwn(n) /\ n # m /\ Addressee(m)
               => \E w \in wire' : w.to = m /\ w.type = "data" /\ Accepts(m, w.topic)
<1>1. NetInv => Step
  <2> SUFFICES ASSUME NetInv, NEW n \in NetNodes, NEW m \in NetNodes, BroadcastOwn(n), n # m, Addressee(m)
               PROVE  \E w \in wire' : w.to = m /\ w.type = "data" /\ Accepts(m, w.topic)
    BY Zenon
  <2>1. PICK s, item, x : s = item.snd /\ item = want.item /\ x = shardOf[m] /\ s = shardOf[n]
    BY Zenon DEF BroadcastOwn
  <2>2. item \in Items /\ x \in AllShards /\ item.kind \in {"tx", "scr", "reward", "mb", "hdr", "meta"}
    BY <2>1, WantFacts, ItemFacts, Shards, Zenon DEF NetInv, RouteKinds
  <2>3. \/ item.kind = "meta"
        \/ item.kind = "hdr" /\ x \in {s, META}
        \/ item.kind = "mb" /\ x \in {s, item.rcv}
        \/ item.kind \in {"tx", "scr", "reward"} /\ x = item.rcv /\ x # s
    BY <2>1, <2>2 DEF Addressee
  <2>4. IsForCurrentShard(item, x)
    BY <2>1, <2>3 DEF IsForCurrentShard, IsForCurrentShardHdr, IsForCurrentShardTx
  <2>5. PICK t \in Published(item, s) : <<t, item.kind>> \in Interceptors[x]
    BY <2>1, <2>2, <2>3, PublishedReaches
  <2>6. Accepts(m, t)
    BY <2>1, <2>4, <2>5, Zenon DEF Accepts
  <2>7. <<t, item.kind>>[1] = t
    OBVIOUS
  <2>8. t \in {i[1] : i \in Interceptors[shardOf[m]]}
    BY <2>1, <2>5, <2>7, Zenon
  <2>9. PICK w : w = [to |-> m, type |-> "data", topic |-> t]
    BY Zenon
  <2>10. w \in wire'
    <3>1. PICK S : S = {[to |-> q, type |-> "data", topic |-> t] :
                          q \in {p \in NetNodes \ {n} : t \in {i[1] : i \in Interceptors[shardOf[p]]}}}
      BY Zenon
    <3>2. w \in S
      BY <2>8, <2>9, <3>1, Zenon
    <3> QED BY <2>1, <2>5, <3>1, <3>2, Zenon DEF BroadcastOwn
  <2>11. w.to = m /\ w.type = "data" /\ w.topic = t
    BY <2>9
  <2> QED BY <2>6, <2>10, <2>11, Zenon
<1> QED BY <1>1, NetInvariance, PTL DEF BroadcastIsKept

-----------------------------------------------------------------------------
(* The storage service                                                     *)

shardUnits == DOMAIN shardStorers

LEMMA ShardUnits ==
  shardUnits = {"TransactionUnit", "MiniBlockUnit", "PeerChangesUnit", "BlockHeaderUnit", "MetaBlockUnit",
                "UnsignedTransactionUnit", "RewardTransactionUnit", "MetaHdrNonceHashDataUnit",
                "ShardHdrNonceHashDataUnit0", "HeartbeatUnit", "BootstrapUnit", "StatusMetricsUnit"}
BY DEF shardUnits, shardStorers

LEMMA ShardDatabases == \A u \in shardUnits : shardStorers[u] \in Databases
BY ShardUnits DEF shardStorers, Databases, Range, shardOpens

\* A shard node has a database of its own for every unit.
LEMMA OneUnitEach ==
  \A u, v \in shardUnits : shardStorers[u] = shardStorers[v] => u = v
BY ShardUnits DEF shardStorers

shardChain == [u \in StoreUnits |-> IF u \in shardUnits THEN shardStorers[u] ELSE NoDb]

\* Every item is in the database of its unit, whatever was started and stopped.
StoreInv ==
  /\ storeRole = "shard"
  /\ chain = NoStorers \/ chain = shardChain
  /\ files = [d \in Databases |-> files[d]]
  /\ \A d \in Databases : \A i \in files[d] : i[1] \in shardUnits /\ shardStorers[i[1]] = d

LEMMA StoreInitInv == StoreRoles \subseteq {"shard"} /\ DataStoreInit => StoreInv
<1> SUFFICES ASSUME StoreRoles \subseteq {"shard"}, DataStoreInit PROVE StoreInv
  BY Zenon
<1>1. storeRole = "shard" /\ chain = NoStorers /\ files = [d \in Databases |-> {}]
  BY Zenon DEF DataStoreInit
<1>2. \A d \in Databases : files[d] = {}
  BY <1>1, Zenon
<1> QED BY <1>1, <1>2 DEF StoreInv

LEMMA StoreNextInv == StoreInv /\ [DataStoreNext]_dataStoreVars => StoreInv'
<1> SUFFICES ASSUME StoreInv, [DataStoreNext]_dataStoreVars PROVE StoreInv'
  BY Zenon
<1>1. CASE createDataStore
  <2>1. Storers = shardStorers
    BY Zenon DEF StoreInv, Storers
  <2>2. chain' = shardChain /\ UNCHANGED <<storeRole, files>>
    BY <1>1, <2>1, Zenon DEF createDataStore, shardChain, shardUnits
  <2> QED BY <2>2, Zenon DEF StoreInv
<1>2. ASSUME NEW n, createDataStoreFails(n) PROVE StoreInv'
  <2>1. /\ UNCHANGED <<storeRole, chain>>
        /\ \E S : files' = [d \in Databases |-> IF d \in S THEN {} ELSE files[d]]
    BY <1>2, Zenon DEF createDataStoreFails
  <2>2. files' = [d \in Databases |-> files'[d]] /\ \A d \in Databases : files'[d] = {} \/ files'[d] = files[d]
    BY <2>1
  <2> QED BY <2>1, <2>2, Zenon DEF StoreInv
<1>3. ASSUME NEW u \in StoreUnits, NEW k \in ItemKeys, ChainPut(u, k) PROVE StoreInv'
  <2>1. UNCHANGED <<storeRole, chain>> /\ chain[u] # NoDb /\ files' = [files EXCEPT ![chain[u]] = @ \cup {<<u, k>>}]
    BY <1>3, Zenon DEF ChainPut
  <2>2. u \in shardUnits /\ chain[u] = shardStorers[u]
    BY <2>1, Zenon DEF StoreInv, shardChain, NoStorers
  <2>3. /\ files' = [d \in Databases |-> files'[d]]
        /\ \A d \in Databases : \A i \in files'[d] : i \in files[d] \/ (i = <<u, k>> /\ d = chain[u])
    BY <2>1, Zenon DEF StoreInv
  <2>4. <<u, k>>[1] = u
    OBVIOUS
  <2> QED BY <2>1, <2>2, <2>3, <2>4, Zenon DEF StoreInv
<1>4. CASE StopNode
  BY <1>4, Zenon DEF StopNode, StoreInv
<1>5. CASE UNCHANGED dataStoreVars
  BY <1>5, Zenon DEF dataStoreVars, StoreInv
<1> QED BY <1>1, <1>2, <1>3, <1>4, <1>5, Zenon DEF DataStoreNext

\* On a node of a shard a unit returns what was put in this unit, for any keys
\* and however often the node is started and stopped (createShardDataStoreFromConfig
\* registers a database of its own for every unit).
THEOREM ShardUnitsApart == StoreRoles \subseteq {"shard"} => (DataStoreSpec => []UnitsApart)
<1> SUFFICES ASSUME StoreRoles \subseteq {"shard"} PROVE DataStoreSpec => []UnitsApart
  OBVIOUS
<1>1. DataStoreInit => StoreInv
  BY StoreInitInv, Zenon
<1>2. StoreInv => UnitsApart
  <2> SUFFICES ASSUME StoreInv, NEW u \in StoreUnits, chain[u] # NoDb, NEW i \in ChainGetAll(u, ItemKeys)
               PROVE  i[1] = u
    BY Zenon DEF UnitsApart
  <2>1. i \in files[chain[u]]
    BY Zenon DEF ChainGetAll, ChainGet
  <2>2. u \in shardUnits /\ chain[u] = shardStorers[u]
    BY Zenon DEF StoreInv, shardChain, NoStorers
  <2>3. shardStorers[u] \in Databases
    BY <2>2, ShardDatabases, Zenon
  <2>4. i[1] \in shardUnits /\ shardStorers[i[1]] = shardStorers[u]
    BY <2>1, <2>2, <2>3, Zenon DEF StoreInv
  <2> QED BY <2>2, <2>4, OneUnitEach, Zenon
<1> QED BY <1>1, <1>2, StoreNextInv, PTL DEF DataStoreSpec

\* A start that fails leaves no database open, on a node of a shard and of the
\* metachain (the deferred clean-up of createShardDataStoreFromConfig and
\* createMetaChainDataStoreFromConfig).
THEOREM FailedStartsClose == DataStoreSpec => []FailedStartClosesAll
<1>1. DataStoreInit => FailedStartClosesAll
  BY Zenon DEF DataStoreInit, FailedStartClosesAll
<1>2. FailedStartClosesAll /\ [DataStoreNext]_dataStoreVars => FailedStartClosesAll'
  <2> SUFFICES ASSUME FailedStartClosesAll, [DataStoreNext]_dataStoreVars PROVE FailedStartClosesAll'
    BY Zenon
  <2>1. ASSUME NEW n, createDataStoreFails(n) PROVE opened' = {}
    BY <2>1, Zenon DEF createDataStoreFails, Cleanup, shardCleanup, metaCleanup
  <2> QED BY <2>1, Zenon DEF DataStoreNext, createDataStore, ChainPut, StopNode, dataStoreVars, FailedStartClosesAll
<1> QED BY <1>1, <1>2, PTL DEF DataStoreSpec

-----------------------------------------------------------------------------
(* The hook of the virtual machine                                         *)

\* The temporary accounts hold the sender of the running transaction with the
\* value it sends, and nothing when none runs.
HookInv ==
  /\ running = NoTx => temporary = <<>>
  /\ running # NoTx => temporary = [x \in {running.sender} |-> running.value]

LEMMA HookStep ==
  ASSUME HookInv, [HookNext]_hookVars
  PROVE  HookInv'
<1>1. ASSUME NEW a \in Addresses, NEW v \in Amounts, StartTransaction(a, v) PROVE HookInv'
  <2>1. /\ running' = [sender |-> a, value |-> v] /\ running' # NoTx
        /\ running'.sender = a /\ running'.value = v
    BY <1>1, VmHookAssumption DEF StartTransaction, NoTx
  <2>2. Temporary = {}
    BY <1>1 DEF StartTransaction, HookInv, Temporary
  <2>3. temporary' = [x \in Temporary \cup {a} |->
                        IF x = a THEN AddTempAccount(a, v)[x] ELSE temporary[x]]
    BY <1>1, Zenon DEF StartTransaction
  <2>4. temporary' = [x \in {a} |-> v]
    BY <2>2, <2>3 DEF AddTempAccount
  <2> QED BY <2>1, <2>4 DEF HookInv
<1>2. ASSUME FinishTransaction PROVE HookInv'
  BY <1>2, Zenon DEF FinishTransaction, CleanTempAccounts, HookInv
<1>3. ASSUME UNCHANGED <<temporary, running>> PROVE HookInv'
  BY <1>3, Zenon DEF HookInv
<1>4. ASSUME NEW n, AskBlockhash(n) \/ QueryReadsHeader(n) PROVE HookInv'
  BY <1>3, <1>4 DEF AskBlockhash, QueryReadsHeader
<1>5. ASSUME ChainStep \/ QueryReadsHash \/ QueryReturns \/ UNCHANGED hookVars PROVE HookInv'
  BY <1>3, <1>5, Zenon DEF ChainStep, Process, CommitStores, CommitSetsHeader, CommitSetsHash,
     RollBackSetsHeader, RollBackCleans, QueryReadsHash, QueryReturns, hookVars
<1> QED BY <1>1, <1>2, <1>4, <1>5 DEF HookNext, TxStep, QueryStep

\* A contract sees the temporary account of its own sender and no other
\* (AddTempAccount, CleanTempAccounts), for any accounts, balances and blocks.
THEOREM HookShowsSender == HookSpec => []SeesOnlyItsSender
<1>1. NewBlockChainHookImpl => HookInv
  BY Zenon DEF NewBlockChainHookImpl, HookInv
<1>2. HookInv => SeesOnlyItsSender
  <2> SUFFICES ASSUME HookInv, running # NoTx, NEW a \in Addresses
               PROVE  GetBalance(a) = IF a = running.sender THEN running.value
                                      ELSE IF a \in LocalAddresses THEN ledger[a] ELSE 0
    BY Zenon DEF SeesOnlyItsSender
  <2>1. Temporary = {running.sender} /\ temporary[running.sender] = running.value
    BY Zenon DEF HookInv, Temporary
  <2> QED BY <2>1, Zenon DEF GetBalance, AccountExists, getAccountFromAddressBytes,
             getAccountFromTemporaryAccounts
<1> QED BY <1>1, <1>2, HookStep, PTL DEF HookSpec

-----------------------------------------------------------------------------
(* The throttler of the messenger                                          *)

INSTANCE FiniteSetTheorems

CastStates == {"new", "may", "refused", "started", "sending", "handed", "done"}

\* The throttler counts the broadcasts in flight; a broadcast that may start is
\* alone and finds room.
MsgrInv ==
  /\ cast \in [Casts -> [at : CastStates, chan : Chans]]
  /\ namesChans \subseteq Chans
  /\ ngrt \in Nat /\ ThrottlerExact
  /\ \A m, n \in Casts : cast[m].at = "may" /\ cast[n].at = "may" => m = n
  /\ (\E m \in Casts : cast[m].at = "may") => ngrt < broadcastGoRoutines

LEMMA FlightFinite == IsFiniteSet(InFlight) /\ Cardinality(InFlight) \in Nat
BY MessengerAssumption, FS_Subset, FS_CardinalityType DEF InFlight

LEMMA MsgrInitInv == MsgrInit => MsgrInv
<1> SUFFICES ASSUME MsgrInit PROVE MsgrInv
  OBVIOUS
<1>1. InFlight = {}
  BY Zenon DEF MsgrInit, InFlight
<1>2. ThrottlerExact
  BY <1>1, FS_EmptySet, MessengerAssumption DEF MsgrInit, ThrottlerExact
<1> QED BY <1>2 DEF MsgrInit, MsgrInv, CastStates, Chans

\* CreateTopic, RemoveChannel and the goroutines of the channels touch neither
\* the broadcasts nor the throttler.
LEMMA TopicStep ==
  ASSUME MsgrInv, UNCHANGED <<cast, ngrt>>, namesChans' \subseteq Chans
  PROVE  MsgrInv'
<1>1. InFlight' = InFlight
  BY Zenon DEF InFlight
<1> QED BY <1>1, Zenon DEF MsgrInv, ThrottlerExact

LEMMA ChecksThrottlerStep ==
  ASSUME CheckAlone, MsgrInv, NEW m \in Casts, ChecksThrottler(m)
  PROVE  MsgrInv'
<1>1. /\ cast[m].at = "new" /\ \A n \in Casts : cast[n].at # "may"
      /\ cast' = [cast EXCEPT ![m].at = IF ngrt < broadcastGoRoutines THEN "may" ELSE "refused"]
      /\ ngrt' = ngrt /\ namesChans' = namesChans
  BY Zenon DEF ChecksThrottler, CanProcess
<1>2. cast' \in [Casts -> [at : CastStates, chan : Chans]]
  BY <1>1 DEF MsgrInv, CastStates
<1>3. InFlight' = InFlight
  BY <1>1, Zenon DEF MsgrInv, InFlight
<1>4. \A n \in Casts : cast'[n].at = "may" => n = m /\ ngrt < broadcastGoRoutines
  BY <1>1, Zenon DEF MsgrInv
<1> QED BY <1>1, <1>2, <1>3, <1>4 DEF MsgrInv, ThrottlerExact

LEMMA StartProcessingStep ==
  ASSUME MsgrInv, NEW m \in Casts, StartProcessing(m)
  PROVE  MsgrInv'
<1>1. /\ cast[m].at = "may" /\ cast' = [cast EXCEPT ![m].at = "started"]
      /\ ngrt' = ngrt + 1 /\ namesChans' = namesChans
  BY Zenon DEF StartProcessing
<1>2. cast' \in [Casts -> [at : CastStates, chan : Chans]]
  BY <1>1, Zenon DEF MsgrInv, CastStates
<1>3. m \notin InFlight /\ InFlight' = InFlight \cup {m}
  BY <1>1, Zenon DEF MsgrInv, InFlight
<1>4. Cardinality(InFlight') = Cardinality(InFlight) + 1
  BY <1>3, FlightFinite, FS_AddElement
<1>5. \A n \in Casts : cast'[n].at # "may"
  BY <1>1, Zenon DEF MsgrInv
<1>6. ngrt < broadcastGoRoutines
  BY <1>1, Zenon DEF MsgrInv
<1> QED BY <1>1, <1>2, <1>4, <1>5, <1>6, MessengerAssumption DEF MsgrInv, ThrottlerExact

\* loadBalancer.GetChannelOrDefault and the send on the channel keep the place.
LEMMA CarriesOnStep ==
  ASSUME MsgrInv, NEW m \in Casts, PicksChannel(m) \/ HandsOver(m)
  PROVE  MsgrInv'
<1>1. /\ cast[m].at \in {"started", "sending"} /\ ngrt' = ngrt /\ namesChans' = namesChans
      /\ \E c \in Chans, a \in {"sending", "handed"} : cast' = [cast EXCEPT ![m] = [at |-> a, chan |-> c]]
  <2>1. CASE PicksChannel(m)
    <3>1. GetChannelOrDefault(CastTopic[m]) \in Chans
      BY Zenon DEF MsgrInv, GetChannelOrDefault, Chans
    <3> QED BY <2>1, <3>1, Zenon DEF PicksChannel
  <2>2. CASE HandsOver(m)
    <3>1. cast' = [cast EXCEPT ![m].at = "handed"]
      BY <2>2, Zenon DEF HandsOver
    <3>3. cast[m] \in [at : CastStates, chan : Chans]
      BY Zenon DEF MsgrInv
    <3>4. [cast[m] EXCEPT !.at = "handed"] = [at |-> "handed", chan |-> cast[m].chan]
      BY <3>3
    <3>2. cast' = [cast EXCEPT ![m] = [at |-> "handed", chan |-> cast[m].chan]]
      BY <3>1, <3>4, Zenon
    <3> QED BY <2>2, <3>2, <3>3, Zenon DEF HandsOver
  <2> QED BY <2>1, <2>2
<1> PICK c \in Chans, a \in {"sending", "handed"} : cast' = [cast EXCEPT ![m] = [at |-> a, chan |-> c]]
  BY <1>1, Zenon
<1>2. cast' \in [Casts -> [at : CastStates, chan : Chans]]
  BY Zenon DEF MsgrInv, CastStates
<1>3. InFlight' = InFlight
  BY <1>1, Zenon DEF MsgrInv, InFlight
<1>4. \A n \in Casts : cast'[n].at = "may" => cast[n].at = "may"
  BY Zenon DEF MsgrInv
<1> QED BY <1>1, <1>2, <1>3, <1>4, Zenon DEF MsgrInv, ThrottlerExact

LEMMA EndProcessingStep ==
  ASSUME MsgrInv, NEW m \in Casts, EndProcessing(m)
  PROVE  MsgrInv'
<1>1. /\ cast[m].at = "handed" /\ ngrt' = ngrt - 1 /\ namesChans' = namesChans
      /\ cast' = [cast EXCEPT ![m] = [at |-> "done", chan |-> defaultSendChannel]]
  BY Zenon DEF EndProcessing
<1>2. cast' \in [Casts -> [at : CastStates, chan : Chans]]
  BY <1>1, Zenon DEF MsgrInv, CastStates, Chans
<1>3. m \in InFlight /\ InFlight' = InFlight \ {m}
  BY <1>1, Zenon DEF MsgrInv, InFlight
<1>4. Cardinality(InFlight') = Cardinality(InFlight) - 1 /\ Cardinality(InFlight') \in Nat
  <2>1. IsFiniteSet(InFlight \ {m}) /\ Cardinality(InFlight \ {m}) = Cardinality(InFlight) - 1
    BY <1>3, FlightFinite, FS_RemoveElement
  <2> QED BY <1>3, <2>1, FS_CardinalityType
<1>5. \A n \in Casts : cast'[n].at = "may" => cast[n].at = "may"
  BY <1>1, Zenon DEF MsgrInv
<1>6. /\ ngrt' \in Nat /\ ngrt' = Cardinality(InFlight') /\ ngrt' <= broadcastGoRoutines
      /\ ngrt < broadcastGoRoutines => ngrt' < broadcastGoRoutines
  <2>1. /\ broadcastGoRoutines \in Nat /\ ngrt \in Nat /\ ngrt = Cardinality(InFlight)
        /\ ngrt <= broadcastGoRoutines /\ ngrt' = ngrt - 1
    BY <1>1, MessengerAssumption, Zenon DEF MsgrInv, ThrottlerExact
  <2> QED BY <1>4, <2>1
<1> QED BY <1>1, <1>2, <1>5, <1>6, Zenon DEF MsgrInv, ThrottlerExact

\* The throttler of BroadcastOnChannelBlocking counts exactly the broadcasts
\* under way and admits no more than broadcastGoRoutines, for any broadcasts and
\* topics, when no broadcast asks while another is between its two calls.
THEOREM MessengerThrottler ==
  ASSUME CheckAlone
  PROVE  MsgrSpec => []ThrottlerExact
<1>1. MsgrInv /\ [MsgrNext]_msgrVars => MsgrInv'
  <2> SUFFICES ASSUME MsgrInv, [MsgrNext]_msgrVars PROVE MsgrInv'
    BY Zenon
  <2>1. ASSUME NEW t \in MsgTopics, NEW own \in BOOLEAN, CreateTopic(t, own) PROVE MsgrInv'
    <3>1. namesChans' \subseteq Chans
      BY <2>1, Zenon DEF CreateTopic, AddChannel, Chans, MsgrInv
    <3> QED BY <2>1, <3>1, TopicStep DEF CreateTopic, sendVars
  <2>2. ASSUME NEW t \in MsgTopics, NEW h \in Handlers,
               RegisterMessageProcessor(t, h) \/ UnregisterMessageProcessor(t) \/ RemoveChannel(t)
        PROVE  MsgrInv'
    <3>1. namesChans' \subseteq Chans
      BY <2>2, Zenon DEF RegisterMessageProcessor, UnregisterMessageProcessor, RemoveChannel, MsgrInv
    <3> QED BY <2>2, <3>1, TopicStep, Zenon
            DEF RegisterMessageProcessor, UnregisterMessageProcessor, RemoveChannel, sendVars
  <2>3. ASSUME NEW m \in Casts, Sends(m) PROVE MsgrInv'
    BY <2>3, ChecksThrottlerStep, StartProcessingStep, CarriesOnStep, EndProcessingStep DEF Sends
  <2>4. ASSUME (\E c \in Chans : CollectOneElementFromChannels(c)) \/ Publish \/ UNCHANGED msgrVars
        PROVE  MsgrInv'
    <3>1. UNCHANGED <<cast, ngrt, namesChans>>
      BY <2>4, Zenon DEF CollectOneElementFromChannels, Publish, msgrVars, sendVars
    <3> QED BY <3>1, TopicStep, Zenon DEF MsgrInv
  <2>5. "h1" \in Handlers
    BY Zenon DEF Handlers
  <2> QED BY <2>1, <2>2, <2>3, <2>4, <2>5 DEF MsgrNext
<1>2. MsgrInv => ThrottlerExact
  BY Zenon DEF MsgrInv
<1> QED BY <1>1, <1>2, MsgrInitInv, PTL DEF MsgrSpec

=============================================================================
