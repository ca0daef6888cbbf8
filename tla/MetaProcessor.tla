--------------------------- MODULE MetaProcessor ---------------------------
(***************************************************************************)
(* How a metachain node notarizes the headers of the shards.  A leader     *)
(* puts the headers of its pool that extend what is notarized, and that    *)
(* have a successor, into a meta block; every other node fetches the       *)
(* headers it lacks and checks the same before it commits; a block that    *)
(* loses a fork is rolled back                                             *)
(* (process/block/metablock.go, baseProcess.go).                           *)
(*                                                                         *)
(* A header is its number in Hdr; number 0 stands for the genesis header   *)
(* of every shard.  Equal previous hashes stand for equal random seeds.    *)
(***************************************************************************)
EXTENDS Naturals, Sequences, SequencesExt, FiniteSetsExt

CONSTANTS
  Shards,        \* 0 .. n - 1
  Hdr,           \* Hdr[h]: shard, nonce, round, prev, and mbs: are there mini blocks for the metachain?
  ShardBlockFinality,
  AllowedSize,   \* how far above the last notarized nonce a header may be to stay in the pool
  MaxItems,      \* headers in a meta block
  FirstMetaRound, MaxMetaRound, MaxMetaBlocks, MaxHandlers, \* bounds
  RollBackDepth, \* how many of the highest blocks may be rolled back
  SlowSender,    \* may a handler be overtaken between the lock and the channel?
  CommitFails    \* may commitAll fail?

Headers == DOMAIN Hdr

VARIABLES
  shardHeaders,  \* dataPool.ShardHeaders()
  notarizedHdrs, \* per shard, the latest one last
  metaChain,     \* committed blocks: round, info, body
  highest,       \* length of the longest chain so far
  metaRound,
  metaPhase,     \* where the processing of `block` is
  block,         \* the block that is created or processed
  hdrInfo,       \* hdrHashAndInfo: "none", "missing", "used", "attesting"
  uncounted,     \* headers counted as missing that have no entry yet
  missingHdrs, missingFinalityAttestingHdrs, highestHdrNonce,
  handlers,      \* headers put into the pool whose handler has not taken the lock yet
  senders,       \* handlers (hdr, at) that will send ("decided") or wait for a receiver ("sending")
  cleaning       \* the goroutine of cleanupPools has not run yet

metaVars == <<shardHeaders, notarizedHdrs, metaChain, highest, metaRound, metaPhase, block,
              hdrInfo, uncounted, missingHdrs, missingFinalityAttestingHdrs, highestHdrNonce,
              handlers, senders, cleaning>>

current == <<hdrInfo, uncounted, missingHdrs, missingFinalityAttestingHdrs, highestHdrNonce>>

Genesis == [shard |-> 0, nonce |-> 0, round |-> 0, prev |-> 0, mbs |-> FALSE]

Header(h) == IF h = 0 THEN Genesis ELSE Hdr[h]

NoBlock == [round |-> 0, info |-> {}, body |-> {}]

OfShard(H, s) == {h \in H : Hdr[h].shard = s}

lastNotarizedHdrForShard(s) == Last(notarizedHdrs[s])

Mut_isHdrConstructionValid(h, prev) ==
  Header(prev).round < Hdr[h].round /\ Hdr[h].nonce = Header(prev).nonce + 1

isHdrConstructionValid(h, prev) ==
  /\ Header(prev).round < Hdr[h].round
  /\ Hdr[h].nonce = Header(prev).nonce + 1
  /\ Hdr[h].prev = prev

\* all the results the sort may have, as a function so that TLC has them once
SortHeadersByNonce ==
  [H \in SUBSET Headers |->
     {q \in SetToSeqs(H) : \A i, j \in DOMAIN q : i < j => Hdr[q[i]].nonce <= Hdr[q[j]].nonce}]

\* How many headers of q, up to ShardBlockFinality, are built upon h one after
\* the other, and which ones had the right nonce only.
Attesting(h, q) ==
  FoldLeft(LAMBDA a, t : IF a.n >= ShardBlockFinality \/ Hdr[t].nonce # Header(a.last).nonce + 1
                         THEN a
                         ELSE IF isHdrConstructionValid(t, a.last)
                              THEN [a EXCEPT !.last = t, !.n = @ + 1]
                              ELSE [a EXCEPT !.misfits = @ \cup {t}],
           [last |-> h, n |-> 0, misfits |-> {}], q)

\* Nothing reads the table before createBlockStarted clears it.
Forgotten ==
  /\ block' = NoBlock /\ hdrInfo' = [h \in Headers |-> "none"]
  /\ highestHdrNonce' = [s \in Shards |-> 0]

-----------------------------------------------------------------------------
MetaInit ==
  /\ shardHeaders = {} /\ notarizedHdrs = [s \in Shards |-> <<0>>]
  /\ metaChain = <<>> /\ highest = 0 /\ metaRound = FirstMetaRound
  /\ metaPhase = "idle" /\ block = NoBlock
  /\ hdrInfo = [h \in Headers |-> "none"] /\ uncounted = {}
  /\ missingHdrs = 0 /\ missingFinalityAttestingHdrs = 0
  /\ highestHdrNonce = [s \in Shards |-> 0]
  /\ handlers = {} /\ senders = <<>> /\ cleaning = FALSE

NextMetaRound ==
  /\ metaRound < MaxMetaRound
  /\ metaRound' = metaRound + 1
  /\ UNCHANGED <<shardHeaders, notarizedHdrs, metaChain, highest, metaPhase, block, current,
                 handlers, senders, cleaning>>

isHeaderOutOfRange(h) ==
  Hdr[h].nonce > Header(lastNotarizedHdrForShard(Hdr[h].shard)).nonce + AllowedSize

\* The attesting headers that the pool P holds get an entry; the number of
\* nonces without one is returned with the table.
requestMissingFinalityAttestingShardHeaders(table, P, high) ==
  LET wanted == {<<s, n>> \in Shards \X (1 .. MaxMetaRound) :
                   high[s] # 0 /\ n \in high[s] + 1 .. high[s] + ShardBlockFinality}
      found(w) == {h \in P : Hdr[h].shard = w[1] /\ Hdr[h].nonce = w[2]}
  IN  [missing |-> Cardinality({w \in wanted : found(w) = {}}),
       table |-> [h \in Headers |-> IF \E w \in wanted : h \in found(w) THEN "attesting"
                                    ELSE table[h]]]

\* A header, built in its round, is put into the pool, which starts the handler.
Put(h) ==
  /\ h \notin shardHeaders /\ Hdr[h].round <= metaRound /\ Cardinality(handlers) < MaxHandlers
  /\ shardHeaders' = shardHeaders \cup {h}
  /\ handlers' = handlers \cup {h}
  /\ UNCHANGED <<notarizedHdrs, metaChain, highest, metaRound, metaPhase, block, current, senders,
                 cleaning>>

\* the pool once the handler of h is through
Kept(pool, h) == IF isHeaderOutOfRange(h) THEN pool \ {h} ELSE pool

\* the entry of h has no header yet
Awaited(h) == hdrInfo[h] = "missing"

\* What a handler does under the lock.  When nothing is missing any more it
\* sends a signal, and looks at the range of the header after that.
receivedShardHeader(h) ==
  /\ h \in handlers
  /\ handlers' = handlers \ {h}
  /\ LET waiting == missingHdrs > 0 \/ missingFinalityAttestingHdrs > 0
         hit     == h \in shardHeaders /\ waiting /\ Awaited(h)
         high    == IF hit /\ Hdr[h].nonce > highestHdrNonce[Hdr[h].shard]
                    THEN [highestHdrNonce EXCEPT ![Hdr[h].shard] = Hdr[h].nonce]
                    ELSE highestHdrNonce
         miss    == IF hit THEN missingHdrs - 1 ELSE missingHdrs
         table   == [hdrInfo EXCEPT ![h] = IF hit THEN "used" ELSE @]
         req     == requestMissingFinalityAttestingShardHeaders(table, shardHeaders, high)
         ask     == h \in shardHeaders /\ waiting /\ miss = 0
         sends   == ask /\ req.missing = 0
     IN  /\ missingHdrs' = miss
         /\ highestHdrNonce' = high
         /\ hdrInfo' = IF ask THEN req.table ELSE table
         /\ missingFinalityAttestingHdrs' = IF ask THEN req.missing
                                            ELSE missingFinalityAttestingHdrs
         /\ senders' = IF sends THEN Append(senders, [hdr |-> h, at |-> "decided"]) ELSE senders
         /\ shardHeaders' = IF sends THEN shardHeaders ELSE Kept(shardHeaders, h)
  /\ UNCHANGED <<notarizedHdrs, metaChain, highest, metaRound, metaPhase, block, uncounted,
                 cleaning>>

\* A handler reaches the channel, which has no buffer.
ReachHeadersChannel ==
  /\ \E i \in DOMAIN senders : /\ senders[i].at = "decided"
                               /\ senders' = [senders EXCEPT ![i].at = "sending"]
  /\ UNCHANGED <<shardHeaders, notarizedHdrs, metaChain, highest, metaRound, metaPhase, block,
                 current, handlers, cleaning>>

\* every handler is at the channel
Reached == SlowSender \/ \A i \in DOMAIN senders : senders[i].at = "sending"

-----------------------------------------------------------------------------
\* the leader

getOrderedHdrs(r) ==
  {h \in shardHeaders :
     LET last == Header(lastNotarizedHdrForShard(Hdr[h].shard))
     IN  Hdr[h].round <= r /\ Hdr[h].round > last.round /\ Hdr[h].nonce > last.nonce}

\* the i-th headers of all shards before the (i + 1)-th of any
Interleaved(per) ==
  LET upTo == 1 .. Cardinality(Headers)
      at(i) == SelectSeq([k \in 1 .. Cardinality(Shards) |-> k - 1], LAMBDA s : i <= Len(per[s]))
  IN  FlattenSeq([i \in upTo |-> [k \in DOMAIN at(i) |-> per[at(i)[k]][i]]])

Executed(info) == {h \in info : Hdr[h].mbs}

\* The sets of headers that may be taken, per being the sorted headers of each
\* shard.  At every header the time may be up; one with mini blocks may end the
\* work because it cannot be finished, or find no room, as all such headers then do.
createAndProcessCrossMiniBlocksDstMe(per) ==
  LET start == [info |-> {}, last |-> [s \in Shards |-> lastNotarizedHdrForShard(s)], room |-> "yes"]
      add(a, h) == [a EXCEPT !.info = @ \cup {h}, !.last[Hdr[h].shard] = h]
      fits(a, h) == /\ isHdrConstructionValid(h, a.last[Hdr[h].shard])
                    /\ Attesting(h, per[Hdr[h].shard]).n >= ShardBlockFinality
      full(a) == Cardinality(a.info) + Cardinality(Executed(a.info)) >= MaxItems
      step(a, h) ==
        CASE a.room = "stop" -> {a}
          [] a.room # "stop" /\ full(a) -> {[a EXCEPT !.room = "stop"]}
          [] a.room # "stop" /\ ~full(a) /\ ~fits(a, h) -> {a}
          [] OTHER -> {[a EXCEPT !.room = "stop"]}
                      \cup (IF Hdr[h].mbs THEN {[a EXCEPT !.room = "no"]} ELSE {})
                      \cup (IF Hdr[h].mbs /\ a.room = "no" THEN {} ELSE {add(a, h)})
  IN  {a.info : a \in FoldLeft(LAMBDA A, h : UNION {step(a, h) : a \in A}, {start}, Interleaved(per))}

\* an element of Seqs[s] for every s
PerShard(Seqs) == {f \in [Shards -> UNION {Seqs[s] : s \in Shards}] :
                        \A s \in Shards : f[s] \in Seqs[s]}

\* checkBlockValidity
Follows(r) == metaChain # <<>> => r > Last(metaChain).round

\* CreateBlockBody and ApplyBodyToHeader; createBlockStarted clears the table.
CreateBlockBody ==
  /\ metaPhase = "idle" /\ Len(metaChain) < MaxMetaBlocks /\ Follows(metaRound)
  /\ LET ordered == getOrderedHdrs(metaRound)
     IN  \E per \in PerShard([s \in Shards |-> SortHeadersByNonce[OfShard(ordered, s)]]) :
         \E info \in createAndProcessCrossMiniBlocksDstMe(per) :
           /\ block' = [round |-> metaRound, info |-> info, body |-> Executed(info)]
           /\ hdrInfo' = [h \in Headers |-> IF h \in info THEN "used" ELSE "none"]
  /\ metaPhase' = "processed"
  /\ missingHdrs' = 0 /\ missingFinalityAttestingHdrs' = 0 /\ uncounted' = {}
  /\ highestHdrNonce' = [s \in Shards |-> 0]
  /\ UNCHANGED <<shardHeaders, notarizedHdrs, metaChain, highest, metaRound, handlers, senders,
                 cleaning>>

-----------------------------------------------------------------------------
\* everybody else

\* process.EmptyChannel takes the signal of every handler that is at the channel
DrainHeadersChannel(q) == SelectSeq(q, LAMBDA x : x.at = "decided")

\* createBlockStarted, EmptyChannel and computeMissingAndExistingShardHeaders.
\* A block without shard headers waits for nothing.
ProcessBlock(info, body) ==
  /\ metaPhase = "idle" /\ Len(metaChain) < MaxMetaBlocks /\ Follows(metaRound) /\ Reached
  /\ block' = [round |-> metaRound, info |-> info, body |-> body]
  /\ senders' = DrainHeadersChannel(senders)
  /\ LET known == info \cap shardHeaders
         drained == {senders[i].hdr : i \in {j \in DOMAIN senders : senders[j].at = "sending"}}
     IN  /\ hdrInfo' = [h \in Headers |-> IF h \in known THEN "used" ELSE "none"]
         /\ uncounted' = info \ known
         /\ missingHdrs' = Cardinality(info \ known)
         /\ highestHdrNonce' = [s \in Shards |->
                                  Max({0} \cup {Hdr[h].nonce : h \in OfShard(known, s)})]
         /\ shardHeaders' = shardHeaders \ {h \in drained : isHeaderOutOfRange(h)}
  /\ missingFinalityAttestingHdrs' = 0
  /\ metaPhase' = IF info = {} THEN "check" ELSE "request"
  /\ UNCHANGED <<notarizedHdrs, metaChain, highest, metaRound, handlers, cleaning>>

\* The second half of requestShardHeaders, after the lock was given back once.
\* When the time is up, ProcessBlock returns and leaves the counts as they are.
requestShardHeaders ==
  /\ metaPhase = "request"
  /\ LET table == [h \in Headers |-> IF h \in uncounted THEN "missing" ELSE hdrInfo[h]]
         req   == requestMissingFinalityAttestingShardHeaders(table, shardHeaders, highestHdrNonce)
     IN  IF missingHdrs = 0
         THEN /\ hdrInfo' = req.table
              /\ missingFinalityAttestingHdrs' = req.missing
              /\ metaPhase' \in {IF req.missing > 0 THEN "wait" ELSE "check", "idle"}
         ELSE /\ hdrInfo' = table /\ metaPhase' \in {"wait", "idle"}
              /\ UNCHANGED missingFinalityAttestingHdrs
  /\ uncounted' = {}
  /\ UNCHANGED <<shardHeaders, notarizedHdrs, metaChain, highest, metaRound, block, missingHdrs,
                 highestHdrNonce, handlers, senders, cleaning>>

\* waitForBlockHeaders; the signal and the time-out both reset the counts
waitForBlockHeaders ==
  /\ metaPhase = "wait"
  /\ \/ \E i \in DOMAIN senders :
          /\ senders[i].at = "sending"
          /\ senders' = RemoveAt(senders, i) /\ metaPhase' = "check"
          /\ shardHeaders' = Kept(shardHeaders, senders[i].hdr)
          /\ UNCHANGED <<block, hdrInfo, highestHdrNonce>>
     \/ metaPhase' = "idle" /\ Forgotten /\ UNCHANGED <<senders, shardHeaders>>
  /\ missingHdrs' = 0 /\ missingFinalityAttestingHdrs' = 0
  /\ UNCHANGED <<notarizedHdrs, metaChain, highest, metaRound, uncounted, handlers, cleaning>>

Used == {h \in Headers : hdrInfo[h] = "used"}
AttestingHdrs == {h \in Headers : hdrInfo[h] = "attesting"}

\* the headers of a shard, sorted, are a chain upon the last notarized one
checkShardHeadersValidity ==
  \A s \in Shards : \A q \in SortHeadersByNonce[OfShard(Used, s)] :
    \A i \in DOMAIN q :
      isHdrConstructionValid(q[i], IF i = 1 THEN lastNotarizedHdrForShard(s) ELSE q[i - 1])

HighestNonceHdrs ==
  {h \in Used : \A g \in Used : Hdr[g].shard = Hdr[h].shard => Hdr[g].nonce <= Hdr[h].nonce}

\* block.body stands for the mini blocks of the header
verifyCrossShardMiniBlockDstMe == Executed({h \in Used : Hdr[h].round <= block.round}) \subseteq block.body

\* The sort of the headers reads the header of every used entry.
NilHeader == \E h \in Headers : hdrInfo[h] = "missing"

\* checkShardHeadersFinality asks for K headers upon the highest one of each
\* shard, and takes the ones that do not fit out of the pool.
CheckBlock ==
  /\ metaPhase = "check"
  /\ \/ NilHeader /\ metaPhase' = "panic" /\ UNCHANGED shardHeaders
     \/ /\ ~NilHeader /\ ~checkShardHeadersValidity
        /\ metaPhase' = "idle" /\ UNCHANGED shardHeaders
     \/ /\ ~NilHeader /\ checkShardHeadersValidity
        /\ \E q \in PerShard([s \in Shards |-> SortHeadersByNonce[OfShard(AttestingHdrs, s)]]) :
             LET a == [h \in HighestNonceHdrs |-> Attesting(h, q[Hdr[h].shard])]
             IN  /\ shardHeaders' = shardHeaders \ UNION {a[h].misfits : h \in HighestNonceHdrs}
                 /\ metaPhase' = IF /\ \A h \in HighestNonceHdrs : a[h].n >= ShardBlockFinality
                                    /\ verifyCrossShardMiniBlockDstMe
                                 THEN "processed" ELSE "idle"
  /\ IF metaPhase' = "idle" THEN Forgotten ELSE UNCHANGED <<block, hdrInfo, highestHdrNonce>>
  /\ UNCHANGED <<notarizedHdrs, metaChain, highest, metaRound, uncounted, missingHdrs,
                 missingFinalityAttestingHdrs, handlers, senders, cleaning>>

-----------------------------------------------------------------------------
\* commit and roll back

\* one entry per shard and block, also when nothing of the shard was notarized
saveLastNotarizedHeader(notarized, info) ==
  [s \in Shards |->
     LET H == OfShard(info, s)
         highestOf == {h \in H : \A g \in H : Hdr[g].nonce <= Hdr[h].nonce}
         last == Last(notarized[s])
     IN  Append(notarized[s],
                IF H # {} /\ \E h \in highestOf : Hdr[h].nonce > Header(last).nonce
                THEN CHOOSE h \in highestOf : TRUE ELSE last)]

removeNotarizedHdrsBehindPreviousFinal(notarized) ==
  LET keep == ShardBlockFinality + 1
  IN  [s \in Shards |-> IF Len(notarized[s]) > keep
                        THEN SubSeq(notarized[s], Len(notarized[s]) - keep, Len(notarized[s]))
                        ELSE notarized[s]]

\* When commitAll fails the block is dropped after its headers were saved.
CommitBlock ==
  /\ metaPhase = "processed"
  /\ metaPhase' = "idle"
  /\ LET saved == saveLastNotarizedHeader(notarizedHdrs, block.info)
     IN  \/ /\ metaChain' = Append(metaChain, block)
            /\ highest' = Max({highest, Len(metaChain) + 1})
            /\ notarizedHdrs' = removeNotarizedHdrsBehindPreviousFinal(saved)
            /\ shardHeaders' = shardHeaders \ block.info
            /\ cleaning' = TRUE
         \/ /\ CommitFails
            /\ notarizedHdrs' = saved
            /\ UNCHANGED <<metaChain, highest, shardHeaders, cleaning>>
  /\ Forgotten
  /\ UNCHANGED <<metaRound, uncounted, missingHdrs, missingFinalityAttestingHdrs, handlers, senders>>

\* the consensus does not come to an end
AbandonBlock ==
  /\ metaPhase = "processed"
  /\ metaPhase' = "idle" /\ Forgotten
  /\ UNCHANGED <<shardHeaders, notarizedHdrs, metaChain, highest, metaRound, uncounted, missingHdrs,
                 missingFinalityAttestingHdrs, handlers, senders, cleaning>>

cleanupPools ==
  /\ cleaning
  /\ cleaning' = FALSE
  /\ shardHeaders' = {h \in shardHeaders :
                        LET n == Header(lastNotarizedHdrForShard(Hdr[h].shard)).nonce
                        IN  n <= 1 \/ Hdr[h].nonce >= n}
  /\ UNCHANGED <<notarizedHdrs, metaChain, highest, metaRound, metaPhase, block, current, handlers,
                 senders>>

removeLastNotarized(notarized) ==
  [s \in Shards |-> IF Len(notarized[s]) > 1 THEN Front(notarized[s]) ELSE notarized[s]]

\* RestoreBlockIntoPools, when the synchronisation rolls a block back
RestoreBlockIntoPools ==
  /\ metaPhase = "idle" /\ metaChain # <<>> /\ highest - Len(metaChain) < RollBackDepth
  /\ shardHeaders' = shardHeaders \cup Last(metaChain).info
  /\ handlers' = handlers \cup Last(metaChain).info
  /\ notarizedHdrs' = removeLastNotarized(notarizedHdrs)
  /\ metaChain' = Front(metaChain)
  /\ UNCHANGED <<highest, metaRound, metaPhase, block, current, senders, cleaning>>

MetaNext ==
  \/ NextMetaRound
  \/ \E h \in Headers : Put(h) \/ receivedShardHeader(h)
  \/ ReachHeadersChannel
  \/ CreateBlockBody
  \/ \E info \in SUBSET {h \in Headers : Hdr[h].round <= metaRound} :
       /\ Cardinality(info) <= MaxItems
       /\ \E body \in {{}, Executed(info)} : ProcessBlock(info, body)
  \/ requestShardHeaders
  \/ waitForBlockHeaders
  \/ CheckBlock
  \/ CommitBlock
  \/ AbandonBlock
  \/ cleanupPools
  \/ RestoreBlockIntoPools

-----------------------------------------------------------------------------
MetaTypeOK ==
  /\ shardHeaders \subseteq Headers
  /\ \A s \in Shards : notarizedHdrs[s] # <<>>
  /\ metaPhase \in {"idle", "request", "wait", "check", "processed", "panic"}
  /\ hdrInfo \in [Headers -> {"none", "missing", "used", "attesting"}]
  /\ missingHdrs \in 0 .. MaxItems

\* what the chain notarizes of a shard, block by block
NotarizedBy(s) == UNION {OfShard(metaChain[i].info, s) : i \in DOMAIN metaChain}

\* The headers of a shard in the meta chain are one chain from genesis: none is
\* notarized twice or left out and no fork gets in, whatever a leader proposes
\* and after any roll back.
NotarizedOnceInOrder ==
  /\ \A s \in Shards :
       /\ \A h \in NotarizedBy(s) : Hdr[h].prev = 0 \/ Hdr[h].prev \in NotarizedBy(s)
       /\ \A g, h \in NotarizedBy(s) : Hdr[g].nonce = Hdr[h].nonce => g = h
  /\ \A i, j \in DOMAIN metaChain : i # j => metaChain[i].info \cap metaChain[j].info = {}

\* The stack of notarized headers, which is cut after every commit and popped by
\* every roll back, still ends with what the chain notarizes last.
LastNotarizedFollowsChain ==
  \A s \in Shards :
    LET N == NotarizedBy(s)
    IN  lastNotarizedHdrForShard(s) =
          IF N = {} THEN 0 ELSE CHOOSE h \in N : \A g \in N : Hdr[g].nonce <= Hdr[h].nonce

\* When a block gets ready to be committed, each of its headers has a header
\* built upon it that the node knows.
OnlyFinalNotarized ==
  [][metaPhase # "processed" /\ metaPhase' = "processed" =>
       \A h \in block'.info : \E t \in block'.info \cup AttestingHdrs \cup shardHeaders :
         isHdrConstructionValid(t, h)]_metaVars

\* The mini blocks for the metachain of a notarized header are executed by the
\* block that notarizes it.
CrossMiniBlocksExecuted ==
  \A i \in DOMAIN metaChain : Executed(metaChain[i].info) = metaChain[i].body

\* While the processing waits, exactly the headers that have not arrived count
\* as missing: the count, an unsigned number, is never decremented too often.
MissingCounted ==
  metaPhase = "wait" => missingHdrs = Cardinality({h \in Headers : hdrInfo[h] = "missing"})

\* The processing never looks at a header that has not arrived: a signal is only
\* received when nothing is missing.
NoNilHeader == metaPhase # "panic"
=============================================================================
