---------------------------- MODULE SyncRequests ----------------------------
(* How a node gets the headers it misses: the bootstrapper those of its own  *)
(* chain, the block processor those of another chain (second part).          *)
(*                                                                           *)
(* The bootstrapper gets the next header and its mini blocks                 *)
(* (process/sync: baseSync, shardblock, metablock; the lookups of            *)
(* process/common.go; genericBlockBodyResolver).  The sync goroutine looks   *)
(* into the pools, asks the network and waits on an unbuffered channel with  *)
(* a timeout; every item that enters a pool starts a goroutine with a        *)
(* callback that may clear the request and signal the channel.               *)
(*                                                                           *)
(* The blocks are valid and extend each other: invalid blocks and forks are  *)
(* in Bootstrap.  The node keeps hearing of the highest block, so ShouldSync *)
(* holds until it is committed.                                              *)
EXTENDS Integers, FiniteSetsExt, Functions

CONSTANTS
    SyncHdr,        \* hash |-> [shard, nonce, prev, parts]: the headers of the network
    NoHdr,          \* nil, and the genesis block
    MaxWaits,       \* process.MaxRequestsWithTimeoutAllowed
    MaxInAdvance,   \* process.MaxHeadersToRequestInAdvance
    SlowCallbacks,  \* TRUE: a callback may outlast a wait, or pause before its send
    MaxFaults       \* bound: items that leave a pool, requests that cannot be sent

SyncHashes == DOMAIN SyncHdr
Kinds == {"shard", "meta"}
SyncNonces == {SyncHdr[h].nonce : h \in SyncHashes}
SyncParts == UNION {SyncHdr[h].parts : h \in SyncHashes}

ASSUME SyncAssumption ==
    /\ NoHdr \notin SyncHashes
    /\ \A h \in SyncHashes : SyncHdr[h].shard \in Kinds /\ SyncHdr[h].nonce \in Nat \ {0}
    /\ MaxWaits \in Nat \ {0} /\ MaxInAdvance \in Nat \ {0} /\ MaxFaults \in Nat
    /\ SlowCallbacks \in BOOLEAN

VARIABLES
    self,       \* shardCoordinator.SelfId(): a node of a shard or of the metachain
    notarized,  \* the hashes forkDetector.GetNotarizedHeaderHash knows
    headers,    \* the headers cacher of the own shard
    nonces,     \* headersNonces: nonce |-> shard |-> hash
    miniBlocks, \* the mini blocks cacher
    stored,     \* storage: hashes of the headers and mini blocks committed
    tip,        \* blkc.GetCurrentBlockHeaderHash()
    wanted,     \* headerNonce, headerhash and requestedHashes of the bootstrapper
    fetch,      \* where syncBlock is
    callbacks,  \* the goroutines the pools started
    sent,       \* the items the last step asked of the network
    waits,      \* requestsWithTimeout
    faults      \* of the bound MaxFaults

poolVars == <<headers, nonces, miniBlocks>>
srVars == <<self, notarized, poolVars, stored, tip, wanted, fetch, callbacks,
            sent, waits, faults>>

OwnHashes == {h \in SyncHashes : SyncHdr[h].shard = self}
Highest == CHOOSE h \in OwnHashes : \A g \in OwnHashes : SyncHdr[g].nonce <= SyncHdr[h].nonce
TipNonce == IF tip = NoHdr THEN 0 ELSE SyncHdr[tip].nonce
getNonceForNextBlock == TipNonce + 1

\* The steps of syncBlock, and the wake-up it got
Rest == [pc |-> "rest", kind |-> "none", hdr |-> NoHdr, need |-> {}, woken |-> {}]
At(pc, kind, hdr, need) == [Rest EXCEPT !.pc = pc, !.kind = kind, !.hdr = hdr, !.need = need]

NothingWanted == [nonce |-> 0, hash |-> NoHdr, parts |-> {}, left |-> {}]

NewBootstrap ==
    /\ self \in Kinds
    /\ notarized \in SUBSET OwnHashes
    /\ headers = {} /\ miniBlocks = {}
    /\ nonces = [n \in SyncNonces |-> [s \in Kinds |-> NoHdr]]
    /\ stored = {NoHdr}
    /\ tip = NoHdr
    /\ wanted = NothingWanted
    /\ fetch = Rest
    /\ callbacks = {}
    /\ sent = {}
    /\ waits = 0 /\ faults = 0
-----------------------------------------------------------------------------
(* Lookups: the set of the header found, empty for an error *)

getHeaderFromPool(h) == headers \cap {h}
GetShardHeaderFromPool(h) == {x \in getHeaderFromPool(h) : SyncHdr[x].shard = "shard"}
GetMetaHeaderFromPool(h) == {x \in getHeaderFromPool(h) : SyncHdr[x].shard = "meta"}

getHeaderFromPoolWithNonce(n, shard) ==
    IF n \in SyncNonces THEN headers \cap {nonces[n][shard]} ELSE {}
GetShardHeaderFromPoolWithNonce(n) ==
    {x \in getHeaderFromPoolWithNonce(n, self) : SyncHdr[x].shard = "shard"}
GetMetaHeaderFromPoolWithNonce(n) ==
    {x \in getHeaderFromPoolWithNonce(n, "meta") : SyncHdr[x].shard = "meta"}

GetMarshalizedHeaderFromStorage(h) == stored \cap {h}
GetShardHeaderFromStorage(h) ==
    {x \in GetMarshalizedHeaderFromStorage(h) : SyncHdr[x].shard = "shard"}
GetMetaHeaderFromStorage(h) ==
    {x \in GetMarshalizedHeaderFromStorage(h) : SyncHdr[x].shard = "meta"}

GetShardHeader(h) ==
    IF GetShardHeaderFromPool(h) # {} THEN GetShardHeaderFromPool(h)
    ELSE GetShardHeaderFromStorage(h)
GetMetaHeader(h) ==
    IF GetMetaHeaderFromPool(h) # {} THEN GetMetaHeaderFromPool(h)
    ELSE GetMetaHeaderFromStorage(h)

\* The lookups of the two bootstrappers
HeaderWithHash(h) == IF self = "shard" THEN GetShardHeader(h) ELSE GetMetaHeader(h)
ReceivedWithHash(h) ==
    IF self = "shard" THEN GetShardHeaderFromPool(h) ELSE GetMetaHeaderFromPool(h)
ReceivedWithNonce(n) ==
    IF self = "shard" THEN GetShardHeaderFromPoolWithNonce(n)
    ELSE GetMetaHeaderFromPoolWithNonce(n)

\* The hashes GetMiniBlocksFromPool, getMiniBlocksFromStorer and GetMiniBlocks miss
MissingInPool(parts) == parts \ miniBlocks
MissingInStorer(parts) == parts \ stored
MissingMiniBlocks(parts) == MissingInStorer(MissingInPool(parts))
-----------------------------------------------------------------------------
(* The callbacks of the pools *)

Callback(kind, item) == [kind |-> kind, item |-> item, sends |-> FALSE, whole |-> {}]
Sending(kind) == {c \in callbacks : c.kind = kind /\ c.sends}

\* receivedHeaderNonce: another shard's header with the nonce is not the one
MatchesNonce(h) == SyncHdr[h].shard = self /\ wanted.nonce = SyncHdr[h].nonce

receivedHeaderNonce(c) ==
    /\ c.kind = "nonce"
    /\ IF MatchesNonce(c.item)
       THEN /\ wanted' = [wanted EXCEPT !.nonce = 0]
            /\ callbacks' = (callbacks \ {c}) \cup {[c EXCEPT !.sends = TRUE]}
       ELSE /\ callbacks' = callbacks \ {c}
            /\ UNCHANGED wanted

\* receivedHeaders of the shard, receivedHeader of the metachain, then
\* processReceivedHeader
receivedHeader(c) ==
    /\ c.kind = "hash"
    /\ IF ReceivedWithHash(c.item) # {} /\ wanted.hash = c.item
       THEN /\ wanted' = [wanted EXCEPT !.hash = NoHdr]
            /\ callbacks' = (callbacks \ {c}) \cup {[c EXCEPT !.sends = TRUE]}
       ELSE /\ callbacks' = callbacks \ {c}
            /\ UNCHANGED wanted

\* Not modelled as bits: the hashes of RequiredDataPool still to receive
SetHashes(parts) == [wanted EXCEPT !.parts = parts, !.left = parts]
SetReceivedHash(m) == [wanted EXCEPT !.left = @ \ {m}]
ReceivedAll(w) == w.left = {}

receivedBodyHash(c) ==
    /\ c.kind = "body"
    /\ IF wanted.parts # {} /\ ReceivedAll(SetReceivedHash(c.item))
       THEN /\ wanted' = SetHashes({})
            /\ callbacks' = (callbacks \ {c})
                                \cup {[c EXCEPT !.sends = TRUE, !.whole = wanted.parts]}
       ELSE /\ wanted' = IF wanted.parts = {} THEN wanted ELSE SetReceivedHash(c.item)
            /\ callbacks' = callbacks \ {c}

RunCallback ==
    /\ \E c \in callbacks :
          /\ ~c.sends
          /\ receivedHeaderNonce(c) \/ receivedHeader(c) \/ receivedBodyHash(c)
    /\ sent' = {}
    /\ UNCHANGED <<self, notarized, poolVars, stored, tip, fetch, waits, faults>>
-----------------------------------------------------------------------------
(* The network *)

\* The header interceptors of the shards save into cachers of their own
OwnCacher(h) == SyncHdr[h].shard = self

\* Save of the header interceptor's processor: headers.HasOrAdd, then
\* headersNonces.Merge; each calls its handlers only for something new
ReceiveHdr(h) ==
    LET shard == SyncHdr[h].shard
        n == SyncHdr[h].nonce
        added == OwnCacher(h) /\ h \notin headers
        merged == nonces[n][shard] # h
    IN  /\ added \/ merged
        /\ headers' = IF OwnCacher(h) THEN headers \cup {h} ELSE headers
        /\ nonces' = [nonces EXCEPT ![n][shard] = h]
        /\ callbacks' = callbacks
               \cup (IF added THEN {Callback("hash", h)} ELSE {})
               \cup (IF merged THEN {Callback("nonce", h)} ELSE {})
        /\ sent' = {}
        /\ UNCHANGED <<self, notarized, miniBlocks, stored, tip, wanted, fetch, waits, faults>>

ReceivePart(m) ==
    /\ m \notin miniBlocks
    /\ miniBlocks' = miniBlocks \cup {m}
    /\ callbacks' = callbacks \cup {Callback("body", m)}
    /\ sent' = {}
    /\ UNCHANGED <<self, notarized, headers, nonces, stored, tip, wanted, fetch, waits, faults>>

\* A full cacher or a clean-up after a commit removes a header or a mini block
Leave ==
    /\ faults < MaxFaults
    /\ faults' = faults + 1
    /\ \/ \E h \in headers : headers' = headers \ {h} /\ UNCHANGED miniBlocks
       \/ \E m \in miniBlocks : miniBlocks' = miniBlocks \ {m} /\ UNCHANGED headers
    /\ sent' = {}
    /\ UNCHANGED <<self, notarized, nonces, stored, tip, wanted, fetch, callbacks, waits>>
-----------------------------------------------------------------------------
(* Requests *)

HeadersWithNonce(n) == {h \in OwnHashes : SyncHdr[h].nonce = n}

Send(items) ==
    \/ sent' = items /\ UNCHANGED faults
    \/ sent' = {} /\ faults < MaxFaults /\ faults' = faults + 1

\* The callbacks that EmptyChannel leaves: the ones that have not reached their send
EmptyHeaderChannel(kind) ==
    {callbacks \ (Sending(kind) \ late) :
        late \in IF SlowCallbacks THEN SUBSET Sending(kind) ELSE {{}}}

requestHeaderWithNonce ==
    /\ wanted' = [wanted EXCEPT !.nonce = getNonceForNextBlock]
    /\ Send(HeadersWithNonce(getNonceForNextBlock))
requestHeaderWithHash(h) ==
    /\ wanted' = [wanted EXCEPT !.hash = h]
    /\ Send({h})
requestMiniBlocksByHashes(parts) ==
    /\ wanted' = SetHashes(parts)
    /\ Send(parts)

\* Between the lookup that found nothing and the wait
Ask ==
    /\ fetch.pc = "ask"
    /\ callbacks' \in EmptyHeaderChannel(fetch.kind)
    /\ CASE fetch.kind = "nonce" -> requestHeaderWithNonce
         [] fetch.kind = "hash" -> \E h \in notarized \cap HeadersWithNonce(getNonceForNextBlock) :
                                      requestHeaderWithHash(h)
         [] fetch.kind = "body" -> requestMiniBlocksByHashes(fetch.need)
    /\ fetch' = [fetch EXCEPT !.pc = "wait"]
    /\ UNCHANGED <<self, notarized, poolVars, stored, tip, waits>>

\* What requestedItemsHandler remembers as just requested runs out with time: any
\* set of items.  requestHeadersFromNonceIfMissing asks haveHeaderInPoolWithNonce
\* for the first nonce only.
AheadNonces(n) ==
    {m \in n..(n + MaxInAdvance - 1) : m <= SyncHdr[Highest].nonce}
HeadersAhead(n, recent) ==
    IF ReceivedWithNonce(n) # {} THEN {}
    ELSE UNION {HeadersWithNonce(m) : m \in AheadNonces(n)} \ recent

\* The goroutine syncBlock starts once it has a header
RequestHeadersAhead ==
    /\ fetch.hdr # NoHdr
    /\ \E recent \in SUBSET OwnHashes :
          /\ HeadersAhead(SyncHdr[fetch.hdr].nonce + 1, recent) # {}
          /\ Send(HeadersAhead(SyncHdr[fetch.hdr].nonce + 1, recent))
    /\ UNCHANGED <<self, notarized, poolVars, stored, tip, wanted, fetch, callbacks, waits>>

\* requestMiniBlocksFromHeaderWithNonceIfMissing: the goroutine receivedHeaderNonce
\* starts may run whenever the header is in the pools
PartsAhead(n, recent) ==
    UNION {MissingInPool(SyncHdr[h].parts \ recent) : h \in ReceivedWithNonce(n)}

RequestPartsAhead ==
    /\ \E n \in AheadNonces(getNonceForNextBlock), recent \in SUBSET SyncParts :
          PartsAhead(n, recent) # {} /\ Send(PartsAhead(n, recent))
    /\ UNCHANGED <<self, notarized, poolVars, stored, tip, wanted, fetch, callbacks, waits>>
-----------------------------------------------------------------------------
(* The sync goroutine *)

\* getBlockBodyRequestingIfMissing up to its lookup in the pool
GotHeader(h, w) ==
    /\ wanted' = [w EXCEPT !.parts = {}, !.left = {}]
    /\ fetch' = IF MissingInPool(SyncHdr[h].parts) = {}
                THEN At("process", "none", h, {})
                ELSE At("ask", "body", h, MissingInPool(SyncHdr[h].parts))

\* getNextHeaderRequestingIfMissing up to the first lookup of
\* getHeaderWithHashRequestingIfMissing or getHeaderWithNonceRequestingIfMissing
FirstLookup(found, kind) ==
    LET w == [wanted EXCEPT !.nonce = 0, !.hash = NoHdr]
    IN  IF found # {} THEN \E h \in found : GotHeader(h, w)
        ELSE wanted' = w /\ fetch' = At("ask", kind, NoHdr, {})

GetNextHeader ==
    /\ fetch.pc = "rest"
    /\ tip # Highest
    /\ \E known \in {notarized \cap HeadersWithNonce(getNonceForNextBlock)} :
          IF known # {}
          THEN FirstLookup(UNION {HeaderWithHash(h) : h \in known}, "hash")
          ELSE FirstLookup(ReceivedWithNonce(getNonceForNextBlock), "nonce")
    /\ sent' = {}
    /\ UNCHANGED <<self, notarized, poolVars, stored, tip, callbacks, waits, faults>>

\* waitForHeaderNonce, waitForHeaderHash, waitForMiniBlocks: the channel
Wake ==
    /\ fetch.pc = "wait"
    /\ \E c \in Sending(fetch.kind) :
          /\ callbacks' = callbacks \ {c}
          /\ fetch' = [fetch EXCEPT !.pc = "again", !.woken = {c}]
    /\ sent' = {}
    /\ UNCHANGED <<self, notarized, poolVars, stored, tip, wanted, waits, faults>>

\* rollBackOneBlock: the block is put back into the pools, its nonce is not
RolledBackBody == IF tip = NoHdr THEN {} ELSE SyncHdr[tip].parts
CanRollBackTip ==
    /\ tip # NoHdr
    /\ MissingMiniBlocks(SyncHdr[tip].parts) = {}
    /\ SyncHdr[tip].prev \in stored
ForgetNonce(h, ns) ==
    IF h = NoHdr THEN ns ELSE [ns EXCEPT ![SyncHdr[h].nonce][self] = NoHdr]

RollBackTip(failed) ==
    IF CanRollBackTip
    THEN /\ tip' = SyncHdr[tip].prev
         /\ nonces' = ForgetNonce(tip, ForgetNonce(failed, nonces))
         /\ miniBlocks' = miniBlocks \cup RolledBackBody
         /\ callbacks' = callbacks \cup {Callback("body", m) : m \in RolledBackBody}
    ELSE /\ nonces' = ForgetNonce(failed, nonces)
         /\ UNCHANGED <<tip, miniBlocks, callbacks>>

Mut_Timeout == FALSE /\ UNCHANGED srVars
\* doJobOnSyncBlockFail with ErrTimeIsOut; the round may be the proper one
Timeout ==
    /\ fetch.pc = "wait"
    /\ ~SlowCallbacks => \A c \in callbacks : c.sends
    /\ fetch' = Rest
    /\ \E isInProperRound \in BOOLEAN :
          IF waits + 1 >= MaxWaits /\ isInProperRound
          THEN waits' = 0 /\ RollBackTip(fetch.hdr)
          ELSE /\ waits' = IF waits < MaxWaits THEN waits + 1 ELSE waits
               /\ UNCHANGED <<tip, nonces, miniBlocks, callbacks>>
    /\ sent' = {}
    /\ UNCHANGED <<self, notarized, headers, stored, wanted, faults>>

\* The second lookup: what was found before it is kept
SecondLookup ==
    CASE fetch.kind = "nonce" -> ReceivedWithNonce(getNonceForNextBlock)
      [] fetch.kind = "hash" ->
            UNION {ReceivedWithHash(h) : h \in notarized \cap HeadersWithNonce(getNonceForNextBlock)}
      [] fetch.kind = "body" -> IF MissingInPool(fetch.need) = {} THEN {fetch.hdr} ELSE {}

LookAgain ==
    /\ fetch.pc = "again"
    /\ SecondLookup # {}
    /\ \E h \in SecondLookup :
          IF fetch.kind = "body"
          THEN fetch' = At("process", "none", h, {}) /\ UNCHANGED wanted
          ELSE GotHeader(h, wanted)
    /\ sent' = {}
    /\ UNCHANGED <<self, notarized, poolVars, stored, tip, callbacks, waits, faults>>

\* ErrMissingHeader, ErrMissingHashForHeaderNonce or ErrMissingBody: not a
\* timeout, so the node rolls back
StillMissing ==
    /\ fetch.pc = "again"
    /\ SecondLookup = {}
    /\ fetch' = Rest
    /\ waits' = 0
    /\ RollBackTip(fetch.hdr)
    /\ sent' = {}
    /\ UNCHANGED <<self, notarized, headers, stored, wanted, faults>>

\* ProcessBlock and CommitBlock of the block
CommitFetched ==
    /\ fetch.pc = "process"
    /\ tip' = fetch.hdr
    /\ stored' = stored \cup {fetch.hdr} \cup SyncHdr[fetch.hdr].parts
    /\ waits' = 0
    /\ fetch' = Rest
    /\ sent' = {}
    /\ UNCHANGED <<self, notarized, poolVars, wanted, callbacks, faults>>
-----------------------------------------------------------------------------
SyncStep == GetNextHeader \/ Ask \/ Wake \/ Timeout \/ LookAgain \/ StillMissing \/ CommitFetched

SyncRequestsNext ==
    \/ SyncStep
    \/ RunCallback
    \/ \E h \in SyncHashes : ReceiveHdr(h)
    \/ \E m \in SyncParts : ReceivePart(m)
    \/ Leave
    \/ RequestHeadersAhead \/ RequestPartsAhead

SyncRequestsSpec == NewBootstrap /\ [][SyncRequestsNext]_srVars

\* The sync loop and the goroutines of the callbacks run; an item the node lacks
\* comes in the end, maybe after a timeout: every attempt asks for it again.
LiveSyncRequests ==
    /\ SyncRequestsSpec
    /\ WF_srVars(SyncStep) /\ WF_srVars(RunCallback)
    /\ \A h \in SyncHashes : WF_srVars(ReceiveHdr(h))
    /\ \A m \in SyncParts : WF_srVars(ReceivePart(m))
-----------------------------------------------------------------------------
(* Properties *)

\* The pools hold headers and mini blocks of the network, the nonce map the
\* header of that nonce and shard, a callback that sends cleared a request.
SyncTypeOK ==
    /\ headers \subseteq OwnHashes /\ miniBlocks \subseteq SyncParts
    /\ \A n \in SyncNonces, s \in Kinds :
          nonces[n][s] \in {NoHdr} \cup {h \in SyncHashes : SyncHdr[h].nonce = n /\ SyncHdr[h].shard = s}
    /\ tip \in {NoHdr} \cup OwnHashes
    /\ fetch.pc \in {"rest", "ask", "wait", "again", "process"}
    /\ wanted.left \subseteq wanted.parts
    /\ waits \in 0..MaxWaits

\* A wake-up means that what the node waits for is in the pools: as long as no
\* pool lost an item, the second lookup after the wait finds the header or the
\* mini blocks, and the node does not roll back for a signal that belonged to
\* an earlier request (EmptyChannel before each request).
SignalMeansThere ==
    fetch.pc = "again" /\ faults = 0 => SecondLookup # {}

\* A callback that cleared the request of the waiting node stays with its send
\* until the node takes it: the node never waits for a signal nobody will send,
\* and a header of another shard with the same nonce does not clear the request.
ClearedMeansSignalled ==
    fetch.pc = "wait" =>
        \/ Sending(fetch.kind) # {}
        \/ CASE fetch.kind = "nonce" -> wanted.nonce = getNonceForNextBlock
             [] fetch.kind = "hash" -> wanted.hash \in HeadersWithNonce(getNonceForNextBlock)
             [] fetch.kind = "body" -> wanted.parts = fetch.need

\* The current block can be rolled back whatever the pools have dropped: its
\* mini blocks and its previous header are found (getBlockBody, getPrevHeader).
TipCanBeRolledBack == tip # NoHdr => CanRollBackTip

\* A node behind the network commits the highest block in the end, whatever
\* signals it missed between a lookup and its request, timeouts and roll backs
\* on the way included.
SyncCatchesUp == []<>(tip = Highest)

\* process/constants.go: headers are requested in advance "if they are missing".
AheadOnlyMissing ==
    [][fetch.hdr # NoHdr /\ fetch' = fetch =>
          \A h \in sent' \cap SyncHashes : ReceivedWithNonce(SyncHdr[h].nonce) = {}]_srVars

-----------------------------------------------------------------------------
(* How a node finds the headers of another chain that it never received.     *)
(* A block that is created or processed starts a goroutine that looks        *)
(* through the pool for gaps above the last notarized header and requests    *)
(* them by nonce (process/block/baseProcess.go, requestHeadersIfMissing;     *)
(* shardblock.go, checkAndRequestIfMetaHeadersMissing; metablock.go,         *)
(* checkAndRequestIfShardHeadersMissing).  A shard also asks again for the   *)
(* mini blocks of the metachain headers near the last notarized one.         *)
(*                                                                           *)
(* The other chain is one sequence of headers; header n is its n-th, with    *)
(* round roundOf[n].  Its forks are not modelled.  A block of this node      *)
(* notarizes the next header once the header that makes it final is there,   *)
(* and in a shard once its mini blocks are.                                  *)

CONSTANTS
    OtherChains,    \* the round sequences the other chain may have
    MaxRound,       \* bound: the last round of this node
    AllowedSize,    \* 90% of the size of the header pool
    MaxHeaderRequestsAllowed,
    MaxHeadersToRequestInAdvance,
    MaxLost         \* bound: headers and requests lost in the network

ASSUME HeaderGapsAssumption ==
    /\ AllowedSize \in Nat \ {0, 1}
    /\ MaxHeaderRequestsAllowed \in Nat \ {0}
    /\ MaxHeadersToRequestInAdvance \in Nat \ {0}

VARIABLES
    side,           \* "shard": follows the metachain; "meta": follows a shard
    roundOf,        \* the rounds of the other chain's headers
    localRound,
    published,      \* headers of the other chain that exist
    pooled,         \* nonces in the header pool
    lastNotarized,
    bodies,         \* headers whose mini blocks are in the pool
    askedHeaders,   \* requests under way, by nonce
    askedBodies,
    lost

gapVars == <<side, roundOf, localRound, published, pooled, lastNotarized,
             bodies, askedHeaders, askedBodies, lost>>

Nonces == DOMAIN roundOf

GapInit ==
    /\ side \in {"shard", "meta"}
    /\ roundOf \in OtherChains
    /\ localRound = 1
    /\ published = 0
    /\ pooled = {}
    /\ lastNotarized = 0
    /\ bodies = {}
    /\ askedHeaders = {}
    /\ askedBodies = {}
    /\ lost = 0

RoundOf(n) == IF n = 0 THEN 0 ELSE roundOf[n]

-----------------------------------------------------------------------------
(* Arrival of a header: receivedMetaBlock, receivedShardHeader             *)

isHeaderOutOfRange(n) == n > lastNotarized + AllowedSize

InAdvance(n) == n <= lastNotarized + MaxHeadersToRequestInAdvance

MissingBodies(ns) == {n \in ns : side = "shard" /\ n \notin bodies}

receivedCrossHeader(n) ==
    /\ pooled' = IF isHeaderOutOfRange(n) THEN pooled ELSE pooled \union {n}
    /\ askedBodies' =
         IF isHeaderOutOfRange(n) \/ n <= lastNotarized \/ ~InAdvance(n)
         THEN askedBodies
         ELSE askedBodies \union MissingBodies({n})

(* The other chain's next header reaches the node or is lost.              *)
Publish ==
    /\ published + 1 \in Nonces
    /\ RoundOf(published + 1) <= localRound
    /\ published' = published + 1
    /\ \/ receivedCrossHeader(published + 1) /\ UNCHANGED lost
       \/ lost < MaxLost /\ lost' = lost + 1 /\ UNCHANGED <<pooled, askedBodies>>
    /\ UNCHANGED <<side, roundOf, localRound, lastNotarized, bodies, askedHeaders>>

AnswerHeader ==
    /\ \E n \in askedHeaders :
         /\ askedHeaders' = askedHeaders \ {n}
         /\ \/ receivedCrossHeader(n) /\ UNCHANGED lost
            \/ lost < MaxLost /\ lost' = lost + 1 /\ UNCHANGED <<pooled, askedBodies>>
    /\ UNCHANGED <<side, roundOf, localRound, published, lastNotarized, bodies>>

AnswerBodies ==
    /\ \E n \in askedBodies :
         /\ askedBodies' = askedBodies \ {n}
         /\ \/ bodies' = bodies \union {n} /\ UNCHANGED lost
            \/ lost < MaxLost /\ lost' = lost + 1 /\ UNCHANGED bodies
    /\ UNCHANGED <<side, roundOf, localRound, published, pooled, lastNotarized,
                   askedHeaders>>

-----------------------------------------------------------------------------
(* The search for gaps                                                     *)

(* getOrderedMetaBlocks, getOrderedHdrs: the headers above the last        *)
(* notarized one that are not newer than the block's round.                *)
orderedHdrs(round) ==
    {n \in pooled : /\ RoundOf(n) <= round
                    /\ RoundOf(n) > RoundOf(lastNotarized)
                    /\ n > lastNotarized}

(* The header before n in the sorted list, the last notarized one for the  *)
(* first of the list.                                                      *)
prevHdr(n, hdrs) == Max({lastNotarized} \union {m \in hdrs : m < n})

Mut_missingNonces(hdrs) ==
    UNION {(prevHdr(n, hdrs) + 2)..(n - 1) : n \in hdrs}

missingNonces(hdrs) ==
    UNION {(prevHdr(n, hdrs) + 1)..(n - 1) : n \in hdrs}

(* Lowest nonces first, up to the end of the pool's range, at most         *)
(* MaxHeaderRequestsAllowed of them.                                       *)
requestHeadersIfMissing(hdrs) ==
    {n \in missingNonces(hdrs) :
       /\ ~isHeaderOutOfRange(n)
       /\ Cardinality({m \in missingNonces(hdrs) : m < n}) < MaxHeaderRequestsAllowed}

checkAndRequestIfMetaHeadersMissing(hdrs) ==
    /\ askedHeaders' = askedHeaders \union requestHeadersIfMissing(hdrs)
    /\ askedBodies' = askedBodies \union MissingBodies({n \in hdrs : InAdvance(n)})

checkAndRequestIfShardHeadersMissing(hdrs) ==
    /\ askedHeaders' = askedHeaders \union requestHeadersIfMissing(hdrs)
    /\ UNCHANGED askedBodies

(* The goroutine a block of this round starts.                             *)
CheckGaps ==
    /\ \/ /\ side = "shard"
          /\ checkAndRequestIfMetaHeadersMissing(orderedHdrs(localRound))
       \/ /\ side = "meta"
          /\ checkAndRequestIfShardHeadersMissing(orderedHdrs(localRound))
    /\ UNCHANGED <<side, roundOf, localRound, published, pooled, lastNotarized,
                   bodies, lost>>

-----------------------------------------------------------------------------

(* A committed block notarizes the next header and takes it from the pool. *)
NotarizeNext ==
    /\ {lastNotarized + 1, lastNotarized + 2} \subseteq orderedHdrs(localRound)
    /\ side = "shard" => lastNotarized + 1 \in bodies
    /\ lastNotarized' = lastNotarized + 1
    /\ pooled' = pooled \ {lastNotarized + 1}
    /\ bodies' = bodies \ {lastNotarized + 1}
    /\ UNCHANGED <<side, roundOf, localRound, published, askedHeaders,
                   askedBodies, lost>>

RoundPasses ==
    /\ localRound < MaxRound
    /\ localRound' = localRound + 1
    /\ UNCHANGED <<side, roundOf, published, pooled, lastNotarized, bodies,
                   askedHeaders, askedBodies, lost>>

GapNext ==
    \/ Publish
    \/ AnswerHeader
    \/ AnswerBodies
    \/ CheckGaps
    \/ NotarizeNext
    \/ RoundPasses

(* Blocks keep being made, and what was requested and is not lost comes.   *)
GapFairness ==
    /\ WF_gapVars(CheckGaps)
    /\ WF_gapVars(AnswerHeader)
    /\ WF_gapVars(AnswerBodies)
    /\ WF_gapVars(NotarizeNext)
    /\ WF_gapVars(RoundPasses)

GapSpec == GapInit /\ [][GapNext]_gapVars /\ GapFairness

-----------------------------------------------------------------------------

(* Whatever is lost on the way, a header that reached the pool is notarized*)
(* in the end together with everything below it, but for itself: it is the *)
(* one that makes its predecessor final.  requestHeadersIfMissing finds    *)
(* each gap below it and, in a shard, the mini blocks are asked for again. *)
NoGap == \A k \in pooled : lastNotarized >= k - 1
GapsAreFilled == []<>NoGap
=============================================================================
