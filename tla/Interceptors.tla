---------------------------- MODULE Interceptors ----------------------------
(***************************************************************************)
(* Messages received on a topic until their data is in a pool.  The        *)
(* callbacks of the messenger run concurrently; they share one throttler   *)
(* whose check and increment are two steps.  A multi data interceptor      *)
(* handles the valid part of a message whose other part is not, in one     *)
(* goroutine per piece of data.                                            *)
(***************************************************************************)
EXTENDS Integers, Sequences, FiniteSets, TLC, Functions

CONSTANTS InMsgs,         \* the messages that arrive, numbered
          Arriving,       \* what they may be together: a set of functions
          Carried,        \* the data of every kind of message, a sequence
          MultiData,      \* the kinds that go to a multi data interceptor
          Datum,          \* what every piece of data is (below)
          MaxGoRoutines,  \* the limit of the throttler
          MaxCallbacks,   \* the callbacks that run at a time
          MaxNonceDelta,  \* maxNonceDeltaAllowed
          LastNonce       \* bound: the account's nonce

ASSUME InMsgsAssumption == IsFiniteSet(InMsgs)

(***************************************************************************)
(* Datum[d]: kind is "tx", "scr", "reward", "hdr", "meta" or "body"; wrong *)
(* is the set of what is wrong with it, of "bytes" (it cannot be           *)
(* unmarshalled), "fields", "shardInfo", "randSeed", "leaderSig" and       *)
(* "sig"; snd and rcv are its shards, Self being the one of this node, and *)
(* parts the <<snd, rcv>> of a body's mini blocks; nonce and cost are      *)
(* those of a transaction, nonce and snd the place of a header.            *)
(***************************************************************************)

VARIABLES came,       \* what the messages are
          phaseOf,    \* of every message: "new", "checked", "started", "waiting", "done", "busy"
          counter,    \* the throttler's counter
          running,    \* of every message, the step of each goroutine: [d -> "validate" | "save" | "index"]
          dataPool,       \* the saved transactions, rewards and headers
          mbPool,     \* the saved mini blocks, as <<body, place in it>>
          nonceIndex, \* headersNonces: <<nonce, shard>> -> hash
          removedHdrs,\* headers taken out of the pool by the processors
          rejected,   \* data turned down by the processors' Validate
          forwarded,  \* what was broadcast again, for every message
          account,    \* the sender's account: its nonce and its balance
          blackList   \* hashes of black listed headers

inVars == <<came, phaseOf, counter, running, dataPool, mbPool, nonceIndex, removedHdrs, rejected, forwarded, account, blackList>>

Self == "self"
IsHeader(d) == Datum[d].kind \in {"hdr", "meta"}
Data(m) == Carried[came[m]]
Of(m) == Range(Data(m))

-----------------------------------------------------------------------------
(* The checks every kind of data makes of itself.                          *)

Without(d, faults) == Datum[d].wrong \cap faults = {}

forThisShard(d) == Self \in {Datum[d].snd, Datum[d].rcv}
isMiniblockForCurrentShard(p) == Self \in {p[1], p[2]}
bodyForThisShard(d) == \E i \in DOMAIN Datum[d].parts : isMiniblockForCurrentShard(Datum[d].parts[i])
InterceptedForCurrentShard(d) ==
  CASE Datum[d].kind = "body" -> bodyForThisShard(d)
    [] Datum[d].kind = "meta" -> TRUE
    [] OTHER                  -> forThisShard(d)

Create(d) == Without(d, {"bytes"})
CheckTransaction(d) == Without(d, {"fields", "sig"})
CheckUnsigned(d) == Without(d, {"fields"})
CheckReward(d) == Without(d, {"fields"})
CheckBody(d) == Without(d, {"fields"})
checkHeaderHandler(d) == Without(d, {"fields"})
checkMetaShardInfo(d) == Without(d, {"shardInfo"})
verifyRandSeedAndLeaderSignature(d) == Without(d, {"randSeed", "leaderSig"})
verifySig(d) == Without(d, {"sig"})
CheckHeader(d) == checkHeaderHandler(d) /\ verifyRandSeedAndLeaderSignature(d) /\ verifySig(d)
CheckMetaHeader(d) ==
  checkHeaderHandler(d) /\ checkMetaShardInfo(d) /\ verifyRandSeedAndLeaderSignature(d) /\ verifySig(d)

CheckValidity(d) ==
  CASE Datum[d].kind = "tx"     -> CheckTransaction(d)
    [] Datum[d].kind = "reward" -> CheckReward(d)
    [] Datum[d].kind = "body"   -> CheckBody(d)
    [] Datum[d].kind = "scr"    -> CheckUnsigned(d)
    [] Datum[d].kind = "hdr"    -> CheckHeader(d)
    [] Datum[d].kind = "meta"   -> CheckMetaHeader(d)

Sound(d) == Create(d) /\ CheckValidity(d)

-----------------------------------------------------------------------------
InInit ==
  /\ came \in Arriving
  /\ phaseOf = [m \in InMsgs |-> "new"]
  /\ counter = 0
  /\ running = [m \in InMsgs |-> <<>>]
  /\ dataPool = {} /\ mbPool = {} /\ removedHdrs = {} /\ rejected = {} /\ blackList = {}
  /\ nonceIndex = <<>>
  /\ forwarded = [m \in InMsgs |-> <<>>]
  /\ account = [nonce |-> 0, balance |-> 1]

InPhase(P) == {m \in InMsgs : phaseOf[m] \in P}

BelowLimit == counter < MaxGoRoutines
CanProcess(m) ==
  /\ phaseOf[m] = "new"
  /\ Cardinality(InPhase({"checked", "started"})) < MaxCallbacks
  /\ phaseOf' = [phaseOf EXCEPT ![m] = IF BelowLimit THEN "checked" ELSE "busy"]
  /\ UNCHANGED <<came, counter, running, dataPool, mbPool, nonceIndex, removedHdrs, rejected, forwarded, account, blackList>>

StartProcessing(m) ==
  /\ phaseOf[m] = "checked"
  /\ counter' = counter + 1
  /\ phaseOf' = [phaseOf EXCEPT ![m] = "started"]
  /\ UNCHANGED <<came, running, dataPool, mbPool, nonceIndex, removedHdrs, rejected, forwarded, account, blackList>>

(* The single data interceptor ends at once on data that is wrong or for   *)
(* another shard and starts one goroutine otherwise.                       *)
Mut_CounterAfter(go) == counter
CounterAfter(go) == IF go THEN counter ELSE counter - 1
ProcessSingle(m) ==
  LET d == Data(m)[1]
      go == Sound(d) /\ InterceptedForCurrentShard(d)
  IN
  /\ phaseOf[m] = "started" /\ came[m] \notin MultiData
  /\ phaseOf' = [phaseOf EXCEPT ![m] = IF go THEN "waiting" ELSE "done"]
  /\ counter' = CounterAfter(go)
  /\ running' = IF go THEN [running EXCEPT ![m] = (d :> "validate")] ELSE running
  /\ UNCHANGED <<came, dataPool, mbPool, nonceIndex, removedHdrs, rejected, forwarded, account, blackList>>

(* The multi data interceptor skips what is wrong, starts a goroutine for  *)
(* each piece of data of this shard and, when something was wrong, passes  *)
(* the sound data on by itself since the messenger will drop the message.  *)
SoundData(m) == SelectSeq(Data(m), LAMBDA d : Sound(d))
Handled(m) == {d \in Of(m) : Sound(d) /\ InterceptedForCurrentShard(d)}
Forwarded(m) == IF Len(SoundData(m)) < Len(Data(m)) THEN SoundData(m) ELSE <<>>

ProcessMulti(m) ==
  /\ phaseOf[m] = "started" /\ came[m] \in MultiData
  /\ phaseOf' = [phaseOf EXCEPT ![m] = "waiting"]
  /\ running' = [running EXCEPT ![m] = [d \in Handled(m) |-> "validate"]]
  /\ forwarded' = [forwarded EXCEPT ![m] = Forwarded(m)]
  /\ UNCHANGED <<came, counter, dataPool, mbPool, nonceIndex, removedHdrs, rejected, account, blackList>>

Finished(m, d) == [running EXCEPT ![m] = [x \in DOMAIN running[m] \ {d} |-> running[m][x]]]
Stepped(m, d, step) == [running EXCEPT ![m][d] = step]

(* The transaction validator looks at the sender only in the sender's      *)
(* shard: the nonce is not behind and not far ahead of the account's and   *)
(* the balance covers value and fee.                                       *)
CheckTxValidity(d) ==
  Datum[d].snd = Self =>
    /\ Datum[d].nonce >= account.nonce /\ Datum[d].nonce <= account.nonce + MaxNonceDelta
    /\ account.balance >= Datum[d].cost
Validates(d) ==
  CASE Datum[d].kind = "tx" -> CheckTxValidity(d)
    [] IsHeader(d) -> d \notin blackList
    [] OTHER -> TRUE

Validate(m, d) ==
  /\ d \in DOMAIN running[m] /\ running[m][d] = "validate"
  /\ running' = IF Validates(d) THEN Stepped(m, d, "save") ELSE Finished(m, d)
  /\ rejected' = IF Validates(d) THEN rejected ELSE rejected \cup {<<m, d>>}
  /\ UNCHANGED <<came, phaseOf, counter, dataPool, mbPool, nonceIndex, removedHdrs, forwarded, account, blackList>>

SavedMiniBlocks(d) ==
  {<<d, i>> : i \in {j \in DOMAIN Datum[d].parts : isMiniblockForCurrentShard(Datum[d].parts[j])}}

(* Save: a body adds its mini blocks of this shard, a header goes into the *)
(* pool of headers first and into the index by nonce after it.             *)
Save(m, d) ==
  /\ d \in DOMAIN running[m] /\ running[m][d] = "save"
  /\ dataPool' = IF Datum[d].kind = "body" THEN dataPool ELSE dataPool \cup {d}
  /\ mbPool' = mbPool \cup SavedMiniBlocks(d)
  /\ running' = IF IsHeader(d) THEN Stepped(m, d, "index") ELSE Finished(m, d)
  /\ UNCHANGED <<came, phaseOf, counter, nonceIndex, removedHdrs, rejected, forwarded, account, blackList>>
Merge(m, d) ==
  /\ d \in DOMAIN running[m] /\ running[m][d] = "index"
  /\ nonceIndex' = (<<Datum[d].nonce, Datum[d].snd>> :> d) @@ nonceIndex
  /\ running' = Finished(m, d)
  /\ UNCHANGED <<came, phaseOf, counter, dataPool, mbPool, removedHdrs, rejected, forwarded, account, blackList>>

EndProcessing(m) ==
  /\ phaseOf[m] = "waiting" /\ DOMAIN running[m] = {}
  /\ counter' = counter - 1
  /\ phaseOf' = [phaseOf EXCEPT ![m] = "done"]
  /\ UNCHANGED <<came, running, dataPool, mbPool, nonceIndex, removedHdrs, rejected, forwarded, account, blackList>>

-----------------------------------------------------------------------------
(* What the block processors do meanwhile: a block executes transactions   *)
(* of the sender, a header that was committed leaves the pool and the      *)
(* index, a bad header is black listed.                                    *)

ExecuteBlock ==
  /\ account.nonce < LastNonce /\ \E m \in InMsgs : came[m] \in MultiData /\ phaseOf[m] # "done"
  /\ \E b \in 0 .. 1 : account' = [nonce |-> account.nonce + 1, balance |-> b]
  /\ UNCHANGED <<came, phaseOf, counter, running, dataPool, mbPool, nonceIndex, removedHdrs, rejected, forwarded, blackList>>

RemoveHeader(d) ==
  /\ d \in dataPool /\ IsHeader(d)
  /\ dataPool' = dataPool \ {d}
  /\ removedHdrs' = removedHdrs \cup {d}
  /\ nonceIndex' = [k \in DOMAIN nonceIndex \ {<<Datum[d].nonce, Datum[d].snd>>} |-> nonceIndex[k]]
  /\ UNCHANGED <<came, phaseOf, counter, running, mbPool, rejected, forwarded, account, blackList>>

BlackList(d) ==
  /\ IsHeader(d) /\ Sound(d) /\ d \notin blackList
  /\ blackList' = blackList \cup {d}
  /\ UNCHANGED <<came, phaseOf, counter, running, dataPool, mbPool, nonceIndex, removedHdrs, rejected, forwarded, account>>

InterceptMessage(m) ==
  \/ CanProcess(m) \/ StartProcessing(m) \/ ProcessSingle(m) \/ ProcessMulti(m) \/ EndProcessing(m)
  \/ \E d \in Of(m) : Validate(m, d) \/ Save(m, d) \/ Merge(m, d)

InNext == \/ \E m \in InMsgs : InterceptMessage(m)
          \/ ExecuteBlock
          \/ \E d \in UNION {Of(m) : m \in InMsgs} : RemoveHeader(d) \/ BlackList(d)

(* Go schedules every goroutine.                                           *)
InFairness == \A m \in InMsgs : WF_inVars(InterceptMessage(m))

InSpec == InInit /\ [][InNext]_inVars /\ InFairness

-----------------------------------------------------------------------------
(* Every message that passed preProcessMesage is counted until all its     *)
(* goroutines are done, on every early return too: the throttler neither   *)
(* leaks places, which would silence the node in the end, nor gives back   *)
(* more than it took.                                                      *)
ThrottlerBalanced == counter = Cardinality(InPhase({"started", "waiting"}))

(* CanProcess and StartProcessing are two steps, so the limit can be       *)
(* passed, but only by the callbacks that run at the same time.            *)
OvershootBounded == counter <= MaxGoRoutines + MaxCallbacks - 1

(* Only data that passed CheckValidity and concerns this shard is in the   *)
(* pools; of a body only the mini blocks of this shard.                    *)
PoolIsChecked ==
  /\ \A d \in dataPool : /\ Datum[d].wrong \subseteq (IF Datum[d].kind \in {"reward", "scr"} THEN {"sig"} ELSE {})
                     /\ Datum[d].kind # "meta" => Self \in {Datum[d].snd, Datum[d].rcv}
  /\ \A x \in mbPool : LET p == Datum[x[1]].parts[x[2]] IN Datum[x[1]].wrong = {} /\ Self \in {p[1], p[2]}

(* When a message is done, each sound piece of its data for this shard was *)
(* saved or turned down by its processor, whatever else the message held.  *)
NothingDropped ==
  \A m \in InPhase({"done"}) : \A d \in Of(m) :
    Sound(d) /\ InterceptedForCurrentShard(d) /\ <<m, d>> \notin rejected
      => IF Datum[d].kind = "body" THEN SavedMiniBlocks(d) \subseteq mbPool
                                   ELSE d \in dataPool \cup removedHdrs

(* A message with something wrong in it is replaced on the network by its  *)
(* sound part, and only such a message: otherwise data would travel twice. *)
ForwardedOnce ==
  \A m \in InMsgs : forwarded[m] # <<>> => \E d \in Of(m) : ~ Sound(d)

(* The handlers of headersNonces read the header from the pool: a hash is  *)
(* in the index only after the header was put in the pool.                 *)
IndexedIsPooled == \A k \in DOMAIN nonceIndex : nonceIndex[k] \in dataPool \cup removedHdrs

(* Every message ends and gives its place in the throttler back.           *)
AllEnded == \A m \in InMsgs : phaseOf[m] \in {"done", "busy"}
EveryMessageEnds == []<>AllEnded

=============================================================================
