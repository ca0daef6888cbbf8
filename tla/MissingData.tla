---------------------------- MODULE MissingData ----------------------------
(***************************************************************************)
(* How a block processor waits for the transactions (or smart contract     *)
(* results) of a block that are missing from the pool.                     *)
(*                                                                         *)
(* The processing goroutine counts what is missing, asks the network for   *)
(* it and waits on an unbuffered channel.  Every transaction that enters   *)
(* the pool starts a goroutine of its own, a handler, which takes it off   *)
(* the count; the handler that takes off the last one sends on the         *)
(* channel.  The count and the table of the current block are protected by *)
(* a lock; the channel operations happen outside of it                     *)
(* (process/block/preprocess/transactions.go, smartContractResults.go and  *)
(* basePreProcess.go, dataRetriever/shardedData).                          *)
(***************************************************************************)
EXTENDS Naturals, FiniteSets

CONSTANTS
  Txs,         \* transactions
  Body,        \* the transactions of each block
  MaxBlock,    \* blocks 1..MaxBlock are processed in turn
  MaxEvictions,\* how often a full pool drops a transaction
  Slow         \* may a handler be overtaken between the lock and the channel?

Blocks == 1..MaxBlock

ASSUME BodyAssumption ==
  /\ IsFiniteSet(Txs)
  /\ MaxBlock \in Nat \ {0} /\ MaxEvictions \in Nat
  /\ Body \in [Blocks -> SUBSET Txs]
  /\ Slow \in BOOLEAN

VARIABLES
  pool,      \* the transactions in the pool
  evictions, \* how often the pool has dropped one
  handler,   \* where the handler of each transaction is
  blk,       \* the block being processed
  pc,        \* where the processing goroutine is
  toSet,     \* the missing transactions it has counted and not entered yet
  missing,   \* txsForCurrBlock.missingTxs
  table,     \* txHashAndInfo: the transactions that have an entry
  got        \* the ones whose entry holds the transaction

vars == <<pool, evictions, handler, blk, pc, toSet, missing, table, got>>

\* none: no handler; start: before the lock; decided: it found nothing missing
\* any more and left the lock; sending: blocked on the channel.
HandlerStates == {"none", "start", "decided", "sending"}

Init ==
  /\ pool = {} /\ evictions = 0 /\ handler = [t \in Txs |-> "none"]
  /\ blk = 1 /\ pc = "empty" /\ toSet = {} /\ missing = 0 /\ table = {} /\ got = {}

Senders == {t \in Txs : handler[t] = "sending"}

-----------------------------------------------------------------------------
(* The pool and the handlers.                                              *)

\* AddData: a transaction that is not in the pool enters it and its handler
\* starts.
AddData(t) ==
  /\ t \notin pool /\ handler[t] = "none"
  /\ pool' = pool \cup {t}
  /\ handler' = [handler EXCEPT ![t] = "start"]
  /\ UNCHANGED <<evictions, blk, pc, toSet, missing, table, got>>

\* A pool that is full drops a transaction.
Evict(t) ==
  /\ t \in pool /\ evictions < MaxEvictions
  /\ pool' = pool \ {t}
  /\ evictions' = evictions + 1
  /\ UNCHANGED <<handler, blk, pc, toSet, missing, table, got>>

\* baseReceivedTransaction, under the lock.
baseReceivedTransaction(t) ==
  /\ handler[t] = "start"
  /\ LET hit == t \in table \ got /\ t \in pool
     IN IF missing > 0
        THEN /\ got' = IF hit THEN got \cup {t} ELSE got
             /\ missing' = IF hit THEN missing - 1 ELSE missing
             /\ handler' = [handler EXCEPT ![t] = IF missing' = 0 THEN "decided" ELSE "none"]
        ELSE /\ handler' = [handler EXCEPT ![t] = "none"]
             /\ UNCHANGED <<missing, got>>
  /\ UNCHANGED <<pool, evictions, blk, pc, toSet, table>>

\* receivedTransaction reaches the channel and blocks.
ReachChannel(t) ==
  /\ handler[t] = "decided"
  /\ handler' = [handler EXCEPT ![t] = "sending"]
  /\ UNCHANGED <<pool, evictions, blk, pc, toSet, missing, table, got>>

-----------------------------------------------------------------------------
(* The processing goroutine.                                               *)

\* The channel is not emptied.
Mut_EmptyChannel ==
  /\ pc = "empty"
  /\ pc' = "reset"
  /\ UNCHANGED <<pool, evictions, handler, blk, toSet, missing, table, got>>

\* CreateBlockStarted begins with EmptyChannel, which lets every blocked sender
\* go.
EmptyChannel ==
  /\ pc = "empty"
  /\ ~Slow => \A t \in Txs : handler[t] # "decided"
  /\ handler' = [t \in Txs |-> IF t \in Senders THEN "none" ELSE handler[t]]
  /\ pc' = "reset"
  /\ UNCHANGED <<pool, evictions, blk, toSet, missing, table, got>>

\* CreateBlockStarted, under the lock.
CreateBlockStarted ==
  /\ pc = "reset"
  /\ missing' = 0 /\ table' = {} /\ got' = {}
  /\ pc' = "count"
  /\ UNCHANGED <<pool, evictions, handler, blk, toSet>>

\* The pool is not looked into.
Mut_computeExistingAndMissing ==
  /\ pc = "count"
  /\ toSet' = Body[blk]
  /\ missing' = missing + Cardinality(Body[blk])
  /\ pc' = "set"
  /\ UNCHANGED <<pool, evictions, handler, blk, table, got>>

\* computeExistingAndMissing, under the lock.
computeExistingAndMissing ==
  /\ pc = "count"
  /\ table' = table \cup (Body[blk] \cap pool)
  /\ got' = got \cup (Body[blk] \cap pool)
  /\ toSet' = Body[blk] \ pool
  /\ missing' = missing + Cardinality(Body[blk] \ pool)
  /\ pc' = "set"
  /\ UNCHANGED <<pool, evictions, handler, blk>>

\* RequestBlockTransactions: setMissingTxsForShard, under the lock again, and
\* the request; IsDataPrepared has nothing to wait for when nothing was missing.
RequestBlockTransactions ==
  /\ pc = "set"
  /\ table' = table \cup toSet
  /\ got' = got \ toSet
  /\ toSet' = {}
  /\ pc' = IF toSet = {} THEN "prepared" ELSE "wait"
  /\ UNCHANGED <<pool, evictions, handler, blk, missing>>

\* waitForTxHashes gets the signal of a handler.
Receive(t) ==
  /\ pc = "wait"
  /\ t \in Senders
  /\ handler' = [handler EXCEPT ![t] = "none"]
  /\ missing' = 0
  /\ pc' = "prepared"
  /\ UNCHANGED <<pool, evictions, blk, toSet, table, got>>

\* waitForTxHashes runs out of time; the block is given up and tried again
\* later.
TimeOut ==
  /\ pc = "wait"
  /\ missing' = 0
  /\ pc' = "empty"
  /\ UNCHANGED <<pool, evictions, handler, blk, toSet, table, got>>

\* The block is processed, and its transactions leave the pool.
NextBlock ==
  /\ pc = "prepared" /\ blk < MaxBlock
  /\ pool' = pool \ Body[blk]
  /\ blk' = blk + 1
  /\ pc' = "empty"
  /\ UNCHANGED <<evictions, handler, toSet, missing, table, got>>

-----------------------------------------------------------------------------
Handle(t) == baseReceivedTransaction(t) \/ ReachChannel(t)

Process ==
  \/ EmptyChannel \/ CreateBlockStarted \/ computeExistingAndMissing
  \/ RequestBlockTransactions \/ \E t \in Txs : Receive(t)
  \/ NextBlock

Next ==
  \/ \E t \in Txs : AddData(t) \/ Evict(t) \/ Handle(t)
  \/ Process
  \/ TimeOut

Spec == Init /\ [][Next]_vars

\* The network answers requests, goroutines run, and timers go off.
FairSpec ==
  /\ Spec
  /\ WF_vars(\E t \in Txs : AddData(t)) /\ WF_vars(\E t \in Txs : Handle(t))
  /\ WF_vars(Process) /\ WF_vars(TimeOut)

-----------------------------------------------------------------------------
TypeOK ==
  /\ pool \subseteq Txs
  /\ evictions \in 0..MaxEvictions
  /\ handler \in [Txs -> HandlerStates]
  /\ blk \in Blocks
  /\ pc \in {"empty", "reset", "count", "set", "wait", "prepared"}
  /\ toSet \subseteq Txs
  /\ missing \in Nat
  /\ table \subseteq Txs /\ got \subseteq table

\* When IsDataPrepared returns without an error, every transaction of the block
\* has arrived and is in the table of the block.
PreparedIsComplete == pc = "prepared" => Body[blk] \subseteq got

\* While the goroutine waits, the count is the number of transactions it still
\* lacks, and when that is none a signal is on its way.
CountIsRight ==
  pc = "wait" =>
    /\ missing = Cardinality(Body[blk] \ got)
    /\ missing = 0 => \E t \in Txs : handler[t] \in {"decided", "sending"}

\* The inductive invariant behind both, when no handler is overtaken: signals
\* are left over only until the channel is emptied, nothing is counted outside
\* of a request, and a signal means that the count has come down to 0.
Signals == {t \in Txs : handler[t] \in {"decided", "sending"}}

SignalInv ==
  /\ pc \in {"empty", "reset", "count", "prepared"} => missing = 0
  /\ pc \in {"reset", "count", "set"} => Signals = {}
  /\ pc = "count" => table = {}
  /\ pc = "set" => /\ toSet \subseteq Body[blk]
                   /\ table = Body[blk] \ toSet /\ got = table
                   /\ missing = Cardinality(toSet)
  /\ pc = "wait" => /\ table = Body[blk]
                    /\ missing = Cardinality(Body[blk] \ got)
                    /\ missing = 0 <=> Signals # {}
  /\ PreparedIsComplete

\* The goroutine does not wait for transactions that are all in the pool with
\* no handler left to tell it.
NoLostSignal ==
  pc = "wait" /\ Body[blk] \subseteq pool => \E t \in Txs : handler[t] # "none"

\* Every block is prepared in the end, however often the wait runs out of time.
LastPrepared == pc = "prepared" /\ blk = MaxBlock
EventuallyPrepared == []<>LastPrepared
=============================================================================
