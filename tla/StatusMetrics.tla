---------------------------- MODULE StatusMetrics ---------------------------
(* What a node counts about its chain: the transaction counter of a shard    *)
(* (process/block/displayBlock.go), the mini block counter and the tps       *)
(* benchmark of the metachain, and the metrics the persister keeps per nonce *)
(* (statusHandler/persister) and the bootstrapper reloads after a roll back  *)
(* or a restart (process/sync/loadPersistentMetrics.go).                     *)
(*                                                                           *)
(* The counters are updated by goroutines of CommitBlock; AppStatusFacade    *)
(* starts a goroutine for every metric.                                      *)
EXTENDS Integers, Sequences, SequencesExt, FiniteSetsExt

CONSTANTS
    Counts,       \* how much a block may bring: transactions, or mini blocks of shards
    SlowRoles,    \* where the goroutines of the counters may run in any order, and late
    WordSize,     \* the counters are unsigned modulo this (2^64 in the code)
    MaxBlocks, MaxRollBacks, MaxMetricStarts  \* bounds

ASSUME MetricsAssumption ==
    /\ Counts \subseteq Nat /\ SlowRoles \subseteq {"shard", "meta"} /\ WordSize \in Nat \ {0}
    /\ MaxBlocks \in Nat /\ MaxRollBacks \in Nat /\ MaxMetricStarts \in Nat

VARIABLES
    role,        \* "shard" or "meta"
    prompt,      \* those goroutines run in order, before the chain is touched again
    blocks,      \* the chain: what each committed block brought
    total,       \* totalTxs or shardMBHeadersTotalProcessed
    jobs,        \* displayLogInfo and subtractRestoredTxs that have not run
    updates,     \* goroutines of AppStatusFacade, oldest first
    shown,       \* persistentMetrics
    saved,       \* the status metrics unit: nonce |-> metrics
    reload,      \* the nonce whose metrics the bootstrapper reloads next, or 0
    tps,         \* TpsBenchmark: blockNumber, totalProcessedTxCount, missingNonces
    done         \* blocks committed, roll backs and starts so far; what tps counted

smVars == <<role, prompt, blocks, total, jobs, updates, shown, saved, reload, tps, done>>

MetricKeys == {"nonce", "txs", "accepted"}
NoMetrics == [k \in MetricKeys |-> 0]
NotSaved == <<>>
BlockNonce == Len(blocks)
SetMetric(key, value) == [op |-> "set", key |-> key, value |-> value]
AddMetric(key, value) == [op |-> "add", key |-> key, value |-> value]

NewStatusMetrics ==
    /\ role \in {"shard", "meta"}
    /\ prompt \in {TRUE} \cup {FALSE : r \in SlowRoles \cap {role}}
    /\ blocks = <<>>
    /\ total = 0
    /\ jobs = <<>>
    /\ updates = <<>>
    /\ shown = NoMetrics
    /\ saved = [n \in 1..MaxBlocks |-> NotSaved]
    /\ reload = 0
    /\ tps = [block |-> 0, count |-> 0, missing |-> {}]
    /\ done = [commits |-> 0, rollBacks |-> 0, starts |-> 0, counted |-> <<>>]

NoUpdates == jobs = <<>> /\ updates = <<>> /\ reload = 0
-----------------------------------------------------------------------------
(* The counters *)

\* displayTxBlockBody; calculateNumOfShardMBHeaders
CountTxs(c) == (total + c) % WordSize

\* subtractRestoredTxs stops at zero, subtractRestoredMBHeaders wraps around
subtractRestoredTxs(c) == IF total < c THEN 0 ELSE total - c
\* Mutant: the metachain stops at zero too
Mut_subtractRestoredMBHeaders(c) == IF total < c THEN 0 ELSE total - c
subtractRestoredMBHeaders(c) == (total + WordSize - c) % WordSize

RunJob ==
    \E i \in (IF prompt THEN {1} ELSE 1..Len(jobs)) \cap DOMAIN jobs :
        /\ jobs' = RemoveAt(jobs, i)
        /\ IF jobs[i].adds
           THEN /\ total' = CountTxs(jobs[i].count)
                /\ updates' = IF role = "shard" THEN Append(updates, SetMetric("txs", total')) ELSE updates
           ELSE /\ total' = subtractRestoredTxs(jobs[i].count)
                /\ UNCHANGED updates
        /\ UNCHANGED <<role, prompt, blocks, shown, saved, reload, tps, done>>
-----------------------------------------------------------------------------
(* TpsBenchmark *)

isMissingNonce(nonce) == nonce < tps.block /\ nonce \in tps.missing
isMetaBlockRelevant(nonce, c) ==
    /\ nonce > tps.block \/ isMissingNonce(nonce)
    /\ c > 0
updateStatistics(nonce, c, missing) ==
    [block |-> nonce, count |-> tps.count + c, missing |-> missing]
UpdateTps(nonce, c) ==
    IF ~isMetaBlockRelevant(nonce, c) THEN tps
    ELSE updateStatistics(nonce, c,
            (tps.missing \cup {n \in (tps.block + 1)..(nonce - 1) : nonce > tps.block}) \ {nonce})
-----------------------------------------------------------------------------
(* The persister *)

\* The assertion is for the float64 of decoded JSON; the values of the map in
\* memory are uint64, for which the function answers 0
GetUint64(value, decoded) == IF decoded THEN value ELSE 0

\* SetUInt64Value: a new nonce saves all metrics
SavesMetrics(key, value) == key = "nonce" /\ value >= GetUint64(shown["nonce"], FALSE)

saveMetricsInDb(nonce, metrics) == [saved EXCEPT ![nonce] = <<metrics>>]

HandleUpdate ==
    /\ updates # <<>>
    /\ updates' = Tail(updates)
    /\ LET u == Head(updates)
       IN  /\ shown' = [shown EXCEPT ![u.key] = IF u.op = "add" THEN @ + u.value ELSE u.value]
           /\ saved' = IF u.op = "set" /\ SavesMetrics(u.key, u.value)
                       THEN saveMetricsInDb(u.value, shown') ELSE saved
    /\ UNCHANGED <<role, prompt, blocks, total, jobs, reload, tps, done>>

\* prepareMetricMaps: the nonce is not among the metrics reloaded
LoadedMetrics(n) ==
    IF saved[n] = NotSaved THEN {}
    ELSE {SetMetric(k, GetUint64(saved[n][1][k], TRUE)) : k \in MetricKeys \ {"nonce"}}
LoadedTxs(n) == IF saved[n] = NotSaved THEN 0 ELSE GetUint64(saved[n][1]["txs"], TRUE)

\* updateMetricsFromStorage after a roll back
ReloadMetrics ==
    /\ reload # 0
    /\ updates = <<>>
    /\ prompt => jobs = <<>>
    /\ reload' = 0
    /\ updates' = SetToSeq(LoadedMetrics(reload))
    /\ UNCHANGED <<role, prompt, blocks, total, jobs, shown, saved, tps, done>>
-----------------------------------------------------------------------------
(* The chain *)

\* CommitBlock: getMetricsFromMetaHeader (of ProcessBlock), SetCurrentBlockHeader, the tps benchmark, the metrics of the
\* committed block, displayLogInfo
CommitCounted(c) ==
    /\ done.commits < MaxBlocks
    /\ reload = 0
    /\ updates = <<>>
    /\ prompt => NoUpdates
    /\ blocks' = Append(blocks, c)
    /\ \E inConsensus \in BOOLEAN :
          updates' = updates \o (IF role = "meta" THEN <<SetMetric("txs", total)>> ELSE <<>>)
                       \o <<SetMetric("nonce", BlockNonce + 1)>>
                       \o (IF inConsensus THEN <<AddMetric("accepted", 1)>> ELSE <<>>)
    /\ jobs' = Append(jobs, [adds |-> TRUE, count |-> c])
    /\ tps' = IF role = "meta" THEN UpdateTps(BlockNonce + 1, c) ELSE tps
    /\ done' = [done EXCEPT !.commits = @ + 1,
                            !.counted = IF tps' # tps THEN Append(@, BlockNonce + 1) ELSE @]
    /\ UNCHANGED <<role, prompt, total, shown, saved, reload>>

\* rollBackOneBlock: SetCurrentBlockHeader, RestoreBlockIntoPools; then the
\* metrics of the block before are reloaded
RollBackCounted ==
    /\ done.rollBacks < MaxRollBacks
    /\ reload = 0
    /\ updates = <<>>
    /\ prompt => NoUpdates
    /\ blocks # <<>>
    /\ blocks' = Front(blocks)
    /\ updates' = IF BlockNonce > 1 THEN Append(updates, SetMetric("nonce", BlockNonce - 1)) ELSE updates
    /\ reload' = BlockNonce - 1
    /\ IF role = "shard"
       THEN jobs' = Append(jobs, [adds |-> FALSE, count |-> Last(blocks)]) /\ UNCHANGED total
       ELSE total' = subtractRestoredMBHeaders(Last(blocks)) /\ UNCHANGED jobs
    /\ done' = [done EXCEPT !.rollBacks = @ + 1]
    /\ UNCHANGED <<role, prompt, shown, saved, tps>>

\* A restart: the storage bootstrapper sets the header, StartSync loads the metrics
\* and sets the counter.  The persister saves nothing in its first second.
RestartMetrics ==
    /\ done.starts < MaxMetricStarts
    /\ updates = <<>>
    /\ prompt => NoUpdates
    /\ blocks # <<>>
    /\ updates' = SetToSeq(LoadedMetrics(BlockNonce))
    /\ shown' = [NoMetrics EXCEPT !["nonce"] = BlockNonce]
    /\ total' = LoadedTxs(BlockNonce)
    /\ jobs' = <<>> /\ reload' = 0
    /\ tps' = [block |-> 0, count |-> 0, missing |-> {}]
    /\ done' = [done EXCEPT !.starts = @ + 1, !.counted = <<>>]
    /\ UNCHANGED <<role, prompt, blocks, saved>>
-----------------------------------------------------------------------------
MetricsNext ==
    \/ \E c \in Counts : CommitCounted(c)
    \/ RollBackCounted
    \/ RestartMetrics
    \/ RunJob
    \/ HandleUpdate
    \/ ReloadMetrics
MetricsSpec == NewStatusMetrics /\ [][MetricsNext]_smVars
-----------------------------------------------------------------------------
(* Properties *)

\* Once its goroutines have run, the counter is what the blocks of the chain
\* bring: a roll back takes away what the commit of the block added.
TotalFollowsChain ==
    NoUpdates /\ done.starts = 0 => total = FoldSeq(LAMBDA c, sum : c + sum, 0, blocks) % WordSize

\* Once the metrics are handled, the nonce shown is the one of the chain, and
\* the metrics of the current nonce are saved under that nonce.
ShownNonceIsHead ==
    prompt /\ NoUpdates /\ blocks # <<>> =>
        /\ shown["nonce"] = BlockNonce
        /\ saved[BlockNonce] # NotSaved /\ saved[BlockNonce][1]["nonce"] = BlockNonce

\* A metablock nonce enters the tps benchmark once, however often the chain
\* rolls back one block and commits another in its place.
CountedOnce ==
    done.rollBacks <= 1 => IsInjective(done.counted)

\* The metrics are saved "every time when a block is committed successfully"
\* (persistentHandler.go:124; the comparison below it is to leave out the nonce
\* a roll back sets).  It does not hold: the comparison is with 0.
SavedOnCommitOnly ==
    [][saved' # saved => shown'["nonce"] > shown["nonce"]]_smVars
=============================================================================
