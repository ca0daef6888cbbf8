----------------------------- MODULE DataStore -----------------------------
(***************************************************************************)
(* The storage service of a node: the databases that createDataStoreFrom-  *)
(* Config opens, one after the other, the storers it registers over them   *)
(* in a ChainStorer, and the reads and writes the node makes through it.   *)
(* A database that fails to open makes the start fail, and the databases   *)
(* opened so far are destroyed.  An item is the unit it was put in and its *)
(* key.                                                                    *)
(***************************************************************************)
EXTENDS Naturals, Sequences, Functions, FiniteSets

CONSTANTS
    StoreRoles,   \* the roles started: "shard", "meta"
    ItemKeys,     \* the keys put in a unit
    MaxStarts,    \* bound: how often the node is started
    OpenFails     \* whether a database may fail to open

ASSUME DataStoreAssumption == MaxStarts \in Nat /\ OpenFails \in BOOLEAN

VARIABLES
    storeRole,    \* the role of the node
    files,        \* what the files of each database hold
    opened,       \* the databases that are open
    chain,        \* the registered storers: the database behind each unit
    startError,   \* "" or what the last start failed with
    starts        \* how often the node was started

dataStoreVars == <<storeRole, files, opened, chain, startError, starts>>

NoDb == "no database"

-----------------------------------------------------------------------------
(* createShardDataStoreFromConfig: what it opens, in order, and registers. *)

shardOpens ==
    <<"Tx", "UnsignedTx", "RewardTx", "MiniBlocks", "PeerBlockBody",
      "BlockHeader", "MetaBlock", "MetaHdrNonceHash", "ShardHdrNonceHash0",
      "Heartbeat", "Bootstrap", "StatusMetrics">>

shardStorers ==
    [TransactionUnit |-> "Tx", MiniBlockUnit |-> "MiniBlocks",
     PeerChangesUnit |-> "PeerBlockBody", BlockHeaderUnit |-> "BlockHeader",
     MetaBlockUnit |-> "MetaBlock", UnsignedTransactionUnit |-> "UnsignedTx",
     RewardTransactionUnit |-> "RewardTx",
     MetaHdrNonceHashDataUnit |-> "MetaHdrNonceHash",
     ShardHdrNonceHashDataUnit0 |-> "ShardHdrNonceHash0",
     HeartbeatUnit |-> "Heartbeat", BootstrapUnit |-> "Bootstrap",
     StatusMetricsUnit |-> "StatusMetrics"]

\* The deferred cleanup destroys every unit that was created.
shardCleanup(open) == open

(* createMetaChainDataStoreFromConfig, for two shards.                     *)

metaOpens ==
    <<"MetaBlock", "ShardData", "PeerData", "BlockHeader", "MetaHdrNonceHash",
      "ShardHdrNonceHash0", "ShardHdrNonceHash1", "Heartbeat", "Tx",
      "UnsignedTx", "MiniBlocks", "Bootstrap", "StatusMetrics">>

\* The unit of the mini blocks gets the storer of the unsigned transactions.
metaStorers ==
    [MetaBlockUnit |-> "MetaBlock", MetaShardDataUnit |-> "ShardData",
     MetaPeerDataUnit |-> "PeerData", BlockHeaderUnit |-> "BlockHeader",
     MetaHdrNonceHashDataUnit |-> "MetaHdrNonceHash", TransactionUnit |-> "Tx",
     UnsignedTransactionUnit |-> "UnsignedTx", MiniBlockUnit |-> "UnsignedTx",
     ShardHdrNonceHashDataUnit0 |-> "ShardHdrNonceHash0",
     ShardHdrNonceHashDataUnit1 |-> "ShardHdrNonceHash1",
     HeartbeatUnit |-> "Heartbeat", BootstrapUnit |-> "Bootstrap",
     StatusMetricsUnit |-> "StatusMetrics"]

\* The cleanup destroys every unit that was created; it goes through all
\* shards, and stops at a unit that was not.
metaCleanup(open) == open

metaCleanupStops(failed) == failed \in {"ShardHdrNonceHash0", "ShardHdrNonceHash1"}

-----------------------------------------------------------------------------
Opens == IF storeRole = "shard" THEN shardOpens ELSE metaOpens
\* Mutant: the unit of the mini blocks gets the storer of the unsigned ones
Mut_Storers == [shardStorers EXCEPT !.MiniBlockUnit = "UnsignedTx"]
Storers == IF storeRole = "shard" THEN shardStorers ELSE metaStorers
Cleanup(open) == IF storeRole = "shard" THEN shardCleanup(open) ELSE metaCleanup(open)
Databases == Range(shardOpens) \cup Range(metaOpens)
StoreUnits == DOMAIN shardStorers \cup DOMAIN metaStorers
NoStorers == [u \in StoreUnits |-> NoDb]

DataStoreInit ==
    /\ storeRole \in StoreRoles
    /\ files = [d \in Databases |-> {}]
    /\ opened = {}
    /\ chain = NoStorers
    /\ startError = "" /\ starts = 0

\* The storers are registered once every database is open.
createDataStore ==
    /\ opened = {} /\ starts < MaxStarts
    /\ starts' = starts + 1
    /\ opened' = Range(Opens)
    /\ chain' = [u \in StoreUnits |-> IF u \in DOMAIN Storers THEN Storers[u] ELSE NoDb]
    /\ startError' = ""
    /\ UNCHANGED <<storeRole, files>>

\* The n-th database does not open: those before it are destroyed, their
\* files removed.
createDataStoreFails(n) ==
    /\ OpenFails
    /\ opened = {} /\ starts < MaxStarts
    /\ n \in DOMAIN Opens
    /\ starts' = starts + 1
    /\ LET before == {Opens[i] : i \in 1 .. n - 1}
       IN  /\ opened' = before \ Cleanup(before)
           /\ files' = [d \in Databases |->
                          IF d \in Cleanup(before) THEN {} ELSE files[d]]
    /\ startError' = IF storeRole = "meta" /\ metaCleanupStops(Opens[n])
                       THEN "nil unit" ELSE "not opened"
    /\ UNCHANGED <<storeRole, chain>>

\* ChainStorer.Put: a unit without a storer is an error.
ChainPut(u, k) ==
    /\ chain[u] # NoDb
    /\ files' = [files EXCEPT ![chain[u]] = @ \cup {<<u, k>>}]
    /\ UNCHANGED <<storeRole, opened, chain, startError, starts>>

\* What ChainStorer.Get finds under the key: an item of any unit that shares
\* the database.
ChainGet(u, k) == {i \in files[chain[u]] : i[2] = k}

\* ChainStorer.GetAll finds all keys or returns the error of the first one
\* that is missing.
ChainGetAll(u, ks) ==
    IF \A k \in ks : ChainGet(u, k) # {} THEN UNION {ChainGet(u, k) : k \in ks} ELSE {}

\* The process ends; the files stay.
StopNode ==
    /\ opened # {}
    /\ opened' = {} /\ chain' = NoStorers
    /\ UNCHANGED <<storeRole, files, startError, starts>>

DataStoreNext ==
    \/ createDataStore
    \/ \E n \in 1 .. Len(metaOpens) : createDataStoreFails(n)
    \/ \E u \in StoreUnits, k \in ItemKeys : ChainPut(u, k)
    \/ StopNode

DataStoreSpec == DataStoreInit /\ [][DataStoreNext]_dataStoreVars

-----------------------------------------------------------------------------
(* Properties.                                                             *)

\* A unit returns what was put in this unit, and not what another unit keeps
\* in the same database (UnitType, and the storers createDataStoreFromConfig
\* registers).
UnitsApart ==
    \A u \in StoreUnits : chain[u] # NoDb =>
      \A i \in ChainGetAll(u, ItemKeys) : i[1] = u

\* A start that fails leaves no database open.
FailedStartClosesAll == startError # "" => opened = {}

\* A node that cannot open a database keeps what the others hold.
StartKeepsData ==
    [][startError' # "" => \A d \in Databases : files[d] \subseteq files'[d]]_dataStoreVars
=============================================================================
