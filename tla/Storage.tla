------------------------------ MODULE Storage -------------------------------
(***************************************************************************)
(* A storage unit (storage/storageUnit): a bounded cache in front of a     *)
(* persister, with an optional bloom filter between them.  Three of the    *)
(* persisters collect writes in a batch that is written when it is full or *)
(* when a timer fires, in a goroutine of its own:                          *)
(*   LvlDB, BadgerDB   the batch is written under the mutex mutBatch and   *)
(*                     emptied afterwards;                                 *)
(*   LvlDBSerial       the batch is taken out under the mutex and handed   *)
(*                     to one goroutine, processLoop, that does every      *)
(*                     access to the database;                             *)
(*   BoltDB            writes go to the database at once.                  *)
(* Every operation of the unit runs under the unit's lock; the timer, the  *)
(* processLoop and ClearCache do not.  A value is the number of the Put    *)
(* that wrote it; NoValue stands for an absent key.                        *)
(***************************************************************************)
EXTENDS Naturals, Sequences, SequencesExt, FiniteSets

CONSTANTS
    StoreKeys,     \* the keys
    UnitSettings,  \* the configurations of the unit that are started
    BloomBits,     \* the bits of the filter each key is hashed to
    MaxWrites,       \* bound: how many Puts and Removes are made
    MayOvertake    \* whether another access may overtake the timer's own

\* The configurations a unit is created from: the other types, and a filter
\* with no hash function or not larger than their number, are errors.
NewDB(db) == db \in {"LvlDB", "LvlDBSerial", "BadgerDB", "BoltDB"}
NewCache(type, size) == type \in {"LRU", "FIFOSharded"} /\ size > 0
NewFilter(bits) == \A k \in StoreKeys : bits[k] # {}
NewUnit(s) ==
    NewCache(s.cacheType, s.cacheSize) /\ NewDB(s.db) /\ (s.bloom => NewFilter(BloomBits))

ASSUME StoreAssumption ==
    /\ MaxWrites \in Nat
    /\ MayOvertake \in BOOLEAN
    /\ \A s \in UnitSettings : NewUnit(s) /\ s.maxBatchSize \in Nat

VARIABLES
    setting,    \* the configuration of this unit
    unitCache,  \* the cache, a sequence of entries, the next to evict first
    bloom,      \* the bits set in the bloom filter
    disk,       \* what the database holds durably
    batch,      \* the writes collected, NoValue for a Delete
    sizeBatch,  \* the Puts counted in the batch
    handed,     \* the batches handed to the processLoop and not yet written
    timer,      \* where the timer's goroutine is
    writes,     \* how many Puts and Removes were made
    unitOp,     \* the operation that holds the unit's lock
    acked,      \* what the callers were told the unit holds
    doubt       \* the keys whose last Put was answered with an error

storageVars == <<setting, unitCache, bloom, disk, batch, sizeBatch, handed,
                 timer, writes, unitOp, acked, doubt>>

NoValue == 0
Entry(k, v) == [key |-> k, val |-> v]
NoOp == [t |-> "none"]
Nothing == [k \in StoreKeys |-> NoValue]

-----------------------------------------------------------------------------
(* The caches.                                                             *)

cacheHas(c, k) == \E i \in DOMAIN c : c[i].key = k

cacheGet(c, k) == c[CHOOSE i \in DOMAIN c : c[i].key = k].val

cacheRemove(c, k) == SelectSeq(c, LAMBDA e : e.key # k)

\* The LRU cache makes the entry the most recently used one.
lruPut(c, k, v) ==
    LET d == Append(cacheRemove(c, k), Entry(k, v))
    IN  IF Len(d) > setting.cacheSize THEN Tail(d) ELSE d

\* The FIFO cache keeps the place of a key it holds.
fifoPut(c, k, v) ==
    IF cacheHas(c, k)
      THEN [i \in DOMAIN c |-> IF c[i].key = k THEN Entry(k, v) ELSE c[i]]
      ELSE LET d == Append(c, Entry(k, v))
           IN  IF Len(d) > setting.cacheSize THEN Tail(d) ELSE d

cachePut(c, k, v) ==
    IF setting.cacheType = "LRU" THEN lruPut(c, k, v) ELSE fifoPut(c, k, v)

\* Reading an entry of the LRU cache makes it the most recently used one.
cacheRead(c, k) ==
    IF setting.cacheType = "LRU" THEN lruPut(c, k, cacheGet(c, k)) ELSE c

(* The bloom filter.                                                       *)

getBitsIndexes(k) == BloomBits[k]

bloomAdd(b, k) == IF setting.bloom THEN b \cup getBitsIndexes(k) ELSE b

MayContain(k) == setting.bloom => getBitsIndexes(k) \subseteq bloom

-----------------------------------------------------------------------------
(* The persisters.                                                         *)

\* A database applies the writes of a batch in order and in one piece.
Written(d, b) == FoldLeft(LAMBDA s, e : [s EXCEPT ![e.key] = e.val], d, b)

\* The persisters whose batch stays in place, under mutBatch, while it is
\* written: leveldb.DB and badgerdb.DB.
LocksBatch(db) == db \in {"LvlDB", "BadgerDB"}

\* mutBatch is held by the timer from its write to its Reset.
mutBatchFree == timer = "idle"

\* What Get and Has of a persister find: only what the database holds, never
\* what a batch still holds.
LvlDBGet(k) == disk[k]
SerialGet(k) == disk[k]
BadgerGet(k) == disk[k]
BoltGet(k) == disk[k]

persisterGet(k) ==
    CASE setting.db = "LvlDB" -> LvlDBGet(k)
      [] setting.db = "LvlDBSerial" -> SerialGet(k)
      [] setting.db = "BadgerDB" -> BadgerGet(k)
      [] setting.db = "BoltDB" -> BoltGet(k)

\* Another access to the database of a SerialDB may come before the batch
\* that the timer has taken and not yet handed over.
TimerServed == handed["timer"] # {} => MayOvertake

-----------------------------------------------------------------------------
(* The unit.                                                               *)

\* What Get returns: the cache, else the database if the filter lets it.
Lookup(k) ==
    IF cacheHas(unitCache, k) THEN cacheGet(unitCache, k)
    ELSE IF MayContain(k) THEN persisterGet(k) ELSE NoValue

StorageInit ==
    /\ setting \in UnitSettings
    /\ unitCache = <<>> /\ bloom = {}
    /\ disk = Nothing /\ acked = Nothing
    /\ batch = <<>> /\ sizeBatch = 0
    /\ handed = [g \in {"timer", "unit"} |-> {}]
    /\ timer = "idle" /\ writes = 0
    /\ unitOp = NoOp
    /\ doubt = {}

\* The end of Unit.Put: after an error the entry leaves the cache again.
EndPut(k, v, ok) ==
    /\ unitOp' = NoOp
    /\ acked' = IF ok THEN [acked EXCEPT ![k] = v] ELSE acked
    /\ doubt' = IF ok THEN doubt \ {k} ELSE doubt \cup {k}
    /\ bloom' = IF ok THEN bloomAdd(bloom, k) ELSE bloom
    /\ unitCache' = IF ok THEN unitCache ELSE cacheRemove(unitCache, k)

\* Unit.Put up to the persister: the entry is in the cache.
UnitPut(k) ==
    /\ unitOp = NoOp
    /\ writes < MaxWrites
    /\ writes' = writes + 1
    /\ unitCache' = cachePut(unitCache, k, writes + 1)
    /\ unitOp' = [t |-> "put", key |-> k, val |-> writes + 1]
    /\ UNCHANGED <<setting, bloom, disk, batch, sizeBatch, handed, timer,
                   acked, doubt>>

\* DB.Put adds the write to the batch before it takes mutBatch: with
\* MayOvertake it may do so while the timer is between write and Reset.
batchPut ==
    /\ unitOp.t = "put" /\ LocksBatch(setting.db)
    /\ ~mutBatchFree => MayOvertake
    /\ batch' = Append(batch, Entry(unitOp.key, unitOp.val))
    /\ unitOp' = [unitOp EXCEPT !.t = "batched"]
    /\ UNCHANGED <<setting, writes, unitCache, bloom, disk, sizeBatch, handed,
                   timer, acked, doubt>>

\* The rest of DB.Put, under mutBatch.  A batch that could not be written
\* stays, and the caller is told.
countPut(db, ok) ==
    /\ unitOp.t = "batched" /\ setting.db = db
    /\ mutBatchFree
    /\ IF sizeBatch + 1 < setting.maxBatchSize
         THEN /\ ok
              /\ sizeBatch' = sizeBatch + 1
              /\ UNCHANGED <<disk, batch>>
         ELSE /\ disk' = IF ok THEN Written(disk, batch) ELSE disk
              /\ batch' = IF ok THEN <<>> ELSE batch
              /\ sizeBatch' = IF ok THEN 0 ELSE sizeBatch + 1
    /\ EndPut(unitOp.key, unitOp.val, ok)
    /\ UNCHANGED <<setting, writes, handed, timer>>

LvlDBPut(ok) == (~ok => setting.fails) /\ countPut("LvlDB", ok)

\* A transaction of badger that failed to commit cannot be used again: the
\* settings have no failing writes with it.
BadgerPut == countPut("BadgerDB", TRUE)

\* SerialDB.Put: the write joins the batch under mutBatch; a full batch is
\* put by putBatch, which takes the mutex again.
SerialPut(full) ==
    /\ unitOp.t = "put" /\ setting.db = "LvlDBSerial"
    /\ batch' = Append(batch, Entry(unitOp.key, unitOp.val))
    /\ sizeBatch' = sizeBatch + 1
    /\ full = (sizeBatch + 1 >= setting.maxBatchSize)
    /\ IF full
         THEN /\ unitOp' = [unitOp EXCEPT !.t = "full"]
              /\ UNCHANGED <<unitCache, bloom, acked, doubt>>
         ELSE EndPut(unitOp.key, unitOp.val, TRUE)
    /\ UNCHANGED <<setting, writes, disk, handed, timer>>

\* SerialDB.putBatch: the batch is replaced by an empty one and handed to
\* the processLoop.
putBatch(g) ==
    /\ handed' = [handed EXCEPT ![g] = {batch}]
    /\ batch' = <<>>
    /\ sizeBatch' = 0

PutFullBatch ==
    /\ unitOp.t = "full"
    /\ TimerServed
    /\ putBatch("unit")
    /\ unitOp' = [unitOp EXCEPT !.t = "handed"]
    /\ UNCHANGED <<setting, writes, unitCache, bloom, disk, timer, acked, doubt>>

\* putBatchAct.request: the processLoop writes the batch, and answers.  What
\* could not be written is lost with the batch.
serveUnit(ok) ==
    /\ handed["unit"] # {} /\ TimerServed
    /\ ~ok => setting.fails
    /\ disk' = IF ok THEN Written(disk, CHOOSE b \in handed["unit"] : TRUE) ELSE disk
    /\ handed' = [handed EXCEPT !["unit"] = {}]
    /\ EndPut(unitOp.key, unitOp.val, ok)
    /\ UNCHANGED <<setting, writes, batch, sizeBatch, timer>>

\* boltdb: the write is in the database when Put returns.
BoltPut(ok) ==
    /\ unitOp.t = "put" /\ setting.db = "BoltDB"
    /\ ~ok => setting.fails
    /\ disk' = IF ok THEN [disk EXCEPT ![unitOp.key] = unitOp.val] ELSE disk
    /\ EndPut(unitOp.key, unitOp.val, ok)
    /\ UNCHANGED <<setting, writes, batch, sizeBatch, handed, timer>>

\* Unit.Get: a hit is read from the cache; what the database holds joins it.
UnitGet(k) ==
    /\ unitOp = NoOp
    /\ IF cacheHas(unitCache, k)
         THEN unitCache' = cacheRead(unitCache, k)
         ELSE /\ Lookup(k) # NoValue
              /\ unitCache' = cachePut(unitCache, k, Lookup(k))
    /\ UNCHANGED <<setting, writes, bloom, disk, batch, sizeBatch, handed, timer,
                   unitOp, acked, doubt>>

\* The first half of Remove: the batching persisters add a Delete to their
\* batch, under mutBatch; the batch of boltdb is the database itself.
SerialRemove(b, k) == Append(b, Entry(k, NoValue))
LvlDBRemove(b, k) == Append(b, Entry(k, NoValue))
BadgerRemove(b, k) == Append(b, Entry(k, NoValue))
BoltRemove(b, k) == b

persisterRemove(b, k) ==
    CASE setting.db = "LvlDB" -> LvlDBRemove(b, k)
      [] setting.db = "LvlDBSerial" -> SerialRemove(b, k)
      [] setting.db = "BadgerDB" -> BadgerRemove(b, k)
      [] setting.db = "BoltDB" -> BoltRemove(b, k)

\* Unit.Remove up to the access to the database: the entry leaves the cache,
\* and the Delete joins the batch under mutBatch.
UnitRemove(k) ==
    /\ unitOp = NoOp
    /\ mutBatchFree
    /\ writes < MaxWrites
    /\ writes' = writes + 1
    /\ unitCache' = cacheRemove(unitCache, k)
    /\ batch' = persisterRemove(batch, k)
    /\ unitOp' = [t |-> "remove", key |-> k]
    /\ UNCHANGED <<setting, bloom, disk, sizeBatch, handed, timer, acked,
                   doubt>>

\* The key is deleted from the database at once, past the batch.
EndRemove ==
    /\ unitOp.t = "remove"
    /\ TimerServed
    /\ disk' = [disk EXCEPT ![unitOp.key] = NoValue]
    /\ acked' = [acked EXCEPT ![unitOp.key] = NoValue]
    /\ doubt' = doubt \ {unitOp.key}
    /\ unitOp' = NoOp
    /\ UNCHANGED <<setting, writes, unitCache, bloom, batch, sizeBatch, handed, timer>>

\* ClearCache does not take the lock.
ClearCache ==
    /\ setting.clears
    /\ unitCache' = <<>>
    /\ UNCHANGED <<setting, writes, bloom, disk, batch, sizeBatch, handed, timer,
                   unitOp, acked, doubt>>

-----------------------------------------------------------------------------
(* The timer.                                                              *)

Mut_TimerWrite(db, ok) ==
    /\ setting.db = db /\ mutBatchFree /\ batch # <<>>
    /\ disk' = IF ok THEN Written(disk, batch) ELSE disk
    /\ timer' = "written"
    /\ UNCHANGED <<setting, writes, unitCache, bloom, batch, sizeBatch, handed,
                   unitOp, acked, doubt>>

\* batchTimeoutHandle of a persister with mutBatch: a batch that could not be
\* written stays for the next time.
TimerWrite(db, ok) ==
    /\ setting.db = db /\ mutBatchFree /\ batch # <<>>
    /\ disk' = IF ok THEN Written(disk, batch) ELSE disk
    /\ timer' = IF ok THEN "written" ELSE "idle"
    /\ UNCHANGED <<setting, writes, unitCache, bloom, batch, sizeBatch, handed,
                   unitOp, acked, doubt>>

LvlDBTimer(ok) == (~ok => setting.fails) /\ TimerWrite("LvlDB", ok)

BadgerTimer == TimerWrite("BadgerDB", TRUE)

TimerReset ==
    /\ timer = "written"
    /\ batch' = <<>> /\ sizeBatch' = 0
    /\ timer' = "idle"
    /\ UNCHANGED <<setting, writes, unitCache, bloom, disk, handed, unitOp, acked,
                   doubt>>

\* batchTimeoutHandle of SerialDB: the batch is taken, then handed over.
TimerTake ==
    /\ setting.db = "LvlDBSerial" /\ batch # <<>> /\ handed["timer"] = {}
    /\ putBatch("timer")
    /\ UNCHANGED <<setting, writes, unitCache, bloom, disk, timer, unitOp, acked,
                   doubt>>

serveTimer(ok) ==
    /\ handed["timer"] # {}
    /\ ~ok => setting.fails
    /\ disk' = IF ok THEN Written(disk, CHOOSE b \in handed["timer"] : TRUE) ELSE disk
    /\ handed' = [handed EXCEPT !["timer"] = {}]
    /\ UNCHANGED <<setting, writes, unitCache, bloom, batch, sizeBatch, timer,
                   unitOp, acked, doubt>>

-----------------------------------------------------------------------------
(* The process stops and is started again: a new cache, a new filter and    *)
(* empty batches over the same files.  Nothing closes the persisters.       *)

Restart ==
    /\ setting.restarts
    /\ unitCache' = <<>> /\ bloom' = {}
    /\ batch' = <<>> /\ sizeBatch' = 0
    /\ handed' = [g \in {"timer", "unit"} |-> {}]
    /\ timer' = "idle"
    /\ unitOp' = NoOp
    /\ acked' = disk /\ doubt' = {}
    /\ UNCHANGED <<setting, writes, disk>>

\* The persister's Destroy drops the batch, stops the timer and removes the
\* files.
DestroyUnit ==
    /\ unitOp = NoOp /\ timer = "idle"
    /\ unitOp' = [t |-> "destroyed"]
    /\ unitCache' = <<>> /\ bloom' = {}
    /\ batch' = <<>> /\ sizeBatch' = 0
    /\ handed' = [g \in {"timer", "unit"} |-> {}]
    /\ disk' = Nothing /\ acked' = Nothing /\ doubt' = {}
    /\ UNCHANGED <<setting, writes, timer>>

StorageNext ==
    \/ \E k \in StoreKeys : UnitPut(k) \/ UnitGet(k) \/ UnitRemove(k)
    \/ batchPut
    \/ \E ok \in BOOLEAN : LvlDBPut(ok) \/ BoltPut(ok)
    \/ BadgerPut
    \/ \E full \in BOOLEAN : SerialPut(full)
    \/ PutFullBatch
    \/ \E ok \in BOOLEAN : serveUnit(ok) \/ serveTimer(ok) \/ LvlDBTimer(ok)
    \/ BadgerTimer
    \/ EndRemove
    \/ ClearCache
    \/ TimerReset
    \/ TimerTake
    \/ Restart
    \/ DestroyUnit

StorageSpec == StorageInit /\ [][StorageNext]_storageVars
\* The timer goes on firing, and an operation that has begun goes on.
TimerSteps ==
    LvlDBTimer(TRUE) \/ BadgerTimer \/ TimerReset \/ TimerTake \/ serveTimer(TRUE)

UnitSteps ==
    \/ batchPut \/ LvlDBPut(TRUE) \/ BadgerPut \/ BoltPut(TRUE)
    \/ SerialPut(TRUE) \/ SerialPut(FALSE) \/ PutFullBatch \/ serveUnit(TRUE)
    \/ EndRemove

StorageFair == WF_storageVars(TimerSteps) /\ WF_storageVars(UnitSteps)

-----------------------------------------------------------------------------
(* Properties.                                                             *)

StorageTypeOK ==
    /\ setting \in UnitSettings
    /\ Len(unitCache) <= setting.cacheSize
    /\ disk \in [StoreKeys -> 0 .. MaxWrites]
    /\ sizeBatch \in 0 .. MaxWrites
    /\ timer \in {"idle", "written"}

\* Outside its operations the unit returns for each key what its last
\* acknowledged Put wrote, and nothing after a Remove, whatever the timer has
\* written meanwhile.  The cache has to hide that a batch is not read: the
\* settings either write each Put at once or keep every key in the cache.
ReadsWhatWasPut ==
    unitOp = NoOp => \A k \in StoreKeys \ doubt : Lookup(k) = acked[k]

\* A restart loses the latest writes, never an earlier one and not a later:
\* when the last Put of a key is in the database, so is that of every key put
\* before it (batch.Put, putBatch and batchTimeoutHandle keep the order).
DurableInOrder ==
    unitOp = NoOp =>
      \A k, l \in StoreKeys \ doubt :
        (acked[k] # NoValue /\ acked[k] < acked[l] /\ disk[l] = acked[l])
          => disk[k] = acked[k]

\* A removed key is in the database no more, and no batch brings it back:
\* Remove goes past the batch and also adds the Delete to it.
RemovedStaysRemoved ==
    unitOp = NoOp =>
      \A k \in StoreKeys \ doubt :
        acked[k] = NoValue => disk[k] = NoValue /\ Written(disk, batch)[k] = NoValue

\* What was acknowledged reaches the database, by a full batch or by the
\* timer, itself or a later write of the key, unless the key is removed or the
\* write lost in a restart.
AllDurable == \A k \in StoreKeys \ doubt : disk[k] = acked[k]
EventuallyDurable == []<>AllDurable
=============================================================================
