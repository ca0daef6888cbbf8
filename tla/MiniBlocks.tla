----------------------------- MODULE MiniBlocks -----------------------------
(***************************************************************************)
(* How the leader of a shard builds a block and how a validator executes   *)
(* it.  The leader first runs the mini blocks that other shards sent, in   *)
(* any order, then fills mini blocks with transactions of its own pool,    *)
(* destination by destination and as often as something is added, within   *)
(* the limits on gas and items and until the time is up.  The mini blocks  *)
(* are compacted, so a validator cannot see in which order the             *)
(* transactions ran: it expands them again by the nonces of the senders.   *)
(***************************************************************************)
EXTENDS TxProcessor, FiniteSetsExt, TLC

CONSTANTS Self,           \* the shard
          Destinations,   \* receiver shards in the order of the loop, the metachain first
          Txs,            \* transactions of senders of this shard
          Cross,          \* mini blocks of other shards that a meta block has notarized
          ScAddr,         \* addresses of the form that contracts have
          GenesisBalances, Contracts,
          Vm(_, _),       \* the answer of the virtual machine
          MaxItems, MaxMiniBlocksInBlock,
          MaxBlocks       \* bound: committed blocks

VARIABLES accounts,   \* committed
          txPool,     \* own transactions
          inbox,      \* mini blocks of Cross that no committed block contains
          phase,      \* "idle", "dstMe", "fromMe" or "proposed"
          w,          \* the block that the leader builds
          blocks

mbVars == <<accounts, txPool, inbox, phase, w, blocks>>

\* FoldLeft, written so that TLC has the value of a before it evaluates Op
FoldNow(Op(_, _), base, seq) ==
  FoldLeft(LAMBDA a, x : CHOOSE r \in {Op(b, x) : b \in {a}} : TRUE, base, seq)

MiniBlock(type, snd, rcv, txs) == [type |-> type, snd |-> snd, rcv |-> rcv, txs |-> txs]

AllTxs == Txs \cup UNION {Range(mb.txs) : mb \in Cross}

TxsOf(mbs) == FlattenSeq([i \in DOMAIN mbs |-> mbs[i].txs])

Accounts(st) == [bal |-> st.bal, nonce |-> st.nonce, code |-> st.code]

\* fees and smart contract results are not part of the journal
RevertToSnapshot(st, old) ==
  [st EXCEPT !.bal = old.bal, !.nonce = old.nonce, !.code = old.code]

-----------------------------------------------------------------------------
\* gas

ComputeGasConsumedByTx(snd, rcv, tx) ==
  LET move == ComputeGasLimit(tx)
  IN  CASE tx.rcv \notin ScAddr -> [snd |-> move, rcv |-> move]
        [] tx.rcv \in ScAddr /\ snd # rcv -> [snd |-> move, rcv |-> tx.limit - move]
        [] OTHER -> [snd |-> tx.limit, rcv |-> tx.limit]

GasRefunded(st, tx) == SumSet({p[2] : p \in {q \in st.refunded : q[1] = TxHash(tx)}})

RemoveGasRefunded(st, txs) ==
  [st EXCEPT !.refunded = {p \in @ : \A tx \in txs : p[1] # TxHash(tx)}]

RemoveGasConsumed(gas, txs) == [tx \in AllTxs |-> IF tx \in txs THEN 0 ELSE gas[tx]]

TotalGasConsumed(gas) == MapThenSumSet(LAMBDA tx : gas[tx], AllTxs)

\* a: st, gas, err and the gas gs, gr of the mini block in sender and receiver shard
computeGasConsumed(a, snd, rcv, tx) ==
  LET full   == ComputeGasConsumedByTx(snd, rcv, tx)
      refund == IF tx.rcv \in ScAddr THEN GasRefunded(a.st, tx) ELSE 0
      c      == [rcv |-> full.rcv - refund,
                 snd |-> full.snd - IF snd = rcv THEN refund ELSE 0]
      self   == IF snd = Self THEN c.snd ELSE c.rcv
      mini   == IF snd = Self THEN a.gr + c.rcv ELSE a.gs + c.snd
      refused == \/ tx.limit < ComputeGasLimit(tx)
                 \/ c.rcv < 0
                 \/ mini > MaxGasLimitPerBlock
                 \/ TotalGasConsumed(a.gas) + self > MaxGasLimitPerBlock
  IN  IF refused THEN [a EXCEPT !.err = "gas"]
      ELSE [a EXCEPT !.gs = @ + c.snd, !.gr = @ + c.rcv, !.gas[tx] = self]

-----------------------------------------------------------------------------
\* compaction

\* gas spent of mini block i of the list that is compacted, per shard
GasSpent(mbs, side) ==
  [i \in DOMAIN mbs |->
     FoldNow(LAMBDA n, tx : n + ComputeGasConsumedByTx(mbs[i].snd, mbs[i].rcv, tx)[side],
              0, mbs[i].txs)]

Fits(gs, gr) == gs <= MaxGasLimitPerBlock /\ gr <= MaxGasLimitPerBlock

getMaxTxsForMerge(gs, gr, mb) ==
  FoldNow(LAMBDA a, tx :
             LET c == ComputeGasConsumedByTx(mb.snd, mb.rcv, tx)
             IN  IF a.stop \/ ~Fits(a.gs + c.snd, a.gr + c.rcv) THEN [a EXCEPT !.stop = TRUE]
                 ELSE [a EXCEPT !.gs = @ + c.snd, !.gr = @ + c.rcv, !.txs = Append(@, tx)],
           [gs |-> gs, gr |-> gr, txs |-> <<>>, stop |-> FALSE], mb.txs)

\* a: merged, gs, gr, the mini block mb with index src that is merged, and done.
\* dst is an index of merged; gs and gr are indexed by the original list.
computeMerge(a, dst, src) ==
  LET part == getMaxTxsForMerge(a.gs[dst], a.gr[dst], a.mb)
  IN  IF Fits(a.gs[dst] + a.gs[src], a.gr[dst] + a.gr[src])
      THEN [a EXCEPT !.merged[dst].txs = @ \o a.mb.txs,
                     !.gs[dst] = @ + a.gs[src], !.gr[dst] = @ + a.gr[src], !.done = TRUE]
      ELSE [a EXCEPT !.merged[dst].txs = @ \o part.txs,
                     !.mb.txs = SelectSeq(@, LAMBDA tx : tx \notin Range(part.txs)),
                     !.gs[dst] = part.gs, !.gs[src] = @ - (part.gs - a.gs[dst]),
                     !.gr[dst] = part.gr, !.gr[src] = @ - (part.gr - a.gr[dst])]

SameRoute(m, n) == m.type = n.type /\ m.snd = n.snd /\ m.rcv = n.rcv

merge(a, mb, src) ==
  LET try(b, dst) ==
        IF b.done \/ ~SameRoute(b.merged[dst], mb) THEN b ELSE computeMerge(b, dst, src)
      r == FoldNow(try, [a EXCEPT !.mb = mb, !.done = FALSE],
                    [i \in DOMAIN a.merged |-> i])
  IN  IF r.done THEN r ELSE [r EXCEPT !.merged = Append(@, r.mb)]

Compact(mbs) ==
  IF mbs = <<>> THEN mbs
  ELSE FoldNow(LAMBDA a, i : merge(a, mbs[i], i),
                [merged |-> <<mbs[1]>>, mb |-> mbs[1], done |-> FALSE,
                 gs |-> GasSpent(mbs, "snd"), gr |-> GasSpent(mbs, "rcv")],
                [i \in 1 .. Len(mbs) - 1 |-> i + 1]).merged

-----------------------------------------------------------------------------
\* expansion

mapMinSenderNonce(txs) ==
  [a \in {tx.snd : tx \in txs} |-> Min({tx.nonce : tx \in {t \in txs : t.snd = a}})]

\* a: next (the nonce each sender is at), left (transactions not placed yet), out
createMiniBlockForShard(a, mb) ==
  LET place(b, tx) ==
        IF tx \notin b.left \/ tx.nonce # b.next[tx.snd] THEN b
        ELSE [b EXCEPT !.next[tx.snd] = @ + 1, !.left = @ \ {tx}, !.txs = Append(@, tx)]
      r == FoldNow(place, [next |-> a.next, left |-> a.left, txs |-> <<>>], mb.txs)
  IN  [next |-> r.next, left |-> r.left,
       out |-> IF r.txs = <<>> THEN a.out ELSE Append(a.out, [mb EXCEPT !.txs = r.txs])]

\* a round that places nothing is the last one; there are at most as many as
\* there are transactions
expandMiniBlocks(mbs) ==
  LET txs == Range(TxsOf(mbs))
  IN  FoldNow(LAMBDA a, round : FoldNow(createMiniBlockForShard, a, mbs),
               [next |-> mapMinSenderNonce(txs), left |-> txs, out |-> <<>>],
               [i \in 1 .. Cardinality(txs) |-> i]).out

Expand(mbs) ==
  SelectSeq(mbs, LAMBDA mb : mb.snd # Self)
    \o expandMiniBlocks(SelectSeq(mbs, LAMBDA mb : mb.snd = Self))

-----------------------------------------------------------------------------
\* the leader

NewBlock(acc) ==
  [st |-> [shard |-> Self, bal |-> acc.bal, nonce |-> acc.nonce, code |-> acc.code,
           fees |-> 0, scrs |-> {}, refunded |-> {}, isCallBack |-> FALSE],
   gas |-> [tx \in AllTxs |-> 0], err |-> "none", gs |-> 0, gr |-> 0,
   used    |-> {},                            \* txsForCurrBlock
   ordered |-> [d \in Range(Destinations) |-> <<>>],
   tried   |-> {}, dstMe |-> <<>>,            \* mini blocks of other shards
   own     |-> <<>>, log |-> <<>>,            \* mini blocks and transactions from here
   maxTx   |-> 0, maxMb |-> 0, space |-> 0,
   at      |-> 1, added |-> FALSE,            \* the two loops over the destinations
   late    |-> FALSE,                         \* ~haveTime()
   body    |-> <<>>]

MbInit ==
  /\ accounts = [bal |-> GenesisBalances, nonce |-> [a \in Addr |-> 0], code |-> Contracts]
  /\ txPool = {} /\ inbox = Cross /\ phase = "idle" /\ blocks = 0
  /\ w = NewBlock(accounts)

ReceivedTransaction(tx) ==
  /\ tx \notin txPool
  /\ txPool' = txPool \cup {tx}
  /\ UNCHANGED <<accounts, inbox, phase, w, blocks>>

CreateBlockBody ==
  /\ phase = "idle" /\ blocks < MaxBlocks
  /\ phase' = "dstMe" /\ w' = NewBlock(accounts)
  /\ UNCHANGED <<accounts, txPool, inbox, blocks>>

getMaxMiniBlocksSpaceRemained(items, miniBlocks) ==
  Min({MaxItems - items, MaxMiniBlocksInBlock - miniBlocks})

ProcessItem(st, item) ==
  IF item.kind = "scr" THEN Done(ProcessSmartContractResult(st, item, Vm(st, item)))
  ELSE ProcessTransaction(st, item, Vm(st, item))

\* the gas of all transactions is counted before the first is executed
CountGas(mb, txs) ==
  FoldNow(LAMBDA a, tx : IF a.err # "none" \/ mb.type = "scr" THEN a
                          ELSE computeGasConsumed(a, mb.snd, mb.rcv, tx),
           [w EXCEPT !.gs = 0, !.gr = 0], txs)

RunItems(txs) ==
  FoldNow(LAMBDA a, tx : IF a.err # "none" THEN a ELSE ProcessItem(a.st, tx), Done(w.st), txs)

\* the accounts are not reverted when the time is up
Mut_MiniBlockTried(mb, g, r, inTime) ==
  CASE g.err # "none" ->
         [w EXCEPT !.gas = RemoveGasConsumed(g.gas, Range(mb.txs)),
                   !.st = RemoveGasRefunded(@, Range(mb.txs))]
    [] g.err = "none" /\ r.err # "none" ->
         [w EXCEPT !.gas = RemoveGasConsumed(g.gas, Range(mb.txs)),
                   !.st = RemoveGasRefunded(RevertToSnapshot(r.st, @), Range(mb.txs))]
    [] g.err = "none" /\ r.err = "none" /\ ~inTime ->
         [w EXCEPT !.gas = g.gas, !.st = r.st, !.late = TRUE]
    [] OTHER ->
         [w EXCEPT !.gas = g.gas, !.st = r.st, !.used = @ \cup Range(mb.txs),
                   !.dstMe = Append(@, mb)]

\* g: after CountGas, r: after RunItems.  Only an error, not the end of the time,
\* removes the gas again.
MiniBlockTried(mb, g, r, inTime) ==
  CASE g.err # "none" ->
         [w EXCEPT !.gas = RemoveGasConsumed(g.gas, Range(mb.txs)),
                   !.st = RemoveGasRefunded(@, Range(mb.txs))]
    [] g.err = "none" /\ r.err # "none" ->
         [w EXCEPT !.gas = RemoveGasConsumed(g.gas, Range(mb.txs)),
                   !.st = RemoveGasRefunded(RevertToSnapshot(r.st, @), Range(mb.txs))]
    [] g.err = "none" /\ r.err = "none" /\ ~inTime ->
         [w EXCEPT !.gas = g.gas, !.st = RevertToSnapshot(r.st, @), !.late = TRUE]
    [] OTHER ->
         [w EXCEPT !.gas = g.gas, !.st = r.st, !.used = @ \cup Range(mb.txs),
                   !.dstMe = Append(@, mb)]

\* cut is the number of the test of haveTime that fails, 2n when none does
ProcessMiniBlock(mb, cut) ==
  LET n == Len(mb.txs)
  IN  MiniBlockTried(mb, CountGas(mb, SubSeq(mb.txs, 1, Min({cut, n}))),
                     RunItems(SubSeq(mb.txs, 1, cut - n)), cut = 2 * n)

\* processCompleteMiniBlock for one entry of the map of the meta block
CreateMbsAndProcessCrossShardTransactionsDstMe(mb) ==
  /\ phase = "dstMe" /\ ~w.late /\ mb \notin w.tried
  /\ Len(TxsOf(w.dstMe)) + Len(mb.txs) <= MaxItems
  /\ Len(w.dstMe) < getMaxMiniBlocksSpaceRemained(1, 0)
  /\ \E cut \in (IF mb.type = "scr" THEN Len(mb.txs) ELSE 0) .. 2 * Len(mb.txs) :
       w' = [ProcessMiniBlock(mb, cut) EXCEPT !.tried = @ \cup {mb}]
  /\ UNCHANGED <<accounts, txPool, inbox, phase, blocks>>

\* No time, no space, or what is left is missing some of its transactions.
CrossMiniBlocksDone ==
  /\ phase = "dstMe"
  /\ phase' = "fromMe"
  /\ LET items == Len(TxsOf(w.dstMe))
         hdrs  == IF items > 0 THEN 1 ELSE 0
     IN  w' = [w EXCEPT !.maxTx = MaxItems - items, !.space = MaxItems - items,
                        !.maxMb = getMaxMiniBlocksSpaceRemained(Len(w.dstMe) + hdrs, Len(w.dstMe)),
                        !.tried = {}]
  /\ UNCHANGED <<accounts, txPool, inbox, blocks>>

SortTxByNonce(S) ==
  {q \in SetToSeqs(S) : \A i, j \in DOMAIN q : i < j => q[i].nonce <= q[j].nonce}

PoolOf(dst) == {tx \in txPool : RcvShard(tx) = dst}

computeOrderedTxs(dst) ==
  CASE PoolOf(dst) = {} -> {<<>>}
    [] PoolOf(dst) # {} /\ w.ordered[dst] # <<>> -> {w.ordered[dst]}
    [] OTHER -> SortTxByNonce(PoolOf(dst))

\* a: w with the mini block mb, bad and full; g: with the gas of tx; r: tx executed
TransactionTried(a, tx, g, r) ==
  CASE g.err # "none" -> a
    [] g.err = "none" /\ r.err # "none" ->
         [a EXCEPT !.st = RemoveGasRefunded(RevertToSnapshot(r.st, @), {tx}),
                   !.bad = IF r.err \in {"lowerNonce", "funds"} THEN @ \cup {tx} ELSE @]
    [] OTHER ->
         [g EXCEPT !.st = r.st, !.used = @ \cup {tx}, !.log = Append(@, tx),
                   !.mb = Append(@, tx), !.full = Len(a.mb) + 1 >= a.space]

AddTransaction(a, tx, dst) ==
  IF a.full \/ tx \in a.used THEN a
  ELSE TransactionTried(a, tx, computeGasConsumed(a, Self, dst, tx), ProcessItem(a.st, tx))

\* a break of the loop over the shards ends the outer loop as well
LoopEnds ==
  \/ w.at = 0
  \/ w.at > 1 /\ (w.late \/ w.maxTx <= 0 \/ w.maxMb - Len(w.own) <= 0)

\* the next destination, or 0 when a whole round has added nothing
NextAt(at, added) ==
  CASE at < Len(Destinations) -> at + 1
    [] at = Len(Destinations) /\ added -> 2
    [] OTHER -> 0

\* a: after the loop over txs
MiniBlockCreated(a, dst, txs, cut) ==
  LET added == (a.mb # <<>> /\ w.at > 1) \/ w.added
  IN  /\ w' = [w EXCEPT
                 !.st = a.st, !.gas = a.gas, !.used = a.used, !.log = a.log,
                 !.ordered[dst] = IF txs = <<>> THEN @ ELSE txs,
                 !.own = IF a.mb = <<>> THEN @ ELSE Append(@, MiniBlock("tx", Self, dst, a.mb)),
                 !.space = @ - Len(a.mb),
                 !.at = NextAt(@, added), !.added = added /\ w.at < Len(Destinations),
                 !.late = @ \/ (cut < Len(txs) /\ ~a.full)]
      /\ txPool' = txPool \ a.bad

\* the time is up before the transaction with index cut + 1
CreateAndProcessMiniBlock ==
  /\ phase = "fromMe" /\ ~LoopEnds
  /\ \E dst \in {Destinations[w.at]} :
     \E txs \in computeOrderedTxs(dst) :
     \E cut \in IF w.late THEN {0} ELSE 0 .. Len(txs) :
       MiniBlockCreated(FoldNow(LAMBDA b, tx : AddTransaction(b, tx, dst),
                                 w @@ [mb |-> <<>>, bad |-> {}, full |-> FALSE],
                                 SubSeq(txs, 1, cut)), dst, txs, cut)
  /\ UNCHANGED <<accounts, inbox, phase, blocks>>

\* the results for each other shard
CreateAllInterMiniBlocks(st) ==
  {MiniBlock("scr", Self, d, {r \in st.scrs : r.rcv # ZeroAddr /\ ShardOf[r.rcv] = d}) :
     d \in {ShardOf[r.rcv] : r \in {s \in st.scrs : s.rcv # ZeroAddr}} \ {Self}}

\* the body of the proposed block, without the results for other shards
ProposeBlock ==
  /\ phase = "fromMe" /\ LoopEnds
  /\ phase' = "proposed"
  /\ w' = [w EXCEPT !.body = w.dstMe \o Compact(w.own)]
  /\ UNCHANGED <<accounts, txPool, inbox, blocks>>

-----------------------------------------------------------------------------
\* the validator

\* transactions: executed, then their gas is counted
ProcessTxBlock(a, mb) ==
  LET executed(b, r) == [b EXCEPT !.st = r.st, !.err = r.err]
      counted(b, tx) == IF b.err # "none" THEN b ELSE computeGasConsumed(b, mb.snd, mb.rcv, tx)
  IN  FoldNow(LAMBDA b, tx : IF b.err # "none" THEN b
                              ELSE counted(executed(b, ProcessItem(b.st, tx)), tx),
               [a EXCEPT !.gs = 0, !.gr = 0], mb.txs)

ProcessScrBlock(a, mb) ==
  FoldNow(LAMBDA b, scr : IF b.err # "none" THEN b
                           ELSE [b EXCEPT !.st = ProcessItem(b.st, scr).st], a, mb.txs)

\* the types in the order of their numbers
ProcessBlockTransaction(acc, body) ==
  LET ofType(type) == SelectSeq(body, LAMBDA mb : mb.type = type)
      new == NewBlock(acc)
      start == [st |-> new.st, gas |-> new.gas, err |-> "none", gs |-> 0, gr |-> 0]
  IN  FoldNow(ProcessScrBlock, FoldNow(ProcessTxBlock, start, Expand(ofType("tx"))),
               ofType("scr"))

\* a result mini block that the body lacks is not noticed
VerifyInterMiniBlocks(proposed, st) ==
  CreateAllInterMiniBlocks(proposed) \subseteq CreateAllInterMiniBlocks(st)

\* equal fees stand for equal reward transactions
Accepts(b) ==
  \E r \in {ProcessBlockTransaction(accounts, b.body)} :
    /\ r.err = "none"
    /\ VerifyInterMiniBlocks(b.st, r.st)
    /\ r.st.fees = b.st.fees
    /\ Accounts(r.st) = Accounts(b.st)

\* inTime: the validators finish before the end of the round
ProcessBody(inTime) ==
  /\ phase = "proposed"
  /\ phase' = "idle"
  /\ IF inTime /\ Accepts(w)
     THEN /\ accounts' = Accounts(w.st)
          /\ txPool' = txPool \ Range(TxsOf(w.body))
          /\ inbox' = inbox \ Range(w.dstMe)
          /\ blocks' = blocks + 1
     ELSE UNCHANGED <<accounts, txPool, inbox, blocks>>
  /\ w' = NewBlock(accounts')

MbNext ==
  \/ \E tx \in Txs : ReceivedTransaction(tx)
  \/ CreateBlockBody
  \/ \E mb \in inbox : CreateMbsAndProcessCrossShardTransactionsDstMe(mb)
  \/ CrossMiniBlocksDone
  \/ CreateAndProcessMiniBlock
  \/ ProposeBlock
  \/ \E inTime \in BOOLEAN : ProcessBody(inTime)

MbSpec == MbInit /\ [][MbNext]_mbVars

-----------------------------------------------------------------------------
MbTypeOK ==
  /\ accounts.nonce \in [Addr -> Nat]
  /\ txPool \subseteq Txs /\ inbox \subseteq Cross
  /\ phase \in {"idle", "dstMe", "fromMe", "proposed"}
  /\ w.gas \in [AllTxs -> 0 .. MaxGasLimitPerBlock] /\ w.at \in 0 .. Len(Destinations)
  /\ blocks \in 0 .. MaxBlocks

\* A validator that executes the block of an honest leader comes to the same
\* accounts, fees and results, although it runs the transactions in an order
\* of its own and with gas limits per expanded mini block.
ProposedIsAccepted == phase = "proposed" => Accepts(w)

FromSender(txs, a) == SelectSeq(txs, LAMBDA tx : tx.snd = a)

\* Expanding what was compacted gives every transaction of the leader once, and
\* those of a sender in the order in which the leader ran them.
SenderOrderIsKept ==
  phase = "proposed" =>
    LET own == SelectSeq(w.body, LAMBDA mb : mb.snd = Self)
        expanded == TxsOf(expandMiniBlocks(own))
    IN  /\ Len(expanded) = Len(w.log)
        /\ \A a \in Addr : FromSender(expanded, a) = FromSender(w.log, a)

SelfGas(mb, tx) == ComputeGasConsumedByTx(mb.snd, mb.rcv, tx)[IF mb.snd = Self THEN "snd" ELSE "rcv"]

\* The transactions of a proposed block need at most the gas of a block in this
\* shard, also after mini blocks of other shards were tried and given up.
BlockGasIsBounded ==
  phase = "proposed" =>
    FoldNow(LAMBDA n, mb : IF mb.type = "scr" THEN n
                            ELSE n + FoldNow(LAMBDA k, tx : k + SelfGas(mb, tx), 0, mb.txs),
             0, w.body) <= MaxGasLimitPerBlock

\* No mini block needs more gas than a block of its receiver shard has, else
\* that shard could never execute it.
MiniBlockGasIsBounded ==
  phase = "proposed" => \A i \in DOMAIN w.body : GasSpent(w.body, "rcv")[i] <= MaxGasLimitPerBlock

\* A proposed block has at most MaxItems transactions.
ItemsAreBounded == phase = "proposed" => Len(TxsOf(w.body)) <= MaxItems
=============================================================================
