---------------------------- MODULE TxProcessor -----------------------------
(***************************************************************************)
(* What one transaction does to the accounts of a shard: the transaction   *)
(* processor, the smart contract processor and the reward transaction      *)
(* processor.  The state of a shard while a block is executed is a record  *)
(* st with the fields                                                      *)
(*                                                                         *)
(*   shard, bal, nonce, code   the accounts (code: addresses of contracts) *)
(*   fees                      accumulatedFees of the rewards handler      *)
(*   scrs                      interResultsForBlock                        *)
(*   refunded                  gasRefunded, per transaction                *)
(*   isCallBack                the field of the smart contract processor   *)
(*                                                                         *)
(* A transaction or a smart contract result is a record with kind, of (the *)
(* hash it goes back to), snd, rcv, nonce, value, price, limit, data (its  *)
(* length), back (data of a result that starts with '@') and, for results, *)
(* code (it carries code).  The virtual machine is external: its answer vm *)
(* is a parameter, with ret ("ok", "error", or "fails" when the call       *)
(* cannot be made), out (the output accounts), left, refund and deleted.   *)
(***************************************************************************)
EXTENDS Integers, Sequences, FiniteSets, Folds, SequencesExt

CONSTANTS Addr, ShardOf, ZeroAddr,
          MinGasPrice, MinGasLimit, MaxGasLimitPerBlock,
          Word                      \* 2^64 in the code

ASSUME TxConstants ==
  /\ ZeroAddr \in Addr
  /\ {MinGasPrice, MinGasLimit, MaxGasLimitPerBlock} \subseteq Nat
  /\ Word \in Nat \ {0}

InShard(st, a) == ShardOf[a] = st.shard

\* the empty address stands for the shard of the sender
RcvShard(tx) == IF tx.rcv = ZeroAddr THEN ShardOf[tx.snd] ELSE ShardOf[tx.rcv]

Done(st) == [st |-> st, err |-> "none"]
Fail(st, err) == [st |-> st, err |-> err]

-----------------------------------------------------------------------------
\* economics

ComputeGasLimit(tx) == MinGasLimit + tx.data

CheckValidityTxValues(tx) ==
  /\ MinGasPrice <= tx.price
  /\ ComputeGasLimit(tx) <= tx.limit
  /\ ComputeGasLimit(tx) <= MaxGasLimitPerBlock

ComputeFee(tx) == tx.price * ComputeGasLimit(tx)

Cost(tx) == tx.price * tx.limit + tx.value

-----------------------------------------------------------------------------
\* transaction type, checks and the plain transfer

ComputeTransactionType(st, tx) ==
  CASE tx.rcv = ZeroAddr /\ tx.data > 0 -> "SCDeployment"
    [] tx.rcv = ZeroAddr /\ tx.data = 0 -> "Invalid"
    [] tx.rcv # ZeroAddr /\ InShard(st, tx.rcv) /\ tx.rcv \in st.code /\ tx.data > 0
         -> "SCInvoking"
    [] OTHER -> "MoveBalance"

\* a lower nonce is let through
Mut_checkTxValues(st, tx) ==
  CASE ~InShard(st, tx.snd)         -> "none"
    [] st.nonce[tx.snd] < tx.nonce  -> "higherNonce"
    [] st.bal[tx.snd] < Cost(tx)    -> "funds"
    [] OTHER                        -> "none"

checkTxValues(st, tx) ==
  CASE ~InShard(st, tx.snd)         -> "none"
    [] st.nonce[tx.snd] < tx.nonce  -> "higherNonce"
    [] st.nonce[tx.snd] > tx.nonce  -> "lowerNonce"
    [] st.bal[tx.snd] < Cost(tx)    -> "funds"
    [] OTHER                        -> "none"

moveBalances(st, tx) ==
  LET s1 == IF InShard(st, tx.snd) THEN [st EXCEPT !.bal[tx.snd] = @ - tx.value] ELSE st
  IN  IF InShard(st, tx.rcv) THEN [s1 EXCEPT !.bal[tx.rcv] = @ + tx.value] ELSE s1

\* a transfer between shards runs in both; the fee is taken where the sender is
processMoveBalance(st, tx) ==
  IF ~InShard(st, tx.snd) THEN Done(moveBalances(st, tx))
  ELSE IF ~CheckValidityTxValues(tx) THEN Fail(st, "values")
  ELSE IF st.bal[tx.snd] < ComputeFee(tx) THEN Fail(st, "funds")
  ELSE LET s1 == moveBalances([st EXCEPT !.bal[tx.snd] = @ - ComputeFee(tx)], tx)
       IN  Done([s1 EXCEPT !.nonce[tx.snd] = @ + 1, !.fees = @ + ComputeFee(tx)])

-----------------------------------------------------------------------------
\* smart contracts

processSCPayment(st, tx) ==
  LET s1 == [st EXCEPT !.nonce[tx.snd] = @ + 1]
  IN  IF ~InShard(st, tx.snd) THEN Done(st)
      ELSE IF ~CheckValidityTxValues(tx) THEN Fail(s1, "values")
      ELSE IF st.bal[tx.snd] < Cost(tx) THEN Fail(s1, "funds")
      ELSE Done([s1 EXCEPT !.bal[tx.snd] = @ - Cost(tx)])

\* the hash that results of tx carry
TxHash(tx) == tx.of

Result(tx, rcv, nonce, value) ==
  [kind |-> "scr", of |-> TxHash(tx), snd |-> tx.rcv, rcv |-> rcv, nonce |-> nonce,
   value |-> value, price |-> 0, limit |-> 0, data |-> 1, back |-> TRUE, code |-> FALSE]

\* who gets the answer: the sender, or the contract when this was the call back
Answered(st, tx) == IF st.isCallBack THEN tx.rcv ELSE tx.snd

\* an account object
Account(st, a) == [bal |-> st.bal[a], nonce |-> st.nonce[a], code |-> a \in st.code]

\* local: the account of the sender is in this shard.  held is the account
\* object that was loaded before the virtual machine ran; saving it overwrites
\* what the output accounts did to the sender since.
processIfError(st, tx, local, held) ==
  LET scr == [Result(tx, Answered(st, tx), tx.nonce, tx.value) EXCEPT
                !.of = IF tx.kind = "scr" THEN tx ELSE TxHash(tx)]
      s1  == [st EXCEPT !.scrs = @ \cup {scr},
                        !.fees = @ + ((tx.limit * tx.price) % Word)]
  IN  IF local
      THEN [s1 EXCEPT !.bal[tx.snd] = held.bal + tx.value, !.nonce[tx.snd] = held.nonce,
                      !.code = IF held.code THEN @ \cup {tx.snd} ELSE @ \ {tx.snd}]
      ELSE s1

\* one output account of the virtual machine
ApplyOutput(o, r) ==
  IF r.err # "none" THEN r
  ELSE IF ~InShard(r.st, o.addr) THEN [r EXCEPT !.sum = @ + o.delta]
  ELSE LET s1 == IF o.code THEN [r.st EXCEPT !.code = @ \cup {o.addr}] ELSE r.st
           wrong == o.nonce # 0 /\ o.nonce < s1.nonce[o.addr]
           s2 == IF o.nonce # 0 THEN [s1 EXCEPT !.nonce[o.addr] = o.nonce] ELSE s1
       IN  IF wrong THEN [r EXCEPT !.st = s1, !.err = "nonce"]
           ELSE IF o.delta = 0 THEN [r EXCEPT !.st = s2]
           ELSE IF s2.bal[o.addr] + o.delta < 0 THEN [r EXCEPT !.st = s2, !.err = "balance"]
           ELSE [r EXCEPT !.st = [s2 EXCEPT !.bal[o.addr] = @ + o.delta],
                          !.sum = @ + o.delta]

processSCOutputAccounts(st, out, tx) ==
  LET r == FoldLeft(LAMBDA acc, o : ApplyOutput(o, acc),
                    [st |-> st, sum |-> -tx.value, err |-> "none"], out)
  IN  IF r.err = "none" /\ r.sum # 0 THEN [r EXCEPT !.err = "balance"] ELSE r

createSmartContractResult(o, tx) ==
  [Result(tx, o.addr, o.nonce, o.delta) EXCEPT
     !.price = tx.price, !.limit = o.limit, !.data = o.data, !.back = FALSE,
     !.code = o.code]

\* the unused gas goes back to the sender, at once when the account is here
createSCRForSender(st, tx, vm, local) ==
  LET refundErd == (vm.refund + vm.left) * tx.price
      scr == [Result(tx, Answered(st, tx), tx.nonce + 1, refundErd) EXCEPT
                !.price = tx.price, !.limit = vm.left]
      s1  == [st EXCEPT !.scrs = @ \cup {scr},
                        !.fees = @ + tx.price * tx.limit - refundErd]
  IN  IF local THEN [s1 EXCEPT !.bal[tx.snd] = @ + refundErd] ELSE s1

deleteAccounts(st, gone) ==
  LET here == {a \in gone : InShard(st, a)}
  IN  [st EXCEPT !.bal   = [a \in Addr |-> IF a \in here THEN 0 ELSE @[a]],
                 !.nonce = [a \in Addr |-> IF a \in here THEN 0 ELSE @[a]],
                 !.code  = @ \ here]

processVMOutput(st, tx, vm, local, held) ==
  LET r == processSCOutputAccounts(st, vm.out, tx)
      s1 == [r.st EXCEPT !.refunded = {p \in @ : p[1] # TxHash(tx)} \cup {<<TxHash(tx), vm.left>>},
                         !.scrs = @ \cup {createSmartContractResult(o, tx) : o \in Range(vm.out)}]
  IN  IF vm.ret # "ok" THEN processIfError(st, tx, local, held)
      ELSE IF r.err # "none" THEN processIfError(r.st, tx, local, held)
      ELSE deleteAccounts(createSCRForSender(s1, tx, vm, local), vm.deleted)

\* prepareSmartContractCall, createVMInput, the virtual machine and its output
RunContract(st, tx, vm, local) ==
  LET s1   == [st EXCEPT !.isCallBack = tx.back]
      held == Account(s1, tx.snd)
  IN  IF vm.ret = "fails" \/ tx.limit < ComputeGasLimit(tx)
      THEN processIfError(s1, tx, local, held)
      ELSE processVMOutput(s1, tx, vm, local, held)

\* ExecuteSmartContractTransaction and DeploySmartContract
ExecuteSmartContractTransaction(st, tx, vm) ==
  LET paid == processSCPayment(st, tx)
  IN  IF paid.err # "none" THEN paid
      ELSE Done(RunContract(paid.st, tx, vm, InShard(st, tx.snd)))

-----------------------------------------------------------------------------
\* the three kinds of transactions of a block

ProcessTransaction(st, tx, vm) ==
  LET type == ComputeTransactionType(st, tx)
      err  == checkTxValues(st, tx)
  IN  CASE err # "none"         -> Fail(st, err)
        [] err = "none" /\ type = "Invalid"     -> Fail(st, "wrong")
        [] err = "none" /\ type = "MoveBalance" -> processMoveBalance(st, tx)
        [] OTHER                -> ExecuteSmartContractTransaction(st, tx, vm)

\* the sender of a result is never charged, and errors are answered by a result
ProcessSmartContractResult(st, scr, vm) ==
  LET type == IF InShard(st, scr.rcv) THEN ComputeTransactionType(st, scr) ELSE "Invalid"
  IN  CASE type = "MoveBalance" -> [st EXCEPT !.bal[scr.rcv] = @ + scr.value,
                                             !.code = IF scr.code THEN @ \cup {scr.rcv} ELSE @]
        [] type = "SCInvoking"  -> RunContract(st, scr, vm, FALSE)
        [] OTHER                -> processIfError(st, scr, FALSE, Account(st, scr.rcv))

ProcessRewardTransaction(st, r) ==
  IF InShard(st, r.rcv) THEN [st EXCEPT !.bal[r.rcv] = @ + r.value] ELSE st
=============================================================================
