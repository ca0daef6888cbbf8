---------------------------- MODULE BulkSender ----------------------------
(***************************************************************************)
(* The transactions a node sends for its users (node/node.go,              *)
(* SendTransaction and SendBulkTransactions; node/nodeTesting.go,          *)
(* GenerateAndSendBulkTransactions), packed into packets of limited size   *)
(* (core/partitioning) that a goroutine each broadcasts.                   *)
(*                                                                         *)
(* A transaction is its sender's shard, its size, its place in the call    *)
(* and whether validateTx accepts it.  Calls are API requests and run      *)
(* concurrently.                                                           *)
(***************************************************************************)
EXTENDS Integers, Sequences, FiniteSets, SequencesExt

CONSTANTS
    SendPlans,      \* what the callers ask for: [caller -> [kind, txs]]
    Packers,        \* packers that may be in use: "simple", "size"
    MaxBulkTransactionSize,
    maxGoRoutinesSendMessage

ASSUME BulkSenderAssumption ==
    /\ Packers \subseteq {"simple", "size"}
    /\ MaxBulkTransactionSize \in Nat \ {0}

VARIABLES
    requests,       \* the calls
    packer,
    unsent,         \* per caller, per shard: accepted transactions to pack
    callState,      \* per caller: "new", "sending", "done", "refused"
    packets,        \* packets whose goroutine has not ended
    ended,       \* packets broadcast or turned away by the messenger
    currentSendingGoRoutines

bulkVars == <<requests, packer, unsent, callState, packets, ended,
              currentSendingGoRoutines>>

SendShards == {0, 1}
Callers == DOMAIN requests

SendInit ==
    /\ requests \in SendPlans
    /\ packer \in Packers
    /\ unsent = [c \in Callers |-> [s \in SendShards |-> <<>>]]
    /\ callState = [c \in Callers |-> "new"]
    /\ packets = {}
    /\ ended = {}
    /\ currentSendingGoRoutines = 0

-----------------------------------------------------------------------------
(* core/partitioning                                                       *)

SizeOf(txs) == FoldLeft(LAMBDA total, tx : total + tx.size, 0, txs)

(* SimpleDataPacker.PackDataInChunks                                       *)
SimplePack(txs, limit) ==
    LET Add(acc, tx) ==
          IF SizeOf(acc.chunk) + tx.size >= limit /\ acc.chunk # <<>>
          THEN [out |-> Append(acc.out, acc.chunk), chunk |-> <<tx>>]
          ELSE [acc EXCEPT !.chunk = Append(@, tx)]
        all == FoldLeft(Add, [out |-> <<>>, chunk |-> <<>>], txs)
    IN IF all.chunk = <<>> THEN all.out ELSE Append(all.out, all.chunk)

(* SizeDataPacker.PackDataInChunks: last is lastMarshalized, emptied after *)
(* each packet although an element may be kept for the next one.  The size *)
(* of the marshalled elements is taken to be the sum of their sizes.       *)
SizePack(txs, limit) ==
    LET Add(acc, tx) ==
          LET with == Append(acc.chunk, tx)
          IN IF SizeOf(with) < limit
             THEN [acc EXCEPT !.chunk = with, !.last = with]
             ELSE IF Len(with) = 1
             THEN [out |-> Append(acc.out, with), chunk |-> <<>>, last |-> <<>>]
             ELSE IF tx.size >= limit
             THEN [out |-> acc.out \o <<acc.last, <<tx>> >>, chunk |-> <<>>, last |-> <<>>]
             ELSE [out |-> Append(acc.out, acc.last), chunk |-> <<tx>>, last |-> <<>>]
        all == FoldLeft(Add, [out |-> <<>>, chunk |-> <<>>, last |-> <<>>], txs)
    IN IF all.chunk = <<>> THEN all.out ELSE Append(all.out, all.chunk)

PackDataInChunks(txs) ==
    IF packer = "simple" THEN SimplePack(txs, MaxBulkTransactionSize)
    ELSE SizePack(txs, MaxBulkTransactionSize)

-----------------------------------------------------------------------------

(* The packets' goroutines start and are counted.                          *)
SendPackets(c, s, txs) ==
    LET packed == PackDataInChunks(txs)
    IN /\ packets' = packets \union
             {[caller |-> c, shard |-> s, place |-> i, txs |-> packed[i]] : i \in DOMAIN packed}
       /\ currentSendingGoRoutines' = currentSendingGoRoutines + Len(packed)

Accepted(c, s) ==
    SelectSeq(requests[c].txs, LAMBDA tx : tx.valid /\ tx.shard = s)

(* SendBulkTransactions sorts what validateTx accepts by sender shard.     *)
SendBulkTransactions(c) ==
    /\ callState[c] = "new" /\ requests[c].kind = "bulk"
    /\ callState' = [callState EXCEPT ![c] = IF requests[c].txs = <<>> THEN "refused" ELSE "sending"]
    /\ unsent' = [unsent EXCEPT ![c] = [s \in SendShards |-> Accepted(c, s)]]
    /\ UNCHANGED <<requests, packer, packets, ended, currentSendingGoRoutines>>

(* The shards come in the order of a map's iteration.                      *)
sendBulkTransactionsFromShard(c, s) ==
    /\ callState[c] = "sending" /\ unsent[c][s] # <<>>
    /\ SendPackets(c, s, unsent[c][s])
    /\ unsent' = [unsent EXCEPT ![c][s] = <<>>]
    /\ UNCHANGED <<requests, packer, callState, ended>>

BulkReturns(c) ==
    /\ callState[c] = "sending" /\ \A s \in SendShards : unsent[c][s] = <<>>
    /\ callState' = [callState EXCEPT ![c] = "done"]
    /\ UNCHANGED <<requests, packer, unsent, packets, ended, currentSendingGoRoutines>>

(* A single transaction goes to the messenger's channel at once, outside   *)
(* the count.                                                              *)
SendTransaction(c) ==
    /\ callState[c] = "new" /\ requests[c].kind = "single"
    /\ LET tx == requests[c].txs[1]
       IN IF tx.valid
          THEN /\ callState' = [callState EXCEPT ![c] = "done"]
               /\ ended' = ended \union
                    {[caller |-> c, shard |-> tx.shard, place |-> 1, txs |-> <<tx>>]}
          ELSE /\ callState' = [callState EXCEPT ![c] = "refused"]
               /\ UNCHANGED ended
    /\ UNCHANGED <<requests, packer, unsent, packets, currentSendingGoRoutines>>

(* Refused while too many packets are on their way; otherwise a goroutine  *)
(* per transaction signs it and they end in any order.                     *)
GenerateAndSendBulkTransactions(c) ==
    /\ callState[c] = "new" /\ requests[c].kind = "generate"
    /\ IF currentSendingGoRoutines >= maxGoRoutinesSendMessage \/ requests[c].txs = <<>>
       THEN /\ callState' = [callState EXCEPT ![c] = "refused"]
            /\ UNCHANGED unsent
       ELSE /\ callState' = [callState EXCEPT ![c] = "sending"]
            /\ \E signed \in SetToSeqs(ToSet(requests[c].txs)) :
                 unsent' = [unsent EXCEPT ![c][signed[1].shard] = signed]
    /\ UNCHANGED <<requests, packer, packets, ended, currentSendingGoRoutines>>

(* The end of a packet's goroutine, with or without an error.              *)
BroadcastOnChannelBlocking(p) ==
    /\ packets' = packets \ {p}
    /\ ended' = ended \union {p}
    /\ currentSendingGoRoutines' = currentSendingGoRoutines - 1
    /\ UNCHANGED <<requests, packer, unsent, callState>>

SendNext ==
    \/ \E c \in Callers :
         \/ SendBulkTransactions(c)
         \/ BulkReturns(c)
         \/ SendTransaction(c)
         \/ GenerateAndSendBulkTransactions(c)
         \/ \E s \in SendShards : sendBulkTransactionsFromShard(c, s)
    \/ \E p \in packets : BroadcastOnChannelBlocking(p)

SendSpec == SendInit /\ [][SendNext]_bulkVars

-----------------------------------------------------------------------------

PacketsOf(c, s) == {p \in packets \union ended : p.caller = c /\ p.shard = s}

TxsIn(ps) == FlattenSeq([i \in 1..Cardinality(ps) |-> (CHOOSE p \in ps : p.place = i).txs])

(* A call that returned has put every transaction that validateTx accepts  *)
(* into exactly one packet of its sender's shard, with none lost, repeated *)
(* or out of place: the packets of a shard, in their order, hold them.     *)
EachSentOnce ==
    \A c \in Callers : callState[c] = "done" =>
      \A s \in SendShards :
        IF requests[c].kind = "generate"
        THEN LET sent == TxsIn(PacketsOf(c, s))
             IN /\ Len(sent) = Len(Accepted(c, s))
                /\ ToSet(sent) = ToSet(Accepted(c, s))
        ELSE TxsIn(PacketsOf(c, s)) = Accepted(c, s)

(* "If one element still exceeds maxPacketSize, it will be returned alone":*)
(* a packet of several transactions stays below the limit, none is empty.  *)
PacketsFit ==
    \A p \in packets \union ended :
      /\ p.txs # <<>>
      /\ Len(p.txs) > 1 => SizeOf(p.txs) < MaxBulkTransactionSize

(* currentSendingGoRoutines, which decides whether more transactions are   *)
(* generated, is the number of packets still on their way.                 *)
SendersCounted == currentSendingGoRoutines = Cardinality(packets)
=============================================================================
