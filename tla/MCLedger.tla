------------------------------ MODULE MCLedger ------------------------------
(***************************************************************************)
(* Two shards, one user in each, a contract and the address of one that    *)
(* may be deployed in shard 0.                                             *)
(***************************************************************************)
EXTENDS Ledger

CONSTANTS zero, alice, bob, cont, fresh, comm, burned, h1, h2, h3, h4, h5, h6, h7,
          CrossCalls,   \* bob calls the contract of the other shard
          VmFaults      \* the output accounts may not add up

MCAddr == {zero, alice, bob, cont, fresh, comm, burned}
MCShardOf == [a \in MCAddr |-> IF a \in {bob, burned} THEN 1 ELSE 0]
MCGenesis == [a \in MCAddr |-> CASE a = alice -> 14 [] a = bob -> 9 [] a = cont -> 1 [] OTHER -> 0]
MCGroup == [s \in {0, 1} |-> IF s = 0 THEN <<alice>> ELSE <<bob, alice>>]
MCMetaGroup == <<bob>>

Tx(h, snd, rcv, nonce, value, limit, data) ==
  [kind |-> "tx", of |-> h, snd |-> snd, rcv |-> rcv, nonce |-> nonce, value |-> value,
   price |-> 1, limit |-> limit, data |-> data, back |-> FALSE]

MCTxs ==
  { Tx(h1, alice, bob, 0, 3, 2, 0),     \* to the other shard
    Tx(h2, alice, cont, 1, 2, 5, 1),    \* calls the contract
    Tx(h3, alice, zero, 1, 0, 4, 1),    \* deploys a contract
    Tx(h4, bob, alice, 0, 1, 1, 0),
    Tx(h5, bob, bob, 0, 4, 1, 0),       \* to itself
    Tx(h6, bob, alice, 1, 8, 1, 0) }    \* all that is left, but for the fee
  \cup IF CrossCalls THEN {Tx(h7, bob, cont, 1, 1, 5, 1)} ELSE {}

Out(a, delta) ==
  [addr |-> a, delta |-> delta, nonce |-> 0, code |-> a = fresh, data |-> 0, limit |-> 0]

Answer(ret, out, left) ==
  [ret |-> ret, out |-> out, left |-> left, refund |-> 0, deleted |-> {}]

\* what a call with value v may do: keep it, pay its sender and the other
\* shard, or pay everything to the other shard and delete the contract
Calls(st, v) ==
  { Answer("ok", <<Out(cont, v)>>, 2),
    Answer("ok", <<Out(cont, v - 2), Out(alice, 1), Out(bob, 1)>>, 0),
    [Answer("ok", <<Out(cont, -st.bal[cont]), Out(bob, v + st.bal[cont])>>, 1)
       EXCEPT !.deleted = {cont}] }
  \cup IF VmFaults THEN {Answer("ok", <<Out(cont, v), Out(alice, 1)>>, 1)} ELSE {}

MCVmOutputs(st, tx) ==
  CASE tx.rcv = cont -> {Answer("fails", <<>>, 0), Answer("error", <<>>, 1)} \cup Calls(st, tx.value)
    [] tx.rcv = zero -> {Answer("fails", <<>>, 0), Answer("ok", <<Out(fresh, 0)>>, 1)}
    [] OTHER         -> {Answer("fails", <<>>, 0)}

\* the block of a shard that executes none is never looked at again
MCView == <<chain, [s \in running |-> work[s]], running, flying, created>>
=============================================================================
