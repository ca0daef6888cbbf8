------------------------------ MODULE MCBlocks ------------------------------
(***************************************************************************)
(* The blocks of a shard, one component per behaviour: how meta blocks are *)
(* executed, how a body is filled and checked, and where its data is.      *)
(***************************************************************************)
EXTENDS ShardProcessor, TLC, MiniBlocks, BlockData

-----------------------------------------------------------------------------
(* ShardProcessor *)
CONSTANTS mbA, mbB, mbC

\* The first meta block has two mini blocks for this shard and the second one;
\* the third only makes the second final.
TwoMetas == (1 :> {mbA, mbB}) @@ (2 :> {mbC}) @@ (3 :> {})

-----------------------------------------------------------------------------
(***************************************************************************)
(* Shard 0 of three and the metachain (9): two senders and a contract here, *)
(* one user and a contract in shard 1 and a contract in shard 2.           *)
(***************************************************************************)
CONSTANTS zero, alice, carol, bob, near, there, far, meta,
          AliceBalance, CarolBalance,
          ThreeShards, \* alice sends to all shards, and calls the contract of shard 2 twice
          CrossCall    \* a mini block of shard 1 calls the contract of this shard

MCAddr == {zero, alice, carol, bob, near, there, far, meta}
MCShardOf == [a \in MCAddr |-> CASE a \in {bob, there} -> 1 [] a = far -> 2 [] a = meta -> 9 [] OTHER -> 0]
MCGenesis == [a \in MCAddr |-> CASE a = alice -> AliceBalance [] a = carol -> CarolBalance [] OTHER -> 0]

Tx(snd, rcv, nonce, value, limit, data) ==
  [kind |-> "tx", of |-> <<snd, rcv, nonce, value>>, snd |-> snd, rcv |-> rcv, nonce |-> nonce,
   value |-> value, price |-> 1, limit |-> limit, data |-> data, back |-> FALSE]

Scr(rcv, value) ==
  [kind |-> "scr", of |-> <<there, rcv>>, snd |-> there, rcv |-> rcv, nonce |-> 0, value |-> value,
   price |-> 1, limit |-> 0, data |-> 0, back |-> FALSE, code |-> FALSE]

MCTxs ==
  IF ThreeShards
  THEN { Tx(alice, carol, 0, 1, 1, 0), Tx(alice, bob, 1, 1, 1, 0), Tx(alice, carol, 2, 1, 1, 0),
         Tx(alice, far, 3, 0, 6, 0), Tx(alice, far, 4, 0, 6, 0) }
  ELSE
  { Tx(alice, bob, 0, 1, 1, 0),
    Tx(alice, near, 1, 1, 4, 1),     \* calls the contract of this shard
    Tx(alice, there, 2, 0, 6, 1),    \* calls the contract of shard 1
    Tx(carol, meta, 0, 1, 1, 0) }

MCCross ==
  { MiniBlock("tx", 1, 0, <<Tx(bob, alice, 0, 2, 1, 0), Tx(bob, carol, 1, 1, 1, 0)>>),
    MiniBlock("scr", 1, 0, <<Scr(alice, 3)>>) }
  \cup IF CrossCall THEN {MiniBlock("tx", 1, 0, <<Tx(bob, near, 2, 1, 4, 1), Tx(bob, alice, 3, 1, 1, 0)>>)}
       ELSE {}

Out(a, delta) ==
  [addr |-> a, delta |-> delta, nonce |-> 0, code |-> FALSE, data |-> 0, limit |-> 0]

\* the contract keeps the value and leaves one unit of gas
MCVm(st, tx) ==
  [ret |-> IF tx.rcv = near THEN "ok" ELSE "fails",
   out |-> <<Out(near, tx.value)>>, left |-> 1, refund |-> 0, deleted |-> {}]

MCDestinations == IF ThreeShards THEN <<9, 0, 1, 2>> ELSE <<9, 0, 1>>

-----------------------------------------------------------------------------
(***************************************************************************)
(* Shard 0 of two: a transaction to the other shard that makes results, a  *)
(* transaction and a reward from there.                                    *)
(***************************************************************************)
\* a name says kind, sender and receiver: s01 is a result from 0 to 1
MCKindOf == [i \in BlockItems |-> CASE i \in {"t01", "t10"} -> "tx"
                                    [] i \in {"s00", "s01"} -> "scr"
                                    [] OTHER -> "reward"]
MCSndOf == [i \in BlockItems |-> IF i \in {"t10", "r10"} THEN 1 ELSE 0]
MCRcvOf == [i \in BlockItems |-> IF i \in {"t01", "s01", "r01"} THEN 1 ELSE 0]
MCMadeBy == [i \in BlockItems |-> CASE i = "t01" -> {"s00"} [] i = "t10" -> {"s01"} [] OTHER -> {}]
MCRewardsOf == <<{"r00", "r01"}, {"q00"}>>
MCCrossMbs == {[kind |-> "tx", snd |-> 1, rcv |-> 0, items |-> {"t10"}],
               [kind |-> "reward", snd |-> 1, rcv |-> 0, items |-> {"r10"}]}

-----------------------------------------------------------------------------
VARIABLE part   \* the component this behaviour is about

BlocksInit ==
  /\ part \in {"headers", "body", "data"}
  /\ Init /\ MbInit /\ DataInit

HeaderSteps == part = "headers" /\ Next /\ UNCHANGED <<part, mbVars, dataVars>>
BodySteps == part = "body" /\ MbNext /\ UNCHANGED <<part, vars, dataVars>>
DataSteps == part = "data" /\ DataNext /\ UNCHANGED <<part, vars, mbVars>>

BlocksSpec ==
  BlocksInit /\ [][HeaderSteps \/ BodySteps \/ DataSteps]_<<part, vars, mbVars, dataVars>>
=============================================================================
