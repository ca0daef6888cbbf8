---------------------------- MODULE MCMetachain ----------------------------
(***************************************************************************)
(* The parts of the metachain, one at a time: its block processor, the     *)
(* staking contract with the peer accounts that follow it, the validators' *)
(* statistics and the journal of the peer accounts.  part says which one   *)
(* moves; the others keep one initial state.                               *)
(***************************************************************************)
EXTENDS MetaProcessor, TLC, Staking, ValidatorStats, PeerAccounts

-----------------------------------------------------------------------------
(* MetaProcessor *)
\* shard 0: 1 <- 2 <- 4 and the fork 3 of 1
MCHdr == 1 :> [shard |-> 0, nonce |-> 1, round |-> 1, prev |-> 0, mbs |-> TRUE]
      @@ 2 :> [shard |-> 0, nonce |-> 2, round |-> 3, prev |-> 1, mbs |-> FALSE]
      @@ 3 :> [shard |-> 0, nonce |-> 1, round |-> 2, prev |-> 0, mbs |-> TRUE]
      @@ 4 :> [shard |-> 0, nonce |-> 3, round |-> 4, prev |-> 2, mbs |-> FALSE]

MetaSpec == MetaInit /\ [][MetaNext]_metaVars

-----------------------------------------------------------------------------
(* ValidatorStats *)
Hash(i, seed, round) == seed * 5 + round * 3 + (i * i) \div 2
SeedOf(round) == (round * round + 1) % 5

Files == {[nodes |-> n, metaMin |-> 2, shardMin |-> m, size |-> s, metaSize |-> 2] :
            n \in {7}, m \in {2}, s \in {2}}
         \cup {[nodes |-> 5, metaMin |-> 2, shardMin |-> 2, size |-> 1, metaSize |-> 1],
               [nodes |-> 6, metaMin |-> 1, shardMin |-> 4, size |-> 3, metaSize |-> 1]}

-----------------------------------------------------------------------------
VARIABLE part

Parts == {"blocks", "staking", "statistics", "peers"}

Init ==
  /\ part \in Parts
  /\ MetaInit /\ StakingInit
  /\ StatInit /\ (part # "statistics" => setup = CHOOSE f \in Setups : TRUE)
  /\ PeerInit /\ (part # "peers" => peerTrie = <<>>)

Next ==
  /\ part' = part
  /\ \/ part = "blocks" /\ MetaNext /\ UNCHANGED <<stakingVars, statVars, peerVars>>
     \/ part = "staking" /\ StakingNext /\ UNCHANGED <<metaVars, statVars, peerVars>>
     \/ part = "statistics" /\ StatNext /\ UNCHANGED <<metaVars, stakingVars, peerVars>>
     \/ part = "peers" /\ PeerNext /\ UNCHANGED <<metaVars, stakingVars, statVars>>

Spec == Init /\ [][Next]_<<part, metaVars, stakingVars, statVars, peerVars>>
=============================================================================
