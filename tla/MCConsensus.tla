----------------------------- MODULE MCConsensus -----------------------------
(***************************************************************************)
(* Two flavours of consensus, one per behaviour: BLS with two validators   *)
(* that both sign, and Bellare-Neven.                                      *)
(***************************************************************************)
EXTENDS BlsConsensus, SequencesExt, BnConsensus

-----------------------------------------------------------------------------
(* One shard of two or more validators.  The leader  depends on the round    *)
(* and on the last block, as in the code; the group is the first             *)
(* ConsensusGroupSize validators after the leader, the leader included.      *)
CONSTANTS v1, v2

\* v1 and v2 take turns as leader, the others follow
Others == Validators \ {v1, v2}
MCConsensusGroup(h, r) ==
    SubSeq((IF (h + r) % 2 = 1 THEN <<v1, v2>> ELSE <<v2, v1>>)
             \o SetToSeq(Others), 1, ConsensusGroupSize)

-----------------------------------------------------------------------------
PlansDef == {[size |-> 4, rounds |-> 1, patient |-> TRUE, silent |-> {}, failing |-> {<<1, "commHash">>}],
             [size |-> 2, rounds |-> 2, patient |-> FALSE, silent |-> {}, failing |-> {}]}
BnIdle == [size |-> 1, rounds |-> 1, patient |-> TRUE, silent |-> {1}, failing |-> {}]
PlansAndIdle == PlansDef \cup {BnIdle}
NoPlan == {BnIdle}
LeaderOfDef(p, r) == ((r - 1) % p.size) + 1

VARIABLE part

ConsensusInit ==
  /\ part \in {"bls", "bn"}
  /\ Init
  /\ BnInit
  /\ part = "bls" <=> plan = BnIdle

BlsSteps == part = "bls" /\ Next /\ UNCHANGED <<part, bnVars>>
BnSteps == part = "bn" /\ BnNext /\ UNCHANGED <<part, vars>>

ConsensusSpec == ConsensusInit /\ [][BlsSteps \/ BnSteps]_<<vars, bnVars, part>>
=============================================================================
