---------------------------- MODULE MCBootstrap -----------------------------
(* Instances of Bootstrap: the headers there are, with two forks from genesis *)
EXTENDS Bootstrap, TLC

H(n, r, p, f) == [nonce |-> n, round |-> r, prev |-> p, finals |-> f]

Validator(chain, hashes, last) ==
    [chain |-> chain, inConsensus |-> TRUE, headers |-> hashes, lastRound |-> last]
Observer(chain, hashes, last) ==
    [chain |-> chain, inConsensus |-> FALSE, headers |-> hashes, lastRound |-> last]

\* Two blocks of nonce 1, and one on top of each; in a shard 3 processes a meta
\* block that notarized 1.  Block 4 is seen by an observer only.
ForkHdr == 1 :> H(1, 1, 0, {}) @@ 2 :> H(1, 2, 0, {}) @@ 3 :> H(2, 3, 2, {1})
           @@ 4 :> H(2, 4, 1, {})
ForkNodes == {Validator("meta", 1 .. 3, 3), Validator("shard", 1 .. 3, 4),
              Observer("meta", 1 .. 4, 4)}

\* Two blocks of nonce 2 proposed in the same round, on different forks
SameHdr == 1 :> H(1, 1, 0, {}) @@ 2 :> H(1, 2, 0, {}) @@ 3 :> H(2, 3, 1, {})
           @@ 4 :> H(2, 3, 2, {}) @@ 5 :> H(3, 4, 4, {})
SameNodes == {Validator("meta", 1 .. 5, 5)}

\* The canonical chain, 1 then 3, and a stray block
CatchUpHdr == 1 :> H(1, 1, 0, {}) @@ 2 :> H(1, 2, 0, {}) @@ 3 :> H(2, 3, 1, {1})
CatchUpChain == {1, 3}
CatchUpNodes == {Observer("shard", 1 .. 3, 3)}

\* The last round stands for all the rounds after it too: a result of ShouldSync kept
\* for the round runs out
LaterRound ==
    /\ index = node.lastRound
    /\ roundIndex = index
    /\ roundIndex' = 0
    /\ UNCHANGED <<index, consensus, chainVars, sync, forkInfo, synced, timeouts, node>>

CatchUpSpec ==
    /\ Init
    /\ [][Next \/ LaterRound]_vars
    /\ Fairness(CatchUpChain) /\ WF_vars(LaterRound)

\* Once nothing fails any more and the peers send the canonical chain only, the
\* sync loop comes to an end: no fork and no higher header is left
CatchesUp ==
    <>[][CleanStep(CatchUpChain)]_vars =>
        <>[](~CheckFork(fd).detected /\ fd.highest <= Nonce(head))

\* What the rest of a behaviour depends on: forkInfo is computed again before it
\* is read when the sync loop is idle, and the rounds are only compared with the
\* current one
MCView ==
    <<node, index, chainVars, sync,
      consensus.round = index, consensus = [round |-> index, open |-> TRUE],
      IF sync = Idle THEN NewForkInfo ELSE forkInfo,
      SynchronizedInCurrentRound, timeouts>>
=============================================================================
