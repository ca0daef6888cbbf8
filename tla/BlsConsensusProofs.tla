------------------------- MODULE BlsConsensusProofs -------------------------
(* TLAPS proofs about BlsConsensus, for any number of validators, any group  *)
(* size, any selection of the groups and any number of rounds.               *)
EXTENDS BlsConsensus, FiniteSetTheorems, TLAPS

\* Two sets of signers that are both large for the union of their groups meet.
LEMMA QuorumsMeet ==
    ASSUME NEW A, NEW B, NEW G, NEW H, NEW T \in Nat,
           IsFiniteSet(G), IsFiniteSet(H), A \subseteq G, B \subseteq H,
           Cardinality(A) >= T, Cardinality(B) >= T,
           Cardinality(G \cup H) < 2 * T
    PROVE  A \cap B # {}
<1>1. IsFiniteSet(A) /\ IsFiniteSet(B)
  BY FS_Subset, Zenon
<1>2. /\ IsFiniteSet(G \cup H)
      /\ IsFiniteSet(A \cup B)
      /\ Cardinality(A \cup B) =
            Cardinality(A) + Cardinality(B) - Cardinality(A \cap B)
  BY <1>1, FS_Union, Zenon
<1>3. Cardinality(A \cup B) <= Cardinality(G \cup H)
  <2>1. A \cup B \subseteq G \cup H
    BY Zenon
  <2> QED BY <1>2, <2>1, FS_Subset, Zenon
<1>4. /\ Cardinality(A) \in Nat /\ Cardinality(B) \in Nat
      /\ Cardinality(G \cup H) \in Nat
  BY <1>1, <1>2, FS_CardinalityType, Zenon
<1>5. CASE A \cap B = {}
  <2>1. Cardinality(A \cap B) = 0
    BY <1>5, FS_EmptySet, Zenon
  <2> QED BY <1>2, <1>3, <1>4, <2>1
<1> QED BY <1>5, Zenon

LEMMA ThresholdType == ThresholdSignature \in Nat
BY BoundsAssumption DEF ThresholdSignature

\* One commit per round follows from the quorums and from signing once.
LEMMA QuorumsGiveOneCommit ==
    TypeOK /\ SignOncePerRound /\ CommittedHasQuorum => OneCommitPerRound
<1> SUFFICES ASSUME TypeOK, SignOncePerRound, CommittedHasQuorum,
                    NEW a \in committed, NEW b \in committed,
                    a.round = b.round,
                    Cardinality(a.group \cup b.group) < 2 * ThresholdSignature
             PROVE  a.hash = b.hash
  BY Zenon DEF OneCommitPerRound
<1>1. /\ a.group \subseteq Validators /\ b.group \subseteq Validators
  BY Zenon DEF TypeOK
<1>2. IsFiniteSet(a.group) /\ IsFiniteSet(b.group)
  BY <1>1, ValidatorsAssumption, FS_Subset, Zenon
<1>3. a.signers \cap b.signers # {}
  BY <1>2, ThresholdType, QuorumsMeet, Zenon DEF CommittedHasQuorum
<1>4. PICK v : v \in a.signers /\ v \in b.signers
  BY <1>3, Zenon
<1> DEFINE s == [who |-> v, round |-> a.round, hash |-> a.hash]
           t == [who |-> v, round |-> b.round, hash |-> b.hash]
<1>5. s \in signed /\ t \in signed
  BY <1>4, Zenon DEF CommittedHasQuorum
<1> QED BY <1>5, Zenon DEF SignOncePerRound
-----------------------------------------------------------------------------
LEMMA InitIInv == Init => IInv
<1> SUFFICES ASSUME Init PROVE IInv
  BY Zenon
<1> USE DEF Init
<1>1. TypeOK
  BY BoundsAssumption
  DEF TypeOK, Rounds, Subrounds, Proposals, Hashes, Messages, ConsensusStates,
      OptionalHashes, InitialState, srBeforeStartRound, SrStartRound, SrEndRound
<1>2. RoundPhase
  BY DEF RoundPhase, Fresh, InitialState, srBeforeStartRound, SrStartRound,
         SrEndRound
<1> QED
  BY <1>1, <1>2, Zenon DEF IInv, SignedPhase, MessagesAndShares, SignOncePerRound,
      CommittedHasQuorum, SignedIsOfTheRound, InitialState

\* What the invariant says of one validator whose ConsensusState is c, in round
\* i, subround sr, working or not.
NodeInv(n, c, i, sr, w) ==
    LET fresh == sr # srBeforeStartRound /\ (sr = SrStartRound => w)
    IN  /\ c \in ConsensusStates
        /\ sr \in Subrounds /\ w \in BOOLEAN /\ i \in Rounds
        /\ c.roundIndex <= i
        /\ fresh => c.roundIndex = i
        /\ fresh /\ sr # SrEndRound => \A f \in c.finished : f < sr
        /\ sr = SrStartRound /\ ~w => c.roundIndex < i
        /\ sr = SrEndRound => SignaturesCollected(c)
        /\ c.data # NoHash => proposals[c.data].round = c.roundIndex
        /\ \A s \in c.shares :
              [who |-> s.who, round |-> c.roundIndex, hash |-> s.hash] \in signed
        /\ \A s \in signed : s.who = n =>
              /\ s.round <= c.roundIndex
              /\ s.round = c.roundIndex /\ fresh =>
                    (sr = SrSignature /\ w) \/ sr = SrEndRound

LEMMA NodeInvOfIInv ==
    ASSUME IInv, NEW n \in Validators
    PROVE  NodeInv(n, cs[n], index[n], subround[n], working[n])
BY DEF IInv, NodeInv, TypeOK, RoundPhase, SignedPhase, MessagesAndShares, Fresh

\* Finishing a subround changes nothing else of the consensus state.
LEMMA FinishedFields ==
    ASSUME NEW e \in ConsensusStates, NEW sr \in SrStartRound .. SrEndRound
    PROVE  LET c == [e EXCEPT !.finished = @ \cup {sr}]
           IN  /\ c \in ConsensusStates /\ c.roundIndex = e.roundIndex
               /\ c.data = e.data /\ c.shares = e.shares
               /\ c.group = e.group
BY DEF ConsensusStates

\* A step of validator n that touches its own state only keeps the invariant
\* when the invariant holds of its new state.
LEMMA LocalStep ==
    ASSUME IInv, NEW n \in Validators, NEW c, NEW sr, NEW w, NEW st,
           NodeInv(n, c, index[n], sr, w),
           st \subseteq msgs,
           cs' = [cs EXCEPT ![n] = c],
           subround' = [subround EXCEPT ![n] = sr],
           working' = [working EXCEPT ![n] = w],
           stored' = [stored EXCEPT ![n] = st],
           UNCHANGED <<index, head, proposals, msgs, committed, signed>>
    PROVE  IInv'
<1>1. TypeOK'
  BY ZenonT(30) DEF IInv, TypeOK, NodeInv, Messages, ConsensusStates, OptionalHashes, Proposals, Hashes
<1>2. RoundPhase'
  <2> SUFFICES ASSUME NEW m \in Validators
               PROVE  /\ cs'[m].roundIndex <= index'[m]
                      /\ Fresh(m)' => cs'[m].roundIndex = index'[m]
                      /\ Fresh(m)' /\ subround'[m] # SrEndRound =>
                            \A f \in cs'[m].finished : f < subround'[m]
                      /\ subround'[m] = SrStartRound /\ ~working'[m] =>
                            cs'[m].roundIndex < index'[m]
                      /\ subround'[m] = SrEndRound =>
                            SignaturesCollected(cs'[m])
    BY ZenonT(30) DEF RoundPhase, SignaturesCollected, SignatureDone, Members
  <2>1. CASE m = n
    <3>1. /\ cs'[m] = c /\ subround'[m] = sr /\ working'[m] = w
          /\ index'[m] = index[n]
      BY <2>1, Zenon DEF IInv, TypeOK
    <3> QED BY <3>1, Zenon DEF NodeInv, Fresh
  <2>2. CASE m # n
    <3>1. /\ cs'[m] = cs[m] /\ subround'[m] = subround[m]
          /\ working'[m] = working[m] /\ index'[m] = index[m]
      BY <2>2, Zenon DEF IInv, TypeOK
    <3> QED BY <3>1, Zenon DEF IInv, RoundPhase, Fresh
  <2> QED BY <2>1, <2>2, Zenon
<1>3. SignedPhase'
  BY SMTT(30) DEF IInv, TypeOK, NodeInv, SignedPhase, Fresh
<1>4. MessagesAndShares'
  BY Zenon DEF IInv, TypeOK, NodeInv, MessagesAndShares
<1> QED
  BY SMTT(30), <1>1, <1>2, <1>3, <1>4
  DEF IInv, SignOncePerRound, CommittedHasQuorum, SignedIsOfTheRound

\* The same for a step that ends with the check of subround sr: the state c must
\* do for the next subround if the check holds, for waiting in sr otherwise.
LEMMA AfterCheckStep ==
    ASSUME IInv, NEW n \in Validators, NEW sr \in SrStartRound .. SrEndRound,
           NEW c, NEW st,
           subround[n] = sr, AfterCheck(n, sr, c),
           ~c.canceled /\ sr \in c.finished =>
              NodeInv(n, c, index[n],
                      IF sr = SrEndRound THEN srBeforeStartRound ELSE sr + 1,
                      FALSE),
           ~(~c.canceled /\ sr \in c.finished) =>
              NodeInv(n, c, index[n], sr, TRUE),
           st \subseteq msgs,
           stored' = [stored EXCEPT ![n] = st],
           UNCHANGED <<index, head, proposals, msgs, committed, signed>>
    PROVE  IInv'
<1>1. CASE ~c.canceled /\ sr \in c.finished
  <2> DEFINE next == IF sr = SrEndRound THEN srBeforeStartRound ELSE sr + 1
  <2>1. /\ cs' = [cs EXCEPT ![n] = c]
        /\ subround' = [subround EXCEPT ![n] = next]
        /\ working' = [working EXCEPT ![n] = FALSE]
    BY <1>1, Zenon DEF AfterCheck
  <2>2. NodeInv(n, c, index[n], next, FALSE)
    BY ZenonT(30), <1>1
  <2> HIDE DEF next
  <2> QED BY <2>1, <2>2, LocalStep, Zenon
<1>2. CASE ~(~c.canceled /\ sr \in c.finished)
  <2>1. /\ cs' = [cs EXCEPT ![n] = c]
        /\ subround' = subround
        /\ working' = [working EXCEPT ![n] = TRUE]
    BY <1>2, Zenon DEF AfterCheck
  <2>2. subround' = [subround EXCEPT ![n] = sr]
    BY <2>1, Zenon DEF IInv, TypeOK
  <2> QED BY ZenonT(30), <1>2, <2>1, <2>2, LocalStep
<1> QED BY <1>1, <1>2, Zenon

LEMMA StoredUnchanged ==
    ASSUME IInv, NEW n \in Validators, UNCHANGED stored
    PROVE  stored[n] \subseteq msgs /\ stored' = [stored EXCEPT ![n] = stored[n]]
BY Zenon DEF IInv, TypeOK, MessagesAndShares

\* The states initCurrentRound may end in
LEMMA InitCurrentRoundResult ==
    ASSUME IInv, NEW n \in Validators, NEW c \in ConsensusStates,
           c.roundIndex = index[n], c.finished = {}, ~c.canceled,
           NEW d \in InitCurrentRound(n, c)
    PROVE  /\ d \in ConsensusStates
           /\ d.roundIndex = c.roundIndex /\ d.data = c.data
           /\ d.shares \subseteq c.shares
           /\ ~d.canceled /\ SrStartRound \in d.finished
                 => d.finished = {SrStartRound}
           /\ ~(~d.canceled /\ SrStartRound \in d.finished)
                 => d.finished = {}
<1>1. ConsensusGroup(head[n], c.roundIndex) \in Seq(Validators)
  <2>1. head[n] \in 0 .. MaxProposals
    <3>1. /\ Len(proposals) \in Nat /\ Len(proposals) <= MaxProposals
          /\ head[n] \in Hashes
      BY DEF IInv, TypeOK
    <3> QED BY <3>1, BoundsAssumption DEF Hashes, Proposals, GenesisHash
  <2>2. c.roundIndex \in 0 .. MaxRound
    BY Zenon DEF IInv, TypeOK, Rounds
  <2> QED BY <2>1, <2>2, GroupAssumption, Zenon
<1> DEFINE inRound == [c EXCEPT !.group = ConsensusGroup(head[n], c.roundIndex),
                                !.blockDone = {}, !.shares = {}]
<1>2. /\ inRound \in ConsensusStates /\ inRound.roundIndex = c.roundIndex
      /\ inRound.data = c.data /\ inRound.shares = {} /\ inRound.finished = {}
      /\ ~inRound.canceled
  BY ZenonT(30), <1>1 DEF ConsensusStates
<1>3. d \in {c, [c EXCEPT !.canceled = TRUE], [inRound EXCEPT !.canceled = TRUE],
            [inRound EXCEPT !.finished = @ \cup {SrStartRound}]}
  BY Zenon DEF InitCurrentRound
<1> HIDE DEF inRound
<1>4. CASE d = c
  BY <1>4, Zenon
<1>5. CASE d = [c EXCEPT !.canceled = TRUE]
  BY <1>5, Zenon DEF ConsensusStates
<1>6. CASE d = [inRound EXCEPT !.canceled = TRUE]
  BY ZenonT(30), <1>2, <1>6 DEF ConsensusStates
<1>7. CASE d = [inRound EXCEPT !.finished = @ \cup {SrStartRound}]
  <2>1. /\ d.finished = {SrStartRound} /\ d.roundIndex = inRound.roundIndex
        /\ d.data = inRound.data /\ d.shares = inRound.shares
        /\ d.canceled = inRound.canceled
    BY <1>2, <1>7, Zenon DEF ConsensusStates
  <2>2. {SrStartRound} \subseteq SrStartRound .. SrEndRound
    BY DEF SrStartRound, SrEndRound
  <2>3. d \in ConsensusStates
    BY ZenonT(30), <1>2, <1>7, <2>1, <2>2 DEF ConsensusStates
  <2> QED BY <1>2, <2>1, <2>3, Zenon
<1> QED BY <1>3, <1>4, <1>5, <1>6, <1>7, Zenon

LEMMA DoStartRoundStep ==
    ASSUME IInv, NEW n \in Validators, DoStartRound(n)
    PROVE  IInv'
<1> DEFINE c == [ResetConsensusState(cs[n]) EXCEPT !.roundIndex = index[n]]
<1>1. /\ c \in ConsensusStates /\ c.roundIndex = index[n] /\ c.finished = {}
      /\ c.data = NoHash /\ c.shares = {} /\ ~c.canceled
  <2>1. cs[n] \in ConsensusStates /\ index[n] \in Rounds
    BY Zenon DEF IInv, TypeOK
  <2> QED
    BY ZenonT(30), <2>1 DEF ResetConsensusState, ConsensusStates, OptionalHashes
<1>2. PICK d \in InitCurrentRound(n, c) : AfterCheck(n, SrStartRound, d)
  BY Zenon DEF DoStartRound
<1> HIDE DEF c
<1>3. /\ d \in ConsensusStates
      /\ d.roundIndex = index[n] /\ d.data = NoHash /\ d.shares = {}
      /\ ~d.canceled /\ SrStartRound \in d.finished
            => d.finished = {SrStartRound}
      /\ ~(~d.canceled /\ SrStartRound \in d.finished) => d.finished = {}
  BY <1>1, InitCurrentRoundResult
<1>4. /\ \A s \in signed : s.who = n => /\ s.round < index[n]
                                        /\ s.round \in Int
      /\ index[n] \in Rounds /\ index[n] \in Int
  BY NodeInvOfIInv DEF DoStartRound, NodeInv, IInv, TypeOK, Rounds, ConsensusStates
<1>5. ~d.canceled /\ SrStartRound \in d.finished =>
         NodeInv(n, d, index[n], SrStartRound + 1, FALSE)
  BY <1>3, <1>4
  DEF NodeInv, Subrounds, SrStartRound, SrEndRound, SrSignature,
      srBeforeStartRound
<1>6. ~(~d.canceled /\ SrStartRound \in d.finished) =>
         NodeInv(n, d, index[n], SrStartRound, TRUE)
  BY <1>3, <1>4
  DEF NodeInv, Subrounds, SrStartRound, SrEndRound, SrSignature,
      srBeforeStartRound, Rounds
<1>7. CleanedList(n) \subseteq msgs
  BY Zenon DEF CleanedList, IInv, MessagesAndShares
<1>8. SrStartRound \in SrStartRound .. SrEndRound /\ SrStartRound # SrEndRound
  BY DEF SrStartRound, SrEndRound
<1> QED
  BY ZenonT(30), <1>2, <1>5, <1>6, <1>7, <1>8, AfterCheckStep DEF DoStartRound

LEMMA RecheckStartRoundStep ==
    ASSUME IInv, NEW n \in Validators, RecheckStartRound(n)
    PROVE  IInv'
<1>1. PICK d \in InitCurrentRound(n, cs[n]) : AfterCheck(n, SrStartRound, d)
  BY Zenon DEF RecheckStartRound
<1>2. /\ cs[n] \in ConsensusStates /\ cs[n].roundIndex = index[n]
      /\ cs[n].finished = {} /\ ~cs[n].canceled
  BY NodeInvOfIInv
  DEF RecheckStartRound, NodeInv, ConsensusStates, SrStartRound, SrEndRound,
      srBeforeStartRound
<1>3. /\ d \in ConsensusStates
      /\ d.roundIndex = index[n] /\ d.data = cs[n].data
      /\ d.shares \subseteq cs[n].shares
      /\ ~d.canceled /\ SrStartRound \in d.finished
            => d.finished = {SrStartRound}
      /\ ~(~d.canceled /\ SrStartRound \in d.finished) => d.finished = {}
  BY <1>1, <1>2, InitCurrentRoundResult
<1>4. NodeInv(n, cs[n], index[n], SrStartRound, TRUE)
  BY NodeInvOfIInv, Zenon DEF RecheckStartRound, IInv, TypeOK
<1>5. ~d.canceled /\ SrStartRound \in d.finished =>
         NodeInv(n, d, index[n], SrStartRound + 1, FALSE)
  BY SMTT(30), <1>2, <1>3, <1>4
  DEF NodeInv, Subrounds, SrStartRound, SrEndRound, SrSignature,
      srBeforeStartRound, Rounds
<1>6. ~(~d.canceled /\ SrStartRound \in d.finished) =>
         NodeInv(n, d, index[n], SrStartRound, TRUE)
  BY <1>2, <1>3, <1>4
  DEF NodeInv, Subrounds, SrStartRound, SrEndRound, SrSignature,
      srBeforeStartRound, Rounds
<1>8. SrStartRound \in SrStartRound .. SrEndRound /\ SrStartRound # SrEndRound
  BY DEF SrStartRound, SrEndRound
<1> QED
  BY ZenonT(30), <1>1, <1>5, <1>6, <1>8, StoredUnchanged, AfterCheckStep
  DEF RecheckStartRound

LEMMA CheckBlockResult ==
    ASSUME NEW n, NEW i, NEW w, NEW c, NodeInv(n, c, i, SrBlock, w)
    PROVE  LET d == CheckBlock(c)
           IN  /\ ~d.canceled /\ SrBlock \in d.finished =>
                     NodeInv(n, d, i, SrSignature, FALSE)
               /\ ~(~d.canceled /\ SrBlock \in d.finished) =>
                     NodeInv(n, d, i, SrBlock, TRUE)
<1> USE DEF SrStartRound, SrBlock, SrSignature, SrEndRound, srBeforeStartRound
<1> DEFINE d == CheckBlock(c)
<1>1. /\ c \in ConsensusStates /\ c.roundIndex = i
      /\ \A f \in c.finished : f < SrBlock
      /\ \A s \in signed : s.who = n => s.round <= i /\ s.round # i
  BY DEF NodeInv
<1>2. CASE d = c
  <2>1. ~(~d.canceled /\ SrBlock \in d.finished)
    BY <1>1, <1>2
  <2>2. NodeInv(n, c, i, SrBlock, TRUE)
    BY <1>1, Zenon DEF NodeInv
  <2> QED BY <1>2, <2>1, <2>2, Zenon
<1>3. CASE d = [c EXCEPT !.finished = @ \cup {SrBlock}] /\ ~c.canceled
  <2>1. /\ d.finished = c.finished \cup {SrBlock} /\ d.canceled = c.canceled
        /\ d.roundIndex = c.roundIndex /\ d.data = c.data
        /\ d.shares = c.shares /\ d \in ConsensusStates
    BY <1>1, <1>3 DEF ConsensusStates
  <2>2. \A f \in d.finished : f < SrSignature
    BY <1>1, <2>1 DEF ConsensusStates
  <2> HIDE DEF d
  <2>3. NodeInv(n, d, i, SrSignature, FALSE)
    BY <1>1, <2>1, <2>2 DEF NodeInv, Subrounds
  <2> QED BY ZenonT(30), <1>3, <2>1, <2>3 DEF d
<1> QED BY ZenonT(30), <1>2, <1>3 DEF CheckBlock

LEMMA CheckSignatureResult ==
    ASSUME NEW n, NEW i, NEW c, NodeInv(n, c, i, SrSignature, TRUE)
    PROVE  LET d == CheckSignature(c)
           IN  /\ ~d.canceled /\ SrSignature \in d.finished =>
                     NodeInv(n, d, i, SrEndRound, FALSE)
               /\ ~(~d.canceled /\ SrSignature \in d.finished) =>
                     NodeInv(n, d, i, SrSignature, TRUE)
<1> USE DEF SrStartRound, SrBlock, SrSignature, SrEndRound, srBeforeStartRound
<1> DEFINE d == CheckSignature(c)
<1>1. /\ c \in ConsensusStates /\ c.roundIndex = i
      /\ \A f \in c.finished : f < SrSignature
  BY SMTT(30) DEF NodeInv
<1>2. CASE d = c
  <2>1. ~(~d.canceled /\ SrSignature \in d.finished)
    BY <1>1, <1>2
  <2> QED BY ZenonT(30), <1>2, <2>1
<1>3. CASE /\ d = [c EXCEPT !.finished = @ \cup {SrSignature}] /\ ~c.canceled
           /\ SignaturesCollected(c)
  <2>1. /\ d.finished = c.finished \cup {SrSignature}
        /\ d.canceled = c.canceled /\ d.group = c.group
        /\ d.roundIndex = c.roundIndex /\ d.data = c.data
        /\ d.shares = c.shares /\ d \in ConsensusStates
    BY <1>1, <1>3 DEF ConsensusStates
  <2>2. SignaturesCollected(d)
    BY <1>3, <2>1 DEF SignaturesCollected, SignatureDone, Members
  <2> HIDE DEF d
  <2>3. NodeInv(n, d, i, SrEndRound, FALSE)
    BY <1>1, <2>1, <2>2 DEF NodeInv, Subrounds
  <2> QED BY ZenonT(30), <1>3, <2>1, <2>3 DEF d
<1> QED BY ZenonT(30), <1>2, <1>3 DEF CheckSignature

LEMMA BlockCheckStep ==
    ASSUME IInv, NEW n \in Validators, SkipBlockJob(n) \/ RecheckBlock(n)
    PROVE  IInv'
<1> DEFINE d == CheckBlock(cs[n])
<1>1. /\ subround[n] = SrBlock /\ AfterCheck(n, SrBlock, d)
      /\ UNCHANGED <<index, head, stored, proposals, msgs, committed, signed>>
  BY Zenon DEF SkipBlockJob, RecheckBlock
<1>2. NodeInv(n, cs[n], index[n], SrBlock, working[n])
  BY <1>1, NodeInvOfIInv, Zenon
<1>3. /\ ~d.canceled /\ SrBlock \in d.finished =>
            NodeInv(n, d, index[n], SrSignature, FALSE)
      /\ ~(~d.canceled /\ SrBlock \in d.finished) =>
            NodeInv(n, d, index[n], SrBlock, TRUE)
  BY ZenonT(30), <1>2, CheckBlockResult
<1>4. /\ SrBlock \in SrStartRound .. SrEndRound /\ SrBlock # SrEndRound
      /\ SrBlock + 1 = SrSignature
  BY DEF SrStartRound, SrBlock, SrSignature, SrEndRound
<1> HIDE DEF d
<1> QED BY ZenonT(30), <1>1, <1>3, <1>4, StoredUnchanged, AfterCheckStep

LEMMA SignatureCheckStep ==
    ASSUME IInv, NEW n \in Validators,
           SkipSignatureJob(n) \/ RecheckSignature(n)
    PROVE  IInv'
<1> DEFINE d == CheckSignature(cs[n])
<1>1. /\ subround[n] = SrSignature /\ AfterCheck(n, SrSignature, d)
      /\ UNCHANGED <<index, head, stored, proposals, msgs, committed, signed>>
  BY DEF SkipSignatureJob, RecheckSignature
<1>2. NodeInv(n, cs[n], index[n], SrSignature, TRUE)
  BY <1>1, NodeInvOfIInv
  DEF NodeInv, SrSignature, SrStartRound, SrEndRound
<1>3. /\ ~d.canceled /\ SrSignature \in d.finished =>
            NodeInv(n, d, index[n], SrEndRound, FALSE)
      /\ ~(~d.canceled /\ SrSignature \in d.finished) =>
            NodeInv(n, d, index[n], SrSignature, TRUE)
  BY <1>2, CheckSignatureResult, Zenon
<1>4. /\ SrSignature \in SrStartRound .. SrEndRound
      /\ SrSignature # SrEndRound /\ SrSignature + 1 = SrEndRound
  BY DEF SrStartRound, SrSignature, SrEndRound
<1> HIDE DEF d
<1> QED BY ZenonT(30), <1>1, <1>3, <1>4, StoredUnchanged, AfterCheckStep

LEMMA SkipEndRoundStep ==
    ASSUME IInv, NEW n \in Validators, SkipEndRoundJob(n)
    PROVE  IInv'
<1> USE DEF SrStartRound, SrSignature, SrEndRound, srBeforeStartRound
<1>1. NodeInv(n, cs[n], index[n], SrEndRound, working[n])
  BY NodeInvOfIInv, Zenon DEF SkipEndRoundJob
<1>2. /\ NodeInv(n, cs[n], index[n], SrEndRound, TRUE)
      /\ NodeInv(n, cs[n], index[n], srBeforeStartRound, FALSE)
  BY <1>1 DEF NodeInv, Subrounds
<1>3. /\ SrEndRound \in SrStartRound .. SrEndRound
      /\ subround[n] = SrEndRound /\ AfterCheck(n, SrEndRound, cs[n])
      /\ UNCHANGED <<index, head, stored, proposals, msgs, committed, signed>>
  BY DEF SkipEndRoundJob
<1> QED BY ZenonT(30), <1>2, <1>3, StoredUnchanged, AfterCheckStep

LEMMA TimeoutStep ==
    ASSUME IInv, NEW n \in Validators, Timeout(n)
    PROVE  IInv'
<1> USE DEF SrStartRound, SrSignature, SrEndRound, srBeforeStartRound
<1>1. NodeInv(n, cs[n], index[n], subround[n], working[n])
  BY NodeInvOfIInv
<1>2. NodeInv(n, cs[n], index[n], srBeforeStartRound, working[n])
  BY <1>1 DEF NodeInv, Subrounds
<1>3. /\ cs' = [cs EXCEPT ![n] = cs[n]]
      /\ working' = [working EXCEPT ![n] = working[n]]
      /\ subround' = [subround EXCEPT ![n] = srBeforeStartRound]
      /\ UNCHANGED <<index, head, stored, proposals, msgs, committed, signed>>
  BY Zenon DEF Timeout, IInv, TypeOK
<1> QED BY ZenonT(30), <1>2, <1>3, StoredUnchanged, LocalStep

-----------------------------------------------------------------------------
\* More shares never lose a quorum.
LEMMA MoreShares ==
    ASSUME NEW c \in ConsensusStates, NEW d \in ConsensusStates,
           c.group = d.group, c.shares \subseteq d.shares,
           SignaturesCollected(c)
    PROVE  SignaturesCollected(d)
<1> DEFINE A == SignatureDone(c) \cap Members(c)
           B == SignatureDone(d) \cap Members(d)
<1>1. A \subseteq B /\ B \subseteq Validators
  BY DEF SignatureDone, Members, ConsensusStates
<1>2. IsFiniteSet(B)
  BY SMTT(30), <1>1, ValidatorsAssumption, FS_Subset
<1>3. /\ Cardinality(A) <= Cardinality(B)
      /\ Cardinality(A) \in Nat /\ Cardinality(B) \in Nat
  BY <1>1, <1>2, FS_Subset, FS_CardinalityType
<1> QED BY <1>3, ThresholdType DEF SignaturesCollected

\* A handler that got a block message changes the data at most to the header of
\* the round and leaves shares, group and finished subrounds alone.
LEMMA BlockHandlerResult ==
    ASSUME IInv, NEW n \in Validators, NEW m \in msgs, Executable(n, m),
           NEW d \in ReceivedBlockBody(n, m) \cup ReceivedBlockHeader(n, m)
    PROVE  NodeInv(n, d, index[n], subround[n], working[n])
<1>1. /\ cs[n] \in ConsensusStates /\ m \in Messages
      /\ m.round = cs[n].roundIndex /\ proposals[m.hash].round = m.round
  BY ZenonT(30) DEF IInv, TypeOK, MessagesAndShares, Executable
<1>2. PICK e \in {cs[n], [cs[n] EXCEPT !.body = m.hash],
                 [cs[n] EXCEPT !.data = m.hash]} :
         d \in {cs[n], e, [e EXCEPT !.canceled = TRUE],
               [e EXCEPT !.blockDone = @ \cup {m.from}]}
  BY Zenon DEF ReceivedBlockBody, ReceivedBlockHeader, ProcessReceivedBlock
<1>3. /\ e \in ConsensusStates /\ e.roundIndex = cs[n].roundIndex
      /\ e.finished = cs[n].finished /\ e.shares = cs[n].shares
      /\ e.group = cs[n].group /\ e.data \in {cs[n].data, m.hash}
  BY <1>1, <1>2 DEF ConsensusStates, Messages, OptionalHashes
<1>4. /\ d \in ConsensusStates /\ d.roundIndex = cs[n].roundIndex
      /\ d.finished = cs[n].finished /\ d.shares = cs[n].shares
      /\ d.group = cs[n].group /\ d.data \in {cs[n].data, m.hash}
  <2>1. CASE d = cs[n]
    BY <1>1, <2>1, Zenon
  <2>2. CASE d = e
    BY <1>3, <2>2, Zenon
  <2>3. CASE d = [e EXCEPT !.canceled = TRUE]
    BY ZenonT(30), <1>3, <2>3 DEF ConsensusStates
  <2>4. CASE d = [e EXCEPT !.blockDone = @ \cup {m.from}]
    BY <1>1, <1>3, <2>4, Zenon DEF ConsensusStates, Messages
  <2> QED BY <1>2, <2>1, <2>2, <2>3, <2>4, Zenon
<1>5. NodeInv(n, cs[n], index[n], subround[n], working[n])
  BY NodeInvOfIInv, Zenon
<1>6. SignaturesCollected(cs[n]) => SignaturesCollected(d)
  BY <1>1, <1>4, MoreShares, Zenon
<1> QED BY SMTT(30), <1>1, <1>4, <1>5, <1>6 DEF NodeInv

LEMMA SignatureHandlerResult ==
    ASSUME IInv, NEW n \in Validators, NEW m \in msgs, Executable(n, m),
           m.type = MtSignature, NEW d \in ReceivedSignature(n, m)
    PROVE  NodeInv(n, d, index[n], subround[n], working[n])
<1>1. /\ cs[n] \in ConsensusStates /\ m \in Messages
      /\ m.round = cs[n].roundIndex
      /\ [who |-> m.from, round |-> m.round, hash |-> m.hash] \in signed
  BY Zenon DEF IInv, TypeOK, MessagesAndShares, Executable
<1>2. NodeInv(n, cs[n], index[n], subround[n], working[n])
  BY NodeInvOfIInv, Zenon
<1> DEFINE share == [who |-> m.from, hash |-> m.hash]
<1>3. d \in {cs[n], [cs[n] EXCEPT !.shares = @ \cup {share}]}
  BY Zenon DEF ReceivedSignature
<1>4. CASE d = cs[n]
  BY SMTT(30), <1>2, <1>4
<1>5. CASE d = [cs[n] EXCEPT !.shares = @ \cup {share}]
  <2>1. /\ d \in ConsensusStates /\ d.roundIndex = cs[n].roundIndex
        /\ d.finished = cs[n].finished /\ d.data = cs[n].data
        /\ d.group = cs[n].group /\ d.shares = cs[n].shares \cup {share}
    BY SMTT(30), <1>1, <1>5 DEF ConsensusStates, Messages
  <2>2. SignaturesCollected(cs[n]) => SignaturesCollected(d)
    BY <1>1, <2>1, MoreShares
  <2>3. \A s \in d.shares :
           [who |-> s.who, round |-> d.roundIndex, hash |-> s.hash] \in signed
    BY <1>1, <1>2, <2>1 DEF NodeInv
  <2> QED BY <1>2, <2>1, <2>2, <2>3, Zenon DEF NodeInv
<1> QED BY <1>3, <1>4, <1>5, Zenon

LEMMA HandlerStep ==
    ASSUME IInv, NEW n \in Validators, NEW m \in msgs, Executable(n, m),
           NEW d \in Handle(n, m)
    PROVE  NodeInv(n, d, index[n], subround[n], working[n])
<1>1. m.type \in {MtBlockBody, MtBlockHeader, MtSignature}
  BY Zenon DEF IInv, TypeOK, Messages
<1>2. CASE m.type = MtSignature
  <2>1. d \in ReceivedSignature(n, m)
    BY <1>2, Zenon DEF Handle, MtBlockBody, MtBlockHeader, MtSignature
  <2> QED BY <1>2, <2>1, SignatureHandlerResult, Zenon
<1>3. CASE m.type \in {MtBlockBody, MtBlockHeader}
  <2>1. d \in ReceivedBlockBody(n, m) \cup ReceivedBlockHeader(n, m)
    BY <1>3, Zenon DEF Handle, MtBlockBody, MtBlockHeader, MtSignature
  <2> QED BY <2>1, BlockHandlerResult, Zenon
<1> QED BY SMTT(30), <1>1, <1>2, <1>3

LEMMA MessageStep ==
    ASSUME IInv, NEW n \in Validators, NEW m \in msgs,
           \/ ReceiveMessage(n, m)
           \/ m \in stored[n] /\ ExecuteStoredMessage(n, m)
    PROVE  IInv'
<1>1. /\ subround' = [subround EXCEPT ![n] = subround[n]]
      /\ working' = [working EXCEPT ![n] = working[n]]
      /\ UNCHANGED <<index, head, proposals, msgs, committed, signed>>
  BY Zenon DEF ReceiveMessage, ExecuteStoredMessage, IInv, TypeOK
<1>2. stored[n] \subseteq msgs
  BY Zenon DEF IInv, MessagesAndShares
<1>3. CASE /\ Executable(n, m)
           /\ \E d \in Handle(n, m) : cs' = [cs EXCEPT ![n] = d]
           /\ \E st : st \subseteq msgs /\ stored' = [stored EXCEPT ![n] = st]
  BY Zenon, <1>1, <1>3, HandlerStep, LocalStep
<1>4. CASE /\ UNCHANGED cs
           /\ stored' = [stored EXCEPT ![n] = @ \cup {m}]
  <2>1. cs' = [cs EXCEPT ![n] = cs[n]]
    BY <1>4, Zenon DEF IInv, TypeOK
  <2>2. stored[n] \cup {m} \subseteq msgs
    BY SMTT(30), <1>2
  <2> QED BY ZenonT(30), <1>1, <1>4, <2>1, <2>2, NodeInvOfIInv, LocalStep
<1>5. stored' = stored => stored' = [stored EXCEPT ![n] = stored[n]]
  BY Zenon DEF IInv, TypeOK
<1>6. stored[n] \ {m} \subseteq msgs
  BY <1>2, Zenon
<1>7. CASE ReceiveMessage(n, m)
  <2>1. CASE Executable(n, m)
    BY SMTT(30), <1>2, <1>3, <1>5, <1>7, <2>1 DEF ReceiveMessage
  <2>2. CASE ~Executable(n, m)
    BY <1>4, <1>7, <2>2, Zenon DEF ReceiveMessage
  <2> QED BY <2>1, <2>2, Zenon
<1>8. CASE ExecuteStoredMessage(n, m)
  BY <1>3, <1>6, <1>8, Zenon DEF ExecuteStoredMessage
<1> QED BY SMTT(30), <1>7, <1>8

-----------------------------------------------------------------------------
\* The headers, messages and shares only grow, and validator n made the shares.
Grows(n) ==
    /\ Len(proposals) <= Len(proposals')
    /\ \A h \in Proposals : proposals'[h] = proposals[h]
    /\ msgs \subseteq msgs'
    /\ signed \subseteq signed'
    /\ \A s \in signed' : s \notin signed => s.who = n

\* What TypeOK and MessagesAndShares say of the state all validators share.
SharedInv ==
    /\ proposals \in Seq([leader : Validators, round : Rounds, prev : Nat,
                          nonce : Nat])
    /\ Len(proposals) <= MaxProposals
    /\ \A h \in Proposals : proposals[h].prev \in 0 .. h - 1
    /\ head \in [Validators -> Hashes]
    /\ msgs \subseteq Messages
    /\ signed \subseteq [who : Validators, round : Rounds, hash : Proposals]
    /\ committed \subseteq [hash : Proposals, round : Rounds,
                            signers : SUBSET Validators,
                            group : SUBSET Validators]
    /\ \A m \in msgs :
          /\ proposals[m.hash].round = m.round
          /\ m.type = MtSignature =>
                [who |-> m.from, round |-> m.round, hash |-> m.hash] \in signed

LEMMA GrowingTypes ==
    ASSUME IInv, SharedInv', NEW n, Grows(n)
    PROVE  /\ Proposals \subseteq Proposals' /\ Messages \subseteq Messages'
           /\ ConsensusStates \subseteq ConsensusStates'
           /\ Hashes \subseteq Hashes'
<1>1. Proposals \subseteq Proposals'
  <2>1. Len(proposals) \in Nat /\ Len(proposals') \in Nat
    BY DEF SharedInv, IInv, TypeOK
  <2> QED BY <2>1 DEF Grows, Proposals
<1>2. Messages \subseteq Messages' /\ Hashes \subseteq Hashes'
  BY <1>1, Zenon DEF Messages, Hashes
<1>3. ConsensusStates \subseteq ConsensusStates'
  <2>1. OptionalHashes \subseteq OptionalHashes'
    BY <1>1, Zenon DEF OptionalHashes
  <2>2. [who : Validators, hash : Proposals]
           \subseteq [who : Validators, hash : Proposals']
    BY <1>1, Zenon
  <2>3. SUBSET [who : Validators, hash : Proposals]
           \subseteq SUBSET [who : Validators, hash : Proposals']
    BY <2>2, Zenon
  <2> QED BY <2>1, <2>3, Zenon DEF ConsensusStates
<1> QED BY <1>1, <1>2, <1>3, Zenon

\* A step of validator n that also extends the shared state keeps the invariant
\* when it holds of n and of the shared state afterwards.
LEMMA SharedStep ==
    ASSUME IInv, NEW n \in Validators, NEW c, NEW i, NEW sr, NEW w,
           cs' = [cs EXCEPT ![n] = c],
           index' = [index EXCEPT ![n] = i],
           subround' = [subround EXCEPT ![n] = sr],
           working' = [working EXCEPT ![n] = w],
           UNCHANGED stored,
           NodeInv(n, cs[n], index[n], subround[n], working[n])',
           Grows(n), SharedInv',
           SignOncePerRound', CommittedHasQuorum', SignedIsOfTheRound'
    PROVE  IInv'
<1>1. /\ cs'[n] = c /\ index'[n] = i /\ subround'[n] = sr /\ working'[n] = w
      /\ \A m \in Validators : m # n =>
            /\ cs'[m] = cs[m] /\ index'[m] = index[m]
            /\ subround'[m] = subround[m] /\ working'[m] = working[m]
  BY Zenon DEF IInv, TypeOK
<1>2. /\ Proposals \subseteq Proposals' /\ Messages \subseteq Messages'
      /\ ConsensusStates \subseteq ConsensusStates'
  BY GrowingTypes, Zenon
<1>3. TypeOK'
  <2>1. /\ index' \in [Validators -> Rounds]
        /\ subround' \in [Validators -> Subrounds]
        /\ working' \in [Validators -> BOOLEAN]
    BY <1>1, Zenon DEF NodeInv, IInv, TypeOK
  <2>2. cs' \in [Validators -> ConsensusStates']
    <3>1. cs \in [Validators -> ConsensusStates']
      BY <1>2 DEF IInv, TypeOK
    <3>2. c \in ConsensusStates'
      BY <1>1 DEF NodeInv
    <3> QED BY <3>1, <3>2
  <2>3. stored' \in [Validators -> SUBSET Messages']
    BY <1>2 DEF IInv, TypeOK
  <2> QED BY ZenonT(30), <2>1, <2>2, <2>3 DEF TypeOK, SharedInv
<1>4. RoundPhase'
  <2> SUFFICES ASSUME NEW m \in Validators
               PROVE  /\ cs'[m].roundIndex <= index'[m]
                      /\ Fresh(m)' => cs'[m].roundIndex = index'[m]
                      /\ Fresh(m)' /\ subround'[m] # SrEndRound =>
                            \A f \in cs'[m].finished : f < subround'[m]
                      /\ subround'[m] = SrStartRound /\ ~working'[m] =>
                            cs'[m].roundIndex < index'[m]
                      /\ subround'[m] = SrEndRound =>
                            SignaturesCollected(cs'[m])
    BY Zenon DEF RoundPhase, SignaturesCollected, SignatureDone, Members
  <2>1. CASE m = n
    BY ZenonT(30), <2>1 DEF NodeInv, Fresh, SignaturesCollected, SignatureDone, Members
  <2>2. CASE m # n
    BY <1>1, <2>2 DEF IInv, RoundPhase, Fresh
  <2> QED BY SMTT(30), <2>1, <2>2
<1>5. SignedPhase'
  <2> SUFFICES ASSUME NEW s \in signed'
               PROVE  /\ s.round <= cs'[s.who].roundIndex
                      /\ s.round = cs'[s.who].roundIndex /\ Fresh(s.who)' =>
                            \/ subround'[s.who] = SrSignature /\ working'[s.who]
                            \/ subround'[s.who] = SrEndRound
    BY DEF SignedPhase
  <2>1. CASE s.who = n
    BY SMTT(30), <2>1 DEF NodeInv, Fresh
  <2>2. CASE s.who # n
    <3>1. s \in signed /\ s.who \in Validators
      BY <2>2 DEF Grows, SharedInv
    <3> QED BY <1>1, <2>2, <3>1 DEF IInv, SignedPhase, Fresh
  <2> QED BY <2>1, <2>2
<1>6. MessagesAndShares'
  <2>1. \A m \in Validators : stored'[m] \subseteq msgs'
    BY Zenon DEF IInv, MessagesAndShares, Grows
  <2> SUFFICES ASSUME NEW m \in Validators
               PROVE  /\ cs'[m].data # NoHash =>
                            proposals'[cs'[m].data].round = cs'[m].roundIndex
                      /\ \A s \in cs'[m].shares :
                            [who |-> s.who, round |-> cs'[m].roundIndex,
                             hash |-> s.hash] \in signed'
    BY ZenonT(30), <2>1 DEF MessagesAndShares, SharedInv
  <2>2. CASE m = n
    BY <2>2, Zenon DEF NodeInv
  <2>3. CASE m # n
    <3>1. cs'[m] = cs[m] /\ cs[m] \in ConsensusStates
      BY <1>1, <2>3, Zenon DEF IInv, TypeOK
    <3>2. cs[m].data # NoHash => cs[m].data \in Proposals
      BY SMTT(30), <3>1 DEF ConsensusStates, OptionalHashes
    <3> QED BY ZenonT(30), <3>1, <3>2 DEF IInv, MessagesAndShares, Grows
  <2> QED BY SMTT(30), <2>2, <2>3
<1> QED BY <1>3, <1>4, <1>5, <1>6 DEF IInv

LEMMA SharedInvOfIInv == IInv => SharedInv
BY Zenon DEF IInv, TypeOK, MessagesAndShares, SharedInv

\* The number of headers is a natural number.
LEMMA LenProposals == IInv => Len(proposals) \in Nat
<1> SUFFICES ASSUME IInv PROVE Len(proposals) \in Nat
  BY SMTT(30)
<1>1. proposals \in Seq([leader : Validators, round : Rounds, prev : Nat,
                         nonce : Nat])
  BY SMTT(30) DEF IInv, TypeOK
<1> QED BY <1>1

LEMMA UpdateRoundStep ==
    ASSUME IInv, NEW n \in Validators, UpdateRound(n)
    PROVE  IInv'
<1>1. PICK i \in index[n] + 1 .. MaxRound : index' = [index EXCEPT ![n] = i]
  BY ZenonT(30) DEF UpdateRound
<1>2. NodeInv(n, cs[n], index[n], subround[n], working[n])
  BY NodeInvOfIInv, Zenon
<1>3. /\ i \in Rounds /\ index[n] < i /\ cs[n].roundIndex < i
      /\ cs[n].roundIndex \in Int /\ i \in Int
  BY <1>1, <1>2, BoundsAssumption DEF NodeInv, Rounds, ConsensusStates
<1>4. /\ cs' = [cs EXCEPT ![n] = cs[n]] /\ cs'[n] = cs[n] /\ index'[n] = i
      /\ subround' = [subround EXCEPT ![n] = SrStartRound]
      /\ subround'[n] = SrStartRound
      /\ working' = [working EXCEPT ![n] = FALSE] /\ working'[n] = FALSE
      /\ UNCHANGED <<head, stored, proposals, msgs, committed, signed>>
  BY SMTT(30), <1>1 DEF UpdateRound, IInv, TypeOK
<1>5. NodeInv(n, cs[n], index[n], subround[n], working[n])'
  <2>1. /\ ConsensusStates' = ConsensusStates /\ SrStartRound \in Subrounds
        /\ SrStartRound # srBeforeStartRound /\ SrStartRound # SrEndRound
    BY <1>4
    DEF ConsensusStates, OptionalHashes, Proposals, Subrounds, SrStartRound,
        SrEndRound, srBeforeStartRound
  <2>2. cs[n].roundIndex <= i
    BY <1>3
  <2>3. /\ cs[n] \in ConsensusStates
        /\ cs[n].data # NoHash => proposals[cs[n].data].round = cs[n].roundIndex
        /\ \A s \in cs[n].shares :
              [who |-> s.who, round |-> cs[n].roundIndex, hash |-> s.hash]
                 \in signed
        /\ \A s \in signed : s.who = n => s.round <= cs[n].roundIndex
    BY ZenonT(30), <1>2 DEF NodeInv
  <2>4. NodeInv(n, cs[n], i, SrStartRound, FALSE)
    BY Zenon, <1>3, <2>1, <2>2, <2>3 DEF NodeInv
  <2> DEFINE w == FALSE
             sr == SrStartRound
  <2>5. /\ NodeInv(n, cs[n], i, sr, w) /\ working'[n] = w /\ subround'[n] = sr
        /\ sr # SrEndRound /\ cs'[n] = cs[n] /\ index'[n] = i
        /\ proposals' = proposals /\ signed' = signed
    BY ZenonT(30), <1>4, <2>1, <2>4
  <2> HIDE DEF w, sr
  <2> QED BY <2>1, <2>5, Zenon DEF NodeInv
<1>6. SharedInv' /\ Grows(n)
  <2>1. Proposals' = Proposals /\ Hashes' = Hashes /\ Messages' = Messages
    BY <1>4, Zenon DEF Proposals, Hashes, Messages
  <2>2. SharedInv'
    BY <1>4, <2>1, SharedInvOfIInv, Zenon DEF SharedInv
  <2>3. Grows(n)
    BY <1>4, LenProposals DEF Grows
  <2> QED BY <2>2, <2>3, Zenon
<1>7. SignOncePerRound' /\ CommittedHasQuorum' /\ SignedIsOfTheRound'
  BY <1>4, Zenon DEF IInv, SignOncePerRound, CommittedHasQuorum, SignedIsOfTheRound
<1> QED BY ZenonT(30), <1>1, <1>4, <1>5, <1>6, <1>7, SharedStep

\* The bootstrapper moves the head of one validator along the chain
LEMMA BootstrapStep ==
    ASSUME IInv, NEW n \in Validators, SyncBlock(n) \/ RollBackOneBlock(n)
    PROVE  IInv'
<1>1. /\ cs' = [cs EXCEPT ![n] = cs[n]]
      /\ index' = [index EXCEPT ![n] = index[n]]
      /\ subround' = [subround EXCEPT ![n] = subround[n]]
      /\ working' = [working EXCEPT ![n] = working[n]]
      /\ UNCHANGED <<index, subround, working, cs, stored, proposals, msgs,
                     committed, signed>>
  BY DEF SyncBlock, RollBackOneBlock, IInv, TypeOK
<1>2. PICK h \in Hashes : head' = [head EXCEPT ![n] = h]
  <2>1. CASE SyncBlock(n)
    BY ZenonT(30), <2>1 DEF SyncBlock, IInv, TypeOK, Hashes
  <2>2. CASE RollBackOneBlock(n)
    <3> DEFINE p == proposals[head[n]].prev
    <3>1. head[n] \in Proposals /\ p \in 0 .. head[n] - 1
      BY <2>2, Zenon DEF RollBackOneBlock, IInv, TypeOK, Hashes
    <3>2. p \in Hashes
      BY <3>1, LenProposals DEF Hashes, Proposals, GenesisHash
    <3> QED BY ZenonT(30), <2>2, <3>2 DEF RollBackOneBlock
  <2> QED BY SMTT(30), <2>1, <2>2
<1>3. NodeInv(n, cs[n], index[n], subround[n], working[n])'
  <2>1. NodeInv(n, cs[n], index[n], subround[n], working[n])
    BY NodeInvOfIInv, Zenon
  <2>2. ConsensusStates' = ConsensusStates
    BY <1>1, Zenon DEF ConsensusStates, OptionalHashes, Proposals
  <2> QED BY SMTT(30), <1>1, <2>1, <2>2
    DEF NodeInv, SignaturesCollected, SignatureDone, Members
<1>4. SharedInv' /\ Grows(n)
  <2>1. Proposals' = Proposals /\ Hashes' = Hashes /\ Messages' = Messages
    BY <1>1 DEF Proposals, Hashes, Messages
  <2>2. head' \in [Validators -> Hashes]
    BY <1>2 DEF IInv, TypeOK
  <2>3. SharedInv'
    BY <1>1, <2>1, <2>2, SharedInvOfIInv DEF SharedInv
  <2>4. Grows(n)
    BY <1>1, LenProposals DEF Grows
  <2> QED BY <2>3, <2>4, Zenon
<1>5. SignOncePerRound' /\ CommittedHasQuorum' /\ SignedIsOfTheRound'
  BY SMTT(30), <1>1
  DEF IInv, SignOncePerRound, CommittedHasQuorum, SignedIsOfTheRound
<1> QED BY <1>1, <1>3, <1>4, <1>5, SharedStep

LEMMA CommitBlockStep ==
    ASSUME IInv, NEW n \in Validators, CommitBlock(n)
    PROVE  IInv'
<1> DEFINE c == [cs[n] EXCEPT !.finished = @ \cup {SrEndRound}]
           b == [hash |-> cs[n].data, round |-> index[n],
                 signers |-> Bitmap(cs[n]), group |-> Members(cs[n])]
<1>1. /\ NodeInv(n, cs[n], index[n], SrEndRound, FALSE)
      /\ cs[n].roundIndex = index[n] /\ cs[n] \in ConsensusStates
      /\ SignaturesCollected(cs[n])
  <2>1. subround[n] = SrEndRound /\ working[n] = FALSE
    <3>1. subround[n] = SrEndRound /\ ~working[n] /\ working[n] \in BOOLEAN
      BY Zenon DEF CommitBlock, IInv, TypeOK
    <3> QED BY <3>1, Zenon
  <2>2. NodeInv(n, cs[n], index[n], SrEndRound, FALSE)
    BY <2>1, NodeInvOfIInv, Zenon
  <2>3. SrEndRound # srBeforeStartRound /\ SrEndRound # SrStartRound
    BY DEF SrEndRound, SrStartRound, srBeforeStartRound
  <2> QED BY <2>2, <2>3, Zenon DEF NodeInv
<1>2. /\ Bitmap(cs[n]) \subseteq Members(cs[n])
      /\ Members(cs[n]) \subseteq Validators
      /\ Cardinality(Bitmap(cs[n])) >= ThresholdSignature
  <2>1. Bitmap(cs[n]) \subseteq Members(cs[n])
    BY Zenon DEF Bitmap
  <2>2. cs[n].group \in Seq(Validators)
    BY <1>1, Zenon DEF ConsensusStates
  <2>3. Members(cs[n]) \subseteq Validators
    BY <2>2 DEF Members
  <2>4. Cardinality(Bitmap(cs[n])) >= ThresholdSignature
    BY <1>1, Zenon DEF Bitmap, SignaturesCollected
  <2> QED BY <2>1, <2>3, <2>4, Zenon
<1>3. \A v \in Bitmap(cs[n]) :
         [who |-> v, round |-> index[n], hash |-> cs[n].data] \in signed
  BY <1>1, Zenon DEF NodeInv, Bitmap, SignatureDone, CommitBlock,
              CheckSignaturesValidity
<1>4. ThresholdSignature >= 1
  BY SMTT(30), BoundsAssumption DEF ThresholdSignature
<1>5. cs[n].data \in Proposals
  <2>1. Bitmap(cs[n]) # {}
    BY <1>2, <1>4, FS_EmptySet, ThresholdType
  <2> QED BY <1>3, <2>1, Zenon DEF IInv, TypeOK
<1>6. PICK sr, w : /\ subround' = [subround EXCEPT ![n] = sr]
                   /\ working' = [working EXCEPT ![n] = w]
                   /\ w \in BOOLEAN
                   /\ \/ sr = srBeforeStartRound
                      \/ sr = SrEndRound
  <2>1. subround = [subround EXCEPT ![n] = SrEndRound]
    BY Zenon DEF CommitBlock, IInv, TypeOK
  <2> QED BY ZenonT(30), <2>1 DEF CommitBlock, AfterCheck
<1>7. /\ cs' = [cs EXCEPT ![n] = c] /\ index' = [index EXCEPT ![n] = index[n]]
      /\ head' = [head EXCEPT ![n] = cs[n].data]
      /\ committed' = committed \cup {b}
      /\ UNCHANGED <<index, stored, proposals, msgs, signed>>
  BY Zenon DEF CommitBlock, AfterCheck, IInv, TypeOK
<1>8. NodeInv(n, cs[n], index[n], subround[n], working[n])'
  <2>1. /\ c \in ConsensusStates /\ c.roundIndex = cs[n].roundIndex
        /\ c.data = cs[n].data /\ c.shares = cs[n].shares
        /\ c.group = cs[n].group
    <3>1. SrEndRound \in SrStartRound .. SrEndRound
      BY DEF SrStartRound, SrEndRound
    <3> QED BY <1>1, <3>1, FinishedFields, Zenon
  <2>2. /\ cs'[n] = c /\ index'[n] = index[n] /\ subround'[n] = sr
        /\ working'[n] = w
    BY <1>6, <1>7, Zenon DEF IInv, TypeOK
  <2>3. ConsensusStates' = ConsensusStates
    BY <1>7, Zenon DEF ConsensusStates, OptionalHashes, Proposals
  <2>4. SignaturesCollected(c)
    BY <1>1, <2>1, Zenon DEF SignaturesCollected, SignatureDone, Members
  <2>5. /\ sr \in Subrounds /\ sr # SrStartRound
        /\ sr = SrEndRound \/ sr = srBeforeStartRound
    BY <1>6 DEF SrStartRound, SrEndRound, srBeforeStartRound, Subrounds
  <2>6. /\ c.roundIndex <= index[n]
        /\ index[n] \in Rounds
        /\ c.data # NoHash => proposals[c.data].round = c.roundIndex
        /\ \A s \in c.shares :
              [who |-> s.who, round |-> c.roundIndex, hash |-> s.hash] \in signed
        /\ \A s \in signed : s.who = n => s.round <= c.roundIndex
    BY SMTT(30), <1>1, <2>1 DEF NodeInv
  <2> HIDE DEF c
  <2>7. SignaturesCollected(cs[n])'
    BY <2>2, <2>4, Zenon DEF SignaturesCollected, SignatureDone, Members
  <2> QED
    BY <1>1, <1>6, <1>7, <2>1, <2>2, <2>3, <2>5, <2>6, <2>7 DEF NodeInv
<1>9. SharedInv' /\ Grows(n)
  <2>1. b \in [hash : Proposals, round : Rounds,
              signers : SUBSET Validators, group : SUBSET Validators]
    BY ZenonT(30), <1>2, <1>5 DEF IInv, TypeOK
  <2>2. head' \in [Validators -> Hashes]
    BY <1>5, <1>7 DEF IInv, TypeOK, Hashes
  <2> HIDE DEF b
  <2>3. committed' \subseteq [hash : Proposals, round : Rounds,
              signers : SUBSET Validators, group : SUBSET Validators]
    BY <1>7, <2>1, Zenon DEF IInv, TypeOK
  <2>4. Proposals' = Proposals /\ Hashes' = Hashes /\ Messages' = Messages
    BY <1>7, Zenon DEF Proposals, Hashes, Messages
  <2>5. SharedInv'
    BY <1>7, <2>2, <2>3, <2>4, SharedInvOfIInv DEF SharedInv
  <2>6. Grows(n)
    BY <1>7 DEF Grows, IInv, TypeOK
  <2> QED BY <2>5, <2>6, Zenon
<1>10. CommittedHasQuorum'
  BY <1>2, <1>3, <1>7 DEF IInv, CommittedHasQuorum
<1>11. SignOncePerRound' /\ SignedIsOfTheRound'
  BY <1>7, Zenon DEF IInv, SignOncePerRound, SignedIsOfTheRound
<1> HIDE DEF c
<1> QED BY <1>6, <1>7, <1>8, <1>9, <1>10, <1>11, SharedStep, Zenon

\* The state a validator that signs is left in
LEMMA SignResult ==
    ASSUME IInv, NEW n \in Validators, Sign(n)
    PROVE  \E c, sr, w :
              /\ c \in ConsensusStates
              /\ cs' = [cs EXCEPT ![n] = c]
              /\ subround' = [subround EXCEPT ![n] = sr]
              /\ working' = [working EXCEPT ![n] = w]
              /\ c.roundIndex = cs[n].roundIndex /\ c.data = cs[n].data
              /\ c.shares = cs[n].shares \cup {[who |-> n, hash |-> c.data]}
              /\ \/ /\ sr = SrSignature /\ w = TRUE
                    /\ \A f \in c.finished : f < SrSignature
                 \/ sr = SrEndRound /\ w = FALSE /\ SignaturesCollected(c)
<1> USE DEF SrStartRound, SrBlock, SrSignature, SrEndRound, srBeforeStartRound
<1> DEFINE share == [who |-> n, hash |-> cs[n].data]
           e == [cs[n] EXCEPT !.canceled = @ \/ ~IsLeader(cs[n], n),
                              !.shares = @ \cup {share}]
           c == CheckSignature(e)
<1>1. /\ cs[n] \in ConsensusStates /\ cs[n].data \in Proposals
      /\ \A f \in cs[n].finished : f < SrSignature
  BY NodeInvOfIInv
  DEF Sign, CanSign, NodeInv, ConsensusStates, OptionalHashes
<1>2. /\ e \in ConsensusStates /\ e.roundIndex = cs[n].roundIndex
      /\ e.data = cs[n].data /\ e.shares = cs[n].shares \cup {share}
      /\ e.finished = cs[n].finished
  <2> DEFINE x == cs[n].canceled \/ ~IsLeader(cs[n], n)
  <2>1. x \in BOOLEAN
    BY Zenon
  <2>2. e = [cs[n] EXCEPT !.canceled = x, !.shares = @ \cup {share}]
    BY Zenon
  <2>3. share \in [who : Validators, hash : Proposals]
    BY SMTT(30), <1>1
  <2> HIDE DEF x, e, share
  <2>4. cs[n].shares \cup {share} \in SUBSET [who : Validators, hash : Proposals]
    BY <1>1, <2>3, Zenon DEF ConsensusStates
  <2>5. /\ e.roundIndex = cs[n].roundIndex /\ e.data = cs[n].data
        /\ e.shares = cs[n].shares \cup {share} /\ e.finished = cs[n].finished
    BY <1>1, <2>2, Zenon DEF ConsensusStates
  <2>6. e \in ConsensusStates
    BY <1>1, <2>1, <2>2, <2>4, Zenon DEF ConsensusStates
  <2> QED BY <2>5, <2>6, Zenon
<1>3. AfterCheck(n, SrSignature, c)
  BY Zenon DEF Sign
<1>4. subround = [subround EXCEPT ![n] = SrSignature]
  BY Zenon DEF Sign, IInv, TypeOK
<1> HIDE DEF e
<1>5. CASE ~e.canceled /\ SignaturesCollected(e)
  <2>1. c = [e EXCEPT !.finished = @ \cup {SrSignature}]
    BY <1>5, Zenon DEF CheckSignature
  <2>2. /\ c.finished = e.finished \cup {SrSignature} /\ c.canceled = e.canceled
        /\ c.roundIndex = e.roundIndex /\ c.data = e.data
        /\ c.shares = e.shares /\ c.group = e.group
    BY <1>2, <2>1, Zenon DEF ConsensusStates
  <2>3. c \in ConsensusStates
    BY <1>2, <2>1, <2>2 DEF ConsensusStates
  <2>4. SignaturesCollected(c)
    BY <1>5, <2>2, Zenon DEF SignaturesCollected, SignatureDone, Members
  <2> HIDE DEF c
  <2>5. /\ cs' = [cs EXCEPT ![n] = c]
        /\ subround' = [subround EXCEPT ![n] = SrEndRound]
        /\ working' = [working EXCEPT ![n] = FALSE]
    BY SMTT(30), <1>3, <1>5, <2>2 DEF AfterCheck
  <2> QED BY ZenonT(30), <1>2, <2>2, <2>3, <2>4, <2>5
<1>6. CASE ~(~e.canceled /\ SignaturesCollected(e))
  <2>1. c = e
    BY <1>6, Zenon DEF CheckSignature
  <2>2. SrSignature \notin e.finished
    BY <1>1, <1>2
  <2>3. /\ cs' = [cs EXCEPT ![n] = e]
        /\ subround' = [subround EXCEPT ![n] = SrSignature]
        /\ working' = [working EXCEPT ![n] = TRUE]
    BY <1>3, <1>4, <2>1, <2>2 DEF AfterCheck
  <2> QED BY ZenonT(30), <1>1, <1>2, <2>3
<1> QED BY ZenonT(30), <1>5, <1>6

LEMMA SignStep ==
    ASSUME IInv, NEW n \in Validators, Sign(n)
    PROVE  IInv'
<1> USE DEF SrStartRound, SrBlock, SrSignature, SrEndRound, srBeforeStartRound
<1> DEFINE new == [who |-> n, round |-> index[n], hash |-> cs[n].data]
<1>1. PICK c, sr, w :
         /\ c \in ConsensusStates
         /\ cs' = [cs EXCEPT ![n] = c]
         /\ subround' = [subround EXCEPT ![n] = sr]
         /\ working' = [working EXCEPT ![n] = w]
         /\ c.roundIndex = cs[n].roundIndex /\ c.data = cs[n].data
         /\ c.shares = cs[n].shares \cup {[who |-> n, hash |-> c.data]}
         /\ \/ /\ sr = SrSignature /\ w = TRUE
               /\ \A f \in c.finished : f < SrSignature
            \/ sr = SrEndRound /\ w = FALSE /\ SignaturesCollected(c)
  BY ZenonT(30), SignResult
<1>2. NodeInv(n, cs[n], index[n], SrSignature, FALSE)
  BY ZenonT(30), NodeInvOfIInv DEF Sign, IInv, TypeOK
<1>3. /\ cs[n].roundIndex = index[n] /\ index[n] \in Rounds /\ index[n] \in Int
      /\ cs[n].data \in Proposals /\ proposals[cs[n].data].round = index[n]
      /\ \A s \in signed : s.who = n => s.round <= index[n] /\ s.round # index[n]
  BY <1>2 DEF NodeInv, Sign, CanSign, ConsensusStates, OptionalHashes, Rounds
<1>4. /\ signed' = signed \cup {new}
      /\ \A m \in msgs' : m \notin msgs =>
            m = [type |-> MtSignature, from |-> n, round |-> index[n],
                 hash |-> cs[n].data]
      /\ msgs \subseteq msgs'
      /\ index' = [index EXCEPT ![n] = index[n]]
      /\ UNCHANGED <<index, head, stored, proposals, committed>>
  BY Zenon DEF Sign, IInv, TypeOK
<1>5. Proposals' = Proposals /\ Hashes' = Hashes /\ Messages' = Messages
      /\ ConsensusStates' = ConsensusStates
  BY SMTT(30), <1>4 DEF Proposals, Hashes, Messages, ConsensusStates, OptionalHashes
<1>6. Grows(n)
  <2>1. \A s \in signed' : s \notin signed => s.who = n
    BY <1>4
  <2> QED BY <1>4, <2>1, LenProposals DEF Grows
<1>7. SharedInv'
  <2>1. new \in [who : Validators, round : Rounds, hash : Proposals]
    BY <1>3
  <2>2. msgs' \subseteq Messages
    <3>1. [type |-> MtSignature, from |-> n, round |-> index[n],
           hash |-> cs[n].data] \in Messages
      BY <1>3 DEF Messages
    <3>2. msgs \subseteq Messages
      BY SMTT(30), SharedInvOfIInv DEF SharedInv
    <3> QED BY <1>4, <3>1, <3>2
  <2>3. \A m \in msgs' :
          /\ proposals[m.hash].round = m.round
          /\ m.type = MtSignature =>
                [who |-> m.from, round |-> m.round, hash |-> m.hash] \in signed'
    <3> SUFFICES ASSUME NEW m \in msgs'
                 PROVE  /\ proposals[m.hash].round = m.round
                        /\ m.type = MtSignature =>
                              [who |-> m.from, round |-> m.round,
                               hash |-> m.hash] \in signed'
      BY ZenonT(30)
    <3>1. CASE m \in msgs
      BY <1>4, <3>1 DEF IInv, MessagesAndShares
    <3>2. CASE m \notin msgs
      BY <1>3, <1>4, <3>2
    <3> QED BY <3>1, <3>2, Zenon
  <2> HIDE DEF new
  <2>4. signed' \subseteq [who : Validators, round : Rounds, hash : Proposals]
    BY <1>4, <2>1, Zenon DEF IInv, TypeOK
  <2> QED
    BY <1>4, <1>5, <2>2, <2>3, <2>4, SharedInvOfIInv DEF SharedInv
<1>8. NodeInv(n, cs[n], index[n], subround[n], working[n])'
  <2>1. /\ cs'[n] = c /\ index'[n] = index[n] /\ subround'[n] = sr
        /\ working'[n] = w /\ proposals' = proposals
        /\ ConsensusStates' = ConsensusStates
    BY ZenonT(30), <1>1, <1>4, <1>5 DEF IInv, TypeOK
  <2>2. /\ sr \in Subrounds /\ w \in BOOLEAN
        /\ sr # SrStartRound /\ sr # srBeforeStartRound
        /\ sr # SrEndRound => \A f \in c.finished : f < sr
        /\ (sr = SrSignature /\ w) \/ sr = SrEndRound
    <3>1. CASE sr = SrSignature /\ w = TRUE
      BY SMTT(30), <1>1, <3>1 DEF Subrounds
    <3>2. CASE sr = SrEndRound /\ w = FALSE
      <4>1. sr \in Subrounds /\ sr # SrStartRound /\ sr # srBeforeStartRound
        BY <3>2 DEF Subrounds
      <4> QED BY ZenonT(30), <3>2, <4>1
    <3> QED BY ZenonT(30), <1>1, <3>1, <3>2
  <2>3. sr = SrEndRound => SignaturesCollected(c)
    BY <1>1
  <2>4. /\ c.roundIndex = index[n] /\ index[n] \in Rounds
        /\ c.roundIndex <= index[n]
        /\ c.data # NoHash => proposals[c.data].round = c.roundIndex
    BY <1>1, <1>3
  <2>5. \A s \in c.shares :
           [who |-> s.who, round |-> c.roundIndex, hash |-> s.hash] \in signed'
    BY <1>1, <1>2, <1>3, <1>4 DEF NodeInv
  <2>6. \A s \in signed' : s.who = n => s.round <= c.roundIndex
    BY <1>1, <1>3, <1>4
  <2>7. sr = SrEndRound => SignaturesCollected(cs[n])'
    BY <2>1, <2>3, Zenon DEF SignaturesCollected, SignatureDone, Members
  <2>8. \A s \in signed' : s.who = n =>
           /\ s.round <= c.roundIndex
           /\ s.round = c.roundIndex =>
                 (sr = SrSignature /\ w) \/ sr = SrEndRound
    BY <2>2, <2>6, Zenon
  <2>9. \A s \in cs'[n].shares :
           [who |-> s.who, round |-> cs'[n].roundIndex, hash |-> s.hash]
              \in signed'
    BY ZenonT(30), <2>1, <2>5
  <2>10. \A s \in signed' : s.who = n =>
            /\ s.round <= cs'[n].roundIndex
            /\ s.round = cs'[n].roundIndex =>
                  \/ subround'[n] = SrSignature /\ working'[n]
                  \/ subround'[n] = SrEndRound
    BY <2>1, <2>8
  <2>11. /\ cs'[n] \in ConsensusStates' /\ index'[n] \in Rounds
         /\ subround'[n] \in Subrounds /\ working'[n] \in BOOLEAN
         /\ cs'[n].roundIndex = index'[n] /\ cs'[n].roundIndex <= index'[n]
         /\ subround'[n] # SrStartRound
         /\ subround'[n] # SrEndRound =>
               \A f \in cs'[n].finished : f < subround'[n]
         /\ cs'[n].data # NoHash =>
               proposals'[cs'[n].data].round = cs'[n].roundIndex
    BY <1>1, <2>1, <2>2, <2>4
  <2>12. subround'[n] = SrEndRound => SignaturesCollected(cs[n])'
    BY <2>1, <2>7
  <2> HIDE DEF SrStartRound, SrBlock, SrSignature, SrEndRound, srBeforeStartRound
  <2> QED BY ZenonT(30), <2>9, <2>10, <2>11, <2>12 DEF NodeInv
<1>9. SignOncePerRound'
  BY <1>3, <1>4 DEF IInv, SignOncePerRound
<1>10. CommittedHasQuorum' /\ SignedIsOfTheRound'
  BY <1>3, <1>4 DEF IInv, CommittedHasQuorum, SignedIsOfTheRound
<1> QED BY <1>1, <1>4, <1>6, <1>7, <1>8, <1>9, <1>10, SharedStep, Zenon

\* The state a leader that created a block is left in: the data stays or becomes
\* the new header
LEMMA ProposeResult ==
    ASSUME IInv, NEW n \in Validators, ProposeBlock(n)
    PROVE  \E c, sr, w :
              /\ cs' = [cs EXCEPT ![n] = c]
              /\ subround' = [subround EXCEPT ![n] = sr]
              /\ working' = [working EXCEPT ![n] = w]
              /\ c \in ConsensusStates'
              /\ c.roundIndex = cs[n].roundIndex /\ c.shares = cs[n].shares
              /\ c.data \in {cs[n].data, Len(proposals) + 1}
              /\ \A f \in c.finished : f < sr
              /\ sr \in {SrBlock, SrSignature} /\ w \in BOOLEAN
              /\ sr = SrSignature => ~w
<1> USE DEF SrStartRound, SrBlock, SrSignature, SrEndRound, srBeforeStartRound
<1> DEFINE h == Len(proposals) + 1
<1>1. /\ cs[n] \in ConsensusStates /\ Len(proposals) \in Nat
      /\ \A f \in cs[n].finished : f < SrBlock
  <2>1. Len(proposals) \in Nat
    BY DEF IInv, TypeOK
  <2>2. NodeInv(n, cs[n], index[n], SrBlock, FALSE)
    BY NodeInvOfIInv, Zenon DEF ProposeBlock, IInv, TypeOK
  <2> QED BY <2>1, <2>2 DEF NodeInv
<1>2. Proposals' = Proposals \cup {h}
  <2>1. Len(proposals') = h
    BY DEF ProposeBlock, IInv, TypeOK
  <2> QED BY <1>1, <2>1 DEF Proposals
<1> HIDE DEF h
<1>3. PICK e \in {[cs[n] EXCEPT !.data = h, !.body = h, !.blockDone = @ \cup {n}],
                 [cs[n] EXCEPT !.body = h]} :
         AfterCheck(n, SrBlock, CheckBlock(e))
  BY Zenon DEF ProposeBlock, h
<1>4. cs[n] \in ConsensusStates' /\ h \in OptionalHashes'
  <2>1. /\ OptionalHashes \subseteq OptionalHashes' /\ h \in OptionalHashes'
        /\ [who : Validators, hash : Proposals]
              \subseteq [who : Validators, hash : Proposals']
    BY <1>2, Zenon DEF OptionalHashes
  <2>2. SUBSET [who : Validators, hash : Proposals]
           \subseteq SUBSET [who : Validators, hash : Proposals']
    BY <2>1, Zenon
  <2> QED BY <1>1, <2>1, <2>2, Zenon DEF ConsensusStates
<1>5. /\ e \in ConsensusStates' /\ e.roundIndex = cs[n].roundIndex
      /\ e.shares = cs[n].shares /\ e.data \in {cs[n].data, h}
      /\ e.finished = cs[n].finished
  <2>1. CASE e = [cs[n] EXCEPT !.data = h, !.body = h,
                               !.blockDone = @ \cup {n}]
    <3>1. /\ e.roundIndex = cs[n].roundIndex /\ e.shares = cs[n].shares
          /\ e.data = h /\ e.finished = cs[n].finished
      BY <1>4, <2>1, Zenon DEF ConsensusStates
    <3>2. e \in ConsensusStates'
      BY ZenonT(30), <1>4, <2>1 DEF ConsensusStates
    <3> QED BY <3>1, <3>2, Zenon
  <2>2. CASE e = [cs[n] EXCEPT !.body = h]
    BY <1>4, <2>2 DEF ConsensusStates
  <2> QED BY <1>3, <2>1, <2>2, Zenon
<1>6. subround = [subround EXCEPT ![n] = SrBlock]
  BY Zenon DEF ProposeBlock, IInv, TypeOK
<1> DEFINE c == CheckBlock(e)
<1>7. CASE ~e.canceled /\ c = [e EXCEPT !.finished = @ \cup {SrBlock}]
  <2>1. /\ c.finished = e.finished \cup {SrBlock} /\ c.canceled = e.canceled
        /\ c.roundIndex = e.roundIndex /\ c.data = e.data
        /\ c.shares = e.shares
    BY <1>5, <1>7, Zenon DEF ConsensusStates
  <2>2. c \in ConsensusStates'
    BY <1>5, <1>7, <2>1 DEF ConsensusStates
  <2>3. \A f \in c.finished : f < SrSignature
    <3>1. cs[n].finished \subseteq Int
      BY <1>1 DEF ConsensusStates
    <3> QED BY <1>1, <1>5, <2>1, <3>1
  <2> HIDE DEF c
  <2>4. /\ cs' = [cs EXCEPT ![n] = c]
        /\ subround' = [subround EXCEPT ![n] = SrSignature]
        /\ working' = [working EXCEPT ![n] = FALSE]
    BY <1>3, <1>7, <2>1 DEF AfterCheck, c
  <2> QED BY ZenonT(30), <1>5, <2>1, <2>2, <2>3, <2>4 DEF h
<1>8. CASE c = e
  <2>1. SrBlock \notin e.finished
    BY <1>1, <1>5
  <2>2. /\ cs' = [cs EXCEPT ![n] = e]
        /\ subround' = [subround EXCEPT ![n] = SrBlock]
        /\ working' = [working EXCEPT ![n] = TRUE]
    BY <1>3, <1>6, <1>8, <2>1, Zenon DEF AfterCheck
  <2>3. \A f \in e.finished : f < SrBlock
    BY <1>1, <1>5, Zenon
  <2>4. e.data \in {cs[n].data, Len(proposals) + 1}
    BY <1>5, Zenon DEF h
  <2> DEFINE sr == SrBlock
             w == TRUE
  <2>5. /\ subround' = [subround EXCEPT ![n] = sr] /\ sr = SrBlock
        /\ working' = [working EXCEPT ![n] = w] /\ w \in BOOLEAN
        /\ sr # SrSignature /\ \A f \in e.finished : f < sr
    BY <2>2, <2>3
  <2> HIDE DEF sr, w
  <2> QED BY ZenonT(30), <1>5, <2>2, <2>4, <2>5
<1> QED BY ZenonT(30), <1>7, <1>8 DEF CheckBlock

LEMMA ProposeStep ==
    ASSUME IInv, NEW n \in Validators, ProposeBlock(n)
    PROVE  IInv'
<1> USE DEF SrStartRound, SrBlock, SrSignature, SrEndRound, srBeforeStartRound
<1> DEFINE h == Len(proposals) + 1
           hdr == [leader |-> n, round |-> index[n], prev |-> head[n],
                   nonce |-> HeaderNonce(head[n]) + 1]
           Hdrs == [leader : Validators, round : Rounds, prev : Nat, nonce : Nat]
<1>1. PICK c, sr, w :
         /\ cs' = [cs EXCEPT ![n] = c]
         /\ subround' = [subround EXCEPT ![n] = sr]
         /\ working' = [working EXCEPT ![n] = w]
         /\ c \in ConsensusStates'
         /\ c.roundIndex = cs[n].roundIndex /\ c.shares = cs[n].shares
         /\ c.data \in {cs[n].data, h}
         /\ \A f \in c.finished : f < sr
         /\ sr \in {SrBlock, SrSignature} /\ w \in BOOLEAN
         /\ sr = SrSignature => ~w
  BY Zenon, ProposeResult
<1>2. NodeInv(n, cs[n], index[n], SrBlock, FALSE)
  BY ZenonT(30), NodeInvOfIInv DEF ProposeBlock, IInv, TypeOK
<1>3. /\ cs[n].roundIndex = index[n] /\ index[n] \in Rounds /\ index[n] \in Int
      /\ \A s \in signed : s.who = n => s.round <= index[n] /\ s.round # index[n]
  BY <1>2 DEF NodeInv, ConsensusStates, Rounds
<1>4. head[n] \in 0 .. Len(proposals) /\ Len(proposals) \in Nat
  BY DEF IInv, TypeOK, Hashes, Proposals, GenesisHash
<1>5. hdr \in Hdrs
  <2>1. HeaderNonce(head[n]) \in Nat
    <3>1. CASE head[n] = GenesisHash
      BY SMTT(30), <3>1 DEF HeaderNonce
    <3>2. CASE head[n] # GenesisHash
      <4>1. head[n] \in 1 .. Len(proposals) /\ proposals \in Seq(Hdrs)
        BY <1>4, <3>2 DEF GenesisHash, IInv, TypeOK
      <4> HIDE DEF Hdrs
      <4>2. proposals[head[n]] \in Hdrs
        BY <4>1
      <4> QED BY <3>2, <4>2 DEF HeaderNonce, Hdrs
    <3> QED BY SMTT(30), <3>1, <3>2
  <2> QED BY <1>3, <1>4, <2>1
<1>6. /\ proposals' = Append(proposals, hdr) /\ h <= MaxProposals
      /\ index' = [index EXCEPT ![n] = index[n]]
      /\ UNCHANGED <<index, head, stored, committed, signed>>
  BY Zenon DEF ProposeBlock, IInv, TypeOK
<1>7. \A m \in msgs' : m \notin msgs =>
         /\ m.type \in {MtBlockBody, MtBlockHeader} /\ m.from = n
         /\ m.round = index[n] /\ m.hash = h
         /\ m = [type |-> m.type, from |-> n, round |-> index[n], hash |-> h]
  BY DEF ProposeBlock
<1>8. msgs \subseteq msgs'
  BY DEF ProposeBlock
<1> HIDE DEF hdr
<1>9. /\ proposals' \in Seq(Hdrs) /\ Len(proposals') = h /\ proposals'[h] = hdr
      /\ \A x \in Proposals : proposals'[x] = proposals[x]
      /\ Proposals' = Proposals \cup {h}
  BY <1>4, <1>5, <1>6 DEF IInv, TypeOK, Proposals
<1>10. hdr.round = index[n] /\ hdr.prev = head[n]
  BY Zenon DEF hdr
<1>11. Grows(n)
  <2>1. Len(proposals) <= Len(proposals')
    BY <1>4, <1>9
  <2> QED BY <1>6, <1>8, <1>9, <2>1, Zenon DEF Grows
<1>12. SharedInv'
  <2>1. \A x \in Proposals' : proposals'[x].prev \in 0 .. x - 1
    <3>1. proposals'[h].prev \in 0 .. h - 1
      BY <1>4, <1>9, <1>10
    <3>2. \A x \in Proposals : proposals[x].prev \in 0 .. x - 1
      BY DEF IInv, TypeOK
    <3> HIDE DEF h
    <3> QED BY ZenonT(30), <1>9, <3>1, <3>2
  <2>2. head \in [Validators -> Hashes'] /\ Messages \subseteq Messages'
    BY <1>9, Zenon DEF IInv, TypeOK, Hashes, Messages
  <2>3. msgs' \subseteq Messages'
    <3> SUFFICES ASSUME NEW m \in msgs' PROVE m \in Messages'
      OBVIOUS
    <3>1. CASE m \in msgs
      BY <2>2, <3>1 DEF IInv, TypeOK
    <3>2. CASE m \notin msgs
      BY <1>3, <1>7, <1>9, <3>2 DEF Messages
    <3> QED BY <3>1, <3>2, Zenon
  <2>4. \A m \in msgs' :
          /\ proposals'[m.hash].round = m.round
          /\ m.type = MtSignature =>
                [who |-> m.from, round |-> m.round, hash |-> m.hash] \in signed
    <3> SUFFICES ASSUME NEW m \in msgs'
                 PROVE  /\ proposals'[m.hash].round = m.round
                        /\ m.type = MtSignature =>
                              [who |-> m.from, round |-> m.round,
                               hash |-> m.hash] \in signed
      BY ZenonT(30)
    <3>1. CASE m \in msgs
      <4>1. m.hash \in Proposals
        BY <3>1 DEF IInv, TypeOK, Messages
      <4> QED BY <1>9, <3>1, <4>1 DEF IInv, MessagesAndShares
    <3>2. CASE m \notin msgs
      BY <1>7, <1>9, <1>10, <3>2 DEF MtBlockBody, MtBlockHeader, MtSignature
    <3> QED BY <3>1, <3>2, Zenon
  <2>5. /\ signed \subseteq [who : Validators, round : Rounds, hash : Proposals']
        /\ committed \subseteq [hash : Proposals', round : Rounds,
                                signers : SUBSET Validators,
                                group : SUBSET Validators]
    BY <1>9, Zenon DEF IInv, TypeOK
  <2> QED BY <1>6, <1>9, <2>1, <2>2, <2>3, <2>4, <2>5, Zenon DEF SharedInv
<1>13. NodeInv(n, cs[n], index[n], subround[n], working[n])'
  <2>1. /\ cs'[n] = c /\ index'[n] = index[n] /\ subround'[n] = sr
        /\ working'[n] = w /\ signed' = signed
    BY Zenon, <1>1, <1>6 DEF IInv, TypeOK
  <2>2. /\ sr \in Subrounds /\ sr # SrStartRound /\ sr # srBeforeStartRound
        /\ sr # SrEndRound
    BY SMTT(30), <1>1 DEF Subrounds
  <2>3. c.data # NoHash => proposals'[c.data].round = c.roundIndex
    <3>1. CASE c.data = h
      BY ZenonT(30), <1>1, <1>3, <1>9, <1>10, <3>1
    <3>2. CASE c.data = cs[n].data /\ c.data # NoHash
      <4>1. cs[n].data \in Proposals
        BY ZenonT(30), <1>2, <3>2 DEF NodeInv, ConsensusStates, OptionalHashes
      <4> QED BY ZenonT(30), <1>1, <1>2, <1>9, <3>2, <4>1 DEF NodeInv
    <3> QED BY <1>1, <3>1, <3>2, Zenon
  <2>4. /\ \A s \in c.shares : [who |-> s.who, round |-> c.roundIndex,
                                hash |-> s.hash] \in signed
        /\ \A s \in signed : s.who = n => /\ s.round <= c.roundIndex
                                         /\ s.round # c.roundIndex
        /\ c.roundIndex = index[n] /\ c.roundIndex <= index[n]
        /\ index[n] \in Rounds
    BY ZenonT(30), <1>1, <1>2, <1>3 DEF NodeInv
  <2>5. /\ c \in ConsensusStates' /\ w \in BOOLEAN
        /\ \A f \in c.finished : f < sr
    BY <1>1
  <2> QED BY ZenonT(30), <2>1, <2>2, <2>3, <2>4, <2>5 DEF NodeInv
<1>14. SignOncePerRound' /\ CommittedHasQuorum'
  BY SMTT(30), <1>6 DEF IInv, SignOncePerRound, CommittedHasQuorum
<1>15. SignedIsOfTheRound'
  BY <1>6, <1>9, Zenon DEF IInv, TypeOK, SignedIsOfTheRound
<1> QED
  BY ZenonT(30), <1>1, <1>6, <1>11, <1>12, <1>13, <1>14, <1>15, SharedStep

-----------------------------------------------------------------------------
LEMMA NextIInv == IInv /\ [Next]_vars => IInv'
<1> SUFFICES ASSUME IInv, [Next]_vars PROVE IInv'
  BY Zenon
<1>1. CASE UNCHANGED vars
  <2>1. /\ Proposals' = Proposals /\ Hashes' = Hashes /\ Messages' = Messages
        /\ ConsensusStates' = ConsensusStates
    BY ZenonT(30), <1>1 DEF vars, Proposals, Hashes, Messages, ConsensusStates, OptionalHashes
  <2>2. TypeOK'
    BY ZenonT(30), <1>1, <2>1 DEF vars, IInv, TypeOK
  <2>2a. MessagesAndShares' /\ SignedPhase'
    BY ZenonT(30), <1>1, <2>1 DEF vars, IInv, MessagesAndShares, SignedPhase, Fresh
  <2>3. RoundPhase'
    BY Zenon, <1>1 DEF vars, IInv, RoundPhase, Fresh, SignaturesCollected,
                SignatureDone, Members
  <2> QED BY ZenonT(30), <1>1, <2>2, <2>2a, <2>3
    DEF vars, IInv, SignOncePerRound, CommittedHasQuorum, SignedIsOfTheRound
<1>2. CASE Next
  <2> PICK n \in Validators :
        \/ UpdateRound(n) \/ Timeout(n)
        \/ DoStartRound(n) \/ RecheckStartRound(n)
        \/ ProposeBlock(n) \/ SkipBlockJob(n) \/ RecheckBlock(n)
        \/ Sign(n) \/ SkipSignatureJob(n) \/ RecheckSignature(n)
        \/ CommitBlock(n) \/ SkipEndRoundJob(n)
        \/ \E m \in msgs : ReceiveMessage(n, m)
        \/ \E m \in stored[n] : ExecuteStoredMessage(n, m)
        \/ SyncBlock(n) \/ RollBackOneBlock(n)
    BY ZenonT(30), <1>2 DEF Next
  <2>1. \A m \in stored[n] : m \in msgs
    BY ZenonT(30) DEF IInv, MessagesAndShares
  <2>2. CASE \/ \E m \in msgs : ReceiveMessage(n, m)
             \/ \E m \in stored[n] : ExecuteStoredMessage(n, m)
    BY ZenonT(30), <2>1, <2>2, MessageStep
  <2> QED
    BY ZenonT(30), <2>2, UpdateRoundStep, TimeoutStep, DoStartRoundStep,
       RecheckStartRoundStep, ProposeStep, BlockCheckStep, SignStep,
       SignatureCheckStep, CommitBlockStep, SkipEndRoundStep, BootstrapStep
<1> QED BY SMTT(30), <1>1, <1>2

\* The invariant holds in every state of the consensus, for every set of
\* validators, every group selection and every number of rounds and headers.
THEOREM Invariance == Spec => []IInv
BY InitIInv, NextIInv, PTL DEF Spec

\* The state of every validator and every message keeps its type.
THEOREM TypeCorrect == Spec => []TypeOK
<1>1. IInv => TypeOK
  BY Zenon DEF IInv
<1> QED BY <1>1, Invariance, PTL

\* doSignatureJob: no validator ever signs two headers in one round.
THEOREM NoDoubleSigning == Spec => []SignOncePerRound
<1>1. IInv => SignOncePerRound
  BY Zenon DEF IInv
<1> QED BY <1>1, Invariance, PTL

\* doEndRoundJob: a committed header has a quorum of shares made for it in its
\* round by members of its group.
THEOREM QuorumOfShares == Spec => []CommittedHasQuorum
<1>1. IInv => CommittedHasQuorum
  BY Zenon DEF IInv
<1> QED BY <1>1, Invariance, PTL

\* A share is never made for the header of another round.
THEOREM SharesAreOfTheRound == Spec => []SignedIsOfTheRound
<1>1. IInv => SignedIsOfTheRound
  BY Zenon DEF IInv
<1> QED BY <1>1, Invariance, PTL

\* Agreement: leaders whose groups overlap enough for quorums to meet commit the
\* same header in a round, whatever their heads were when the round began.
THEOREM Agreement == Spec => []OneCommitPerRound
<1>1. IInv => OneCommitPerRound
  BY QuorumsGiveOneCommit, Zenon DEF IInv
<1> QED BY <1>1, Invariance, PTL

-----------------------------------------------------------------------------
(* The promise of a round: BlsConsensus implements RoundCertificates.        *)

\* A header that its leader commits has been proposed.
LEMMA CommitsAProposal ==
    ASSUME IInv, NEW n \in Validators, CommitBlock(n)
    PROVE  cs[n].data \in Proposals
<1>1. /\ cs[n].roundIndex = index[n] /\ SignaturesCollected(cs[n])
  BY SMTT(30), NodeInvOfIInv
  DEF CommitBlock, NodeInv, SrEndRound, SrStartRound, srBeforeStartRound
<1>2. ThresholdSignature >= 1
  BY SMTT(30), BoundsAssumption DEF ThresholdSignature
<1>3. Bitmap(cs[n]) # {}
  BY <1>1, <1>2, FS_EmptySet, ThresholdType DEF Bitmap, SignaturesCollected
<1>4. \A v \in Bitmap(cs[n]) :
         [who |-> v, round |-> index[n], hash |-> cs[n].data] \in signed
  BY <1>1, NodeInvOfIInv, Zenon DEF NodeInv, Bitmap, SignatureDone, CommitBlock, CheckSignaturesValidity
<1> QED BY <1>3, <1>4, Zenon DEF IInv, TypeOK

\* Only doSignatureJob makes shares and only doEndRoundJob commits.
LEMMA OthersKeepCertificates ==
    ASSUME NEW n,
           \/ UpdateRound(n) \/ Timeout(n)
           \/ DoStartRound(n) \/ RecheckStartRound(n)
           \/ ProposeBlock(n) \/ SkipBlockJob(n) \/ RecheckBlock(n)
           \/ SkipSignatureJob(n) \/ RecheckSignature(n) \/ SkipEndRoundJob(n)
           \/ \E m \in msgs : ReceiveMessage(n, m)
           \/ \E m \in stored[n] : ExecuteStoredMessage(n, m)
           \/ SyncBlock(n) \/ RollBackOneBlock(n)
    PROVE  UNCHANGED <<signed, committed>>
BY Zenon
   DEF UpdateRound, Timeout, DoStartRound, RecheckStartRound, ProposeBlock,
       SkipBlockJob, RecheckBlock, SkipSignatureJob, RecheckSignature,
       SkipEndRoundJob, ReceiveMessage, ExecuteStoredMessage, SyncBlock,
       RollBackOneBlock

\* A share is the first one of its validator in its round.
LEMMA SignIsSignOnce ==
    ASSUME IInv, NEW n \in Validators, Sign(n)
    PROVE  BlsCert!SignOnce
<1> DEFINE new == [who |-> n, round |-> index[n], hash |-> cs[n].data]
<1>1. /\ signed' = signed \cup {new} /\ UNCHANGED committed
  BY Zenon DEF Sign
<1>2. Fresh(n) /\ subround[n] = SrSignature /\ ~working[n]
  BY DEF Sign, Fresh, SrSignature, SrStartRound, srBeforeStartRound
<1>3. cs[n].roundIndex = index[n]
  BY <1>2, Zenon DEF IInv, RoundPhase
<1>4. \A t \in signed : ~(t.who = n /\ t.round = index[n])
  BY <1>2, <1>3 DEF IInv, SignedPhase, SrSignature, SrEndRound
<1>5. new.who = n /\ new.round = index[n]
  BY Zenon
<1> HIDE DEF new
<1>6. \E s \in signed' : /\ signed' = signed \cup {s}
                         /\ \A t \in signed : ~(t.who = s.who /\ t.round = s.round)
  <2> WITNESS new \in signed'
  <2> QED BY <1>1, <1>4, <1>5, Zenon
<1> QED BY <1>1, <1>6, Zenon DEF BlsCert!SignOnce, ThresholdSignature

\* A committed header is backed by shares made before.
LEMMA CommitIsCertify ==
    ASSUME IInv, NEW n \in Validators, CommitBlock(n)
    PROVE  BlsCert!Certify
<1> DEFINE Cert(b) == [round |-> b.round, hash |-> b.hash, signers |-> b.signers]
           new == [hash |-> cs[n].data, round |-> index[n],
                   signers |-> Bitmap(cs[n]), group |-> Members(cs[n])]
<1>1. /\ committed' = committed \cup {new} /\ UNCHANGED signed
  BY Zenon DEF CommitBlock
<1>2. CommittedHasQuorum'
  BY CommitBlockStep, Zenon DEF IInv
<1>3. /\ Cardinality(new.signers) >= ThresholdSignature
      /\ \A v \in new.signers :
            [who |-> v, round |-> new.round, hash |-> new.hash] \in signed
  BY <1>1, <1>2, Zenon DEF CommittedHasQuorum, ThresholdSignature
<1>4. /\ Cert(new).round = new.round /\ Cert(new).hash = new.hash
      /\ Cert(new).signers = new.signers
  BY Zenon
<1> HIDE DEF new
<1>5. BlsCert!Backed(Cert(new))
  <2>1. BlsCert!Cardinality(new.signers) = Cardinality(new.signers)
    BY Zenon DEF Cardinality, BlsCert!Cardinality
  <2> QED BY <1>3, <1>4, <2>1, Zenon DEF BlsCert!Backed
<1>6. {Cert(b) : b \in committed'} = {Cert(b) : b \in committed} \cup {Cert(new)}
  BY <1>1, Zenon
<1> HIDE DEF Cert
<1>7. \E c \in {Cert(b) : b \in committed'} :
         /\ {Cert(b) : b \in committed'} = {Cert(b) : b \in committed} \cup {c}
         /\ BlsCert!Backed(c)
  BY <1>1, <1>5, <1>6, Zenon
<1> QED BY <1>1, <1>7, Zenon DEF BlsCert!Certify, ThresholdSignature, Cert

LEMMA InitCert == Init => BlsCert!CertInit
BY ThresholdType, Zenon DEF Init, BlsCert!CertInit

LEMMA NextCert ==
    IInv /\ [Next]_vars => [BlsCert!SignOnce \/ BlsCert!Certify]_(BlsCert!certVars)
<1> SUFFICES ASSUME IInv, [Next]_vars
             PROVE  \/ BlsCert!SignOnce \/ BlsCert!Certify
                    \/ UNCHANGED BlsCert!certVars
  BY Zenon
<1>1. CASE UNCHANGED <<signed, committed>>
  BY <1>1, Zenon DEF BlsCert!certVars, ThresholdSignature
<1>2. CASE UNCHANGED vars
  BY <1>1, <1>2, Zenon DEF vars
<1>3. CASE Next
  BY ZenonT(30), <1>1, <1>3, OthersKeepCertificates, SignIsSignOnce, CommitIsCertify DEF Next
<1> QED BY <1>2, <1>3, Zenon

\* The consensus implements RoundCertificates: whatever the messages and the
\* synchronisation do, shares and committed headers appear only as the promise
\* of a round allows, a share as the first of its validator in the round and a
\* header with a quorum of shares for it.
THEOREM KeepsPromise == Spec => BlsKeepsPromise
BY InitCert, NextCert, Invariance, PTL DEF Spec, BlsKeepsPromise, BlsCert!CertSpec

\* The synchronisation, the roll back and doEndRoundJob move a head along the
\* chain of previous hashes, one header at a time.
THEOREM HeadsFollowChain == Spec => HeadMovesAlongChain
<1> DEFINE Along(n) == head'[n] # head[n] =>
             \/ head'[n] # GenesisHash /\ proposals[head'[n]].prev = head[n]
             \/ head[n] # GenesisHash /\ proposals[head[n]].prev = head'[n]
<1>1. ASSUME IInv, [Next]_vars, NEW n \in Validators PROVE Along(n)
  <2>1. CASE UNCHANGED head
    BY <2>1, Zenon
  <2>2. ASSUME NEW m \in Validators, NEW h \in Proposals,
               head' = [head EXCEPT ![m] = h], CheckBlockValidity(m, h)
        PROVE  Along(n)
    BY <2>2 DEF CheckBlockValidity, Proposals, GenesisHash, IInv, TypeOK
  <2>3. ASSUME NEW m \in Validators, RollBackOneBlock(m) PROVE Along(n)
    BY <2>3 DEF RollBackOneBlock, IInv, TypeOK
  <2> HIDE DEF Along
  <2>4. ASSUME NEW m \in Validators, CommitBlock(m) PROVE Along(n)
    <3>1. cs[m].data \in Proposals
      BY <1>1, <2>4, CommitsAProposal, Zenon
    <3>2. head' = [head EXCEPT ![m] = cs[m].data] /\ CheckBlockValidity(m, cs[m].data)
      BY <2>4, Zenon DEF CommitBlock
    <3> QED BY <2>2, <3>1, <3>2, Zenon
  <2>5. ASSUME NEW m \in Validators, SyncBlock(m) PROVE Along(n)
    <3>1. PICK b \in committed :
             CheckBlockValidity(m, b.hash) /\ head' = [head EXCEPT ![m] = b.hash]
      BY <2>5, Zenon DEF SyncBlock
    <3>2. b.hash \in Proposals
      BY <1>1, Zenon DEF IInv, TypeOK
    <3> QED BY <2>2, <3>1, <3>2, Zenon
  <2>6. CASE Next
    <3>1. PICK m \in Validators :
             \/ CommitBlock(m) \/ SyncBlock(m) \/ RollBackOneBlock(m)
             \/ UNCHANGED head
      BY Zenon, <2>6
      DEF Next, UpdateRound, Timeout, DoStartRound, RecheckStartRound,
          ProposeBlock, SkipBlockJob, RecheckBlock, Sign, SkipSignatureJob,
          RecheckSignature, SkipEndRoundJob, ReceiveMessage, ExecuteStoredMessage
    <3> QED BY <2>1, <2>3, <2>4, <2>5, <3>1, Zenon
  <2> QED BY <1>1, <2>1, <2>6, Zenon DEF vars
<1>2. IInv /\ [Next]_vars => [\A n \in Validators : Along(n)]_vars
  BY <1>1, Zenon
<1> QED BY <1>2, Invariance, PTL DEF Spec, HeadMovesAlongChain
=============================================================================
