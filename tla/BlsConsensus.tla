---------------------------- MODULE BlsConsensus ----------------------------
(* The BLS flavour of the SPoS consensus of one shard (consensus/spos/bls,   *)
(* consensus/spos/commonSubround, consensus/spos, consensus/chronology).     *)
(*                                                                           *)
(* Every validator runs the chronology: it moves through the subrounds       *)
(* StartRound, Block, Signature and EndRound of a round, and falls back to   *)
(* "no subround" when one times out.  The leader of the round broadcasts a   *)
(* body and a header, validators that process them broadcast a signature     *)
(* share, and the leader alone aggregates the shares and commits.  The other *)
(* validators get the committed block from the synchronisation.              *)
(*                                                                           *)
(* A header is named by its position in proposals: this is the hash the      *)
(* validators sign (sr.Data).  The aggregated signature is part of the       *)
(* committed header, and a proposal is committed by its leader only, so the  *)
(* same number names the committed header as well.                           *)
EXTENDS Integers, Sequences, FiniteSets

CONSTANTS
    Validators,          \* public keys of the eligible list
    ConsensusGroupSize,  \* validators in the consensus group of a round
    MaxRound,            \* bound: the last round of the chronology
    MaxProposals,        \* bound: headers created in a behaviour
    ConsensusGroup(_, _) \* ComputeValidatorsGroup of (last header, round):
                         \* the members in order, the leader first

GenesisHash == 0
NoHash == -1

\* Subround identifiers; srBeforeStartRound is chronology's "no subround".
srBeforeStartRound == -1
SrStartRound == 0
SrBlock == 1
SrSignature == 2
SrEndRound == 3
Subrounds == srBeforeStartRound .. SrEndRound

MtBlockBody == "MtBlockBody"
MtBlockHeader == "MtBlockHeader"
MtSignature == "MtSignature"

ASSUME ValidatorsAssumption == IsFiniteSet(Validators)
ASSUME BoundsAssumption ==
    ConsensusGroupSize \in Nat /\ MaxRound \in Nat /\ MaxProposals \in Nat
ASSUME GroupAssumption ==
    \A h \in 0 .. MaxProposals, r \in 0 .. MaxRound :
        ConsensusGroup(h, r) \in Seq(Validators) \ {<<>>}

\* initConsensusThreshold
ThresholdBlock == 1
ThresholdSignature == (ConsensusGroupSize * 2) \div 3 + 1

VARIABLES
    index,      \* rounder.Index() of each validator
    subround,   \* chronology.subroundId
    working,    \* the Job of that subround is done, DoWork waits on its channel
    cs,         \* ConsensusState
    head,       \* Blockchain().GetCurrentBlockHeaderHash()
    stored,     \* worker.receivedMessages
    proposals,  \* every header created, in order
    msgs,       \* every consensus message broadcast
    committed,  \* headers committed by the consensus, with their signers
    signed      \* history: every signature share created

vars == <<index, subround, working, cs, head, stored, proposals, msgs,
          committed, signed>>

Rounds == 0 .. MaxRound
Proposals == 1 .. Len(proposals)
Hashes == {GenesisHash} \cup Proposals

HeaderNonce(h) == IF h = GenesisHash THEN 0 ELSE proposals[h].nonce
HeaderRound(h) == IF h = GenesisHash THEN 0 ELSE proposals[h].round

Messages == [type : {MtBlockBody, MtBlockHeader, MtSignature},
             from : Validators, round : Rounds, hash : Proposals]
OptionalHashes == {NoHash} \cup Proposals
ConsensusStates ==
    [roundIndex : Rounds, canceled : BOOLEAN, data : OptionalHashes,
     body : OptionalHashes, finished : SUBSET (SrStartRound .. SrEndRound),
     blockDone : SUBSET Validators,
     shares : SUBSET [who : Validators, hash : Proposals],
     group : Seq(Validators)]

\* ResetConsensusState: the group of the previous round is not cleared
ResetConsensusState(c) ==
    [c EXCEPT !.canceled = FALSE, !.data = NoHash, !.body = NoHash,
              !.finished = {}, !.blockDone = {}, !.shares = {}]

InitialState ==
    [roundIndex |-> 0, canceled |-> FALSE, data |-> NoHash, body |-> NoHash,
     finished |-> {}, blockDone |-> {}, shares |-> {}, group |-> <<>>]

Init ==
    /\ index = [n \in Validators |-> 0]
    /\ subround = [n \in Validators |-> srBeforeStartRound]
    /\ working = [n \in Validators |-> FALSE]
    /\ cs = [n \in Validators |-> InitialState]
    /\ head = [n \in Validators |-> GenesisHash]
    /\ stored = [n \in Validators |-> {}]
    /\ proposals = <<>>
    /\ msgs = {}
    /\ committed = {}
    /\ signed = {}

\* IsNodeLeaderInCurrentRound: GetLeader fails while there is no group
IsLeader(c, n) == c.group # <<>> /\ c.group[1] = n
Members(c) == {c.group[i] : i \in DOMAIN c.group}
SignatureDone(c) == {s.who : s \in c.shares}

\* Mutant: the threshold is not reached when there is one share less
Mut_SignaturesCollected(c) ==
    Cardinality(SignatureDone(c) \cap Members(c)) + 1 >= ThresholdSignature

\* signaturesCollected: members of the group whose signature job is done
SignaturesCollected(c) ==
    Cardinality(SignatureDone(c) \cap Members(c)) >= ThresholdSignature

\* Mutant: the previous hash is not compared
Mut_CheckBlockValidity(n, h) ==
    /\ proposals[h].nonce = HeaderNonce(head[n]) + 1
    /\ proposals[h].round > HeaderRound(head[n])

\* checkBlockValidity against the current block of the node
CheckBlockValidity(n, h) ==
    /\ proposals[h].prev = head[n]
    /\ proposals[h].nonce = HeaderNonce(head[n]) + 1
    /\ proposals[h].round > HeaderRound(head[n])
-----------------------------------------------------------------------------
(* Chronology *)

\* Mutant: the chronology enters a round it has been in
Mut_UpdateRound(n) ==
    /\ subround[n] = srBeforeStartRound
    /\ \E r \in index[n] .. MaxRound : index' = [index EXCEPT ![n] = r]
    /\ subround' = [subround EXCEPT ![n] = SrStartRound]
    /\ working' = [working EXCEPT ![n] = FALSE]
    /\ UNCHANGED <<cs, head, stored, proposals, msgs, committed, signed>>

\* updateRound, initRound: the clock gives any later round
UpdateRound(n) ==
    /\ subround[n] = srBeforeStartRound
    /\ \E r \in index[n] + 1 .. MaxRound : index' = [index EXCEPT ![n] = r]
    /\ subround' = [subround EXCEPT ![n] = SrStartRound]
    /\ working' = [working EXCEPT ![n] = FALSE]
    /\ UNCHANGED <<cs, head, stored, proposals, msgs, committed, signed>>

\* What DoWork does once Job and Check of subround sr left the state c: go on
\* to the next subround when the check held, wait on the channel otherwise.
AfterCheck(n, sr, c) ==
    /\ cs' = [cs EXCEPT ![n] = c]
    /\ IF ~c.canceled /\ sr \in c.finished
         THEN /\ subround' = [subround EXCEPT ![n] =
                                IF sr = SrEndRound THEN srBeforeStartRound
                                                   ELSE sr + 1]
              /\ working' = [working EXCEPT ![n] = FALSE]
         ELSE /\ subround' = subround
              /\ working' = [working EXCEPT ![n] = TRUE]

\* The time of the subround is over: Extend reverts the account state and the
\* chronology waits for the next round.
Timeout(n) ==
    /\ subround[n] # srBeforeStartRound
    /\ working[n]
    /\ subround' = [subround EXCEPT ![n] = srBeforeStartRound]
    /\ UNCHANGED <<index, working, cs, head, stored, proposals, msgs,
                   committed, signed>>
-----------------------------------------------------------------------------
(* Subround StartRound *)

\* initCurrentRound: the bootstrapper still synchronises (c unchanged), an
\* error or a lack of time cancels the round before or after the group is set,
\* a node outside the group cancels it too, or the subround is finished.
InitCurrentRound(n, c) ==
    LET inRound == [c EXCEPT !.group = ConsensusGroup(head[n], c.roundIndex),
                             !.blockDone = {}, !.shares = {}]
    IN  {c, [c EXCEPT !.canceled = TRUE], [inRound EXCEPT !.canceled = TRUE]}
          \cup (IF n \in Members(inRound)
                  THEN {[inRound EXCEPT !.finished = @ \cup {SrStartRound}]}
                  ELSE {})

\* getCleanedList: the messages of past rounds are dropped
CleanedList(n) == {m \in stored[n] : m.round >= index[n]}

\* Mutant: the state of the last round is not reset
Mut_DoStartRound(n) ==
    /\ subround[n] = SrStartRound /\ ~working[n]
    /\ \E c \in InitCurrentRound(n, [cs[n] EXCEPT !.roundIndex = index[n]]) :
          AfterCheck(n, SrStartRound, c)
    /\ stored' = [stored EXCEPT ![n] = CleanedList(n)]
    /\ UNCHANGED <<index, head, proposals, msgs, committed, signed>>

DoStartRound(n) ==
    /\ subround[n] = SrStartRound /\ ~working[n]
    /\ \E c \in InitCurrentRound(n, [ResetConsensusState(cs[n])
                                       EXCEPT !.roundIndex = index[n]]) :
          AfterCheck(n, SrStartRound, c)
    /\ stored' = [stored EXCEPT ![n] = CleanedList(n)]
    /\ UNCHANGED <<index, head, proposals, msgs, committed, signed>>

\* receivedSyncState wakes DoWork up, doStartRoundConsensusCheck runs again
RecheckStartRound(n) ==
    /\ subround[n] = SrStartRound /\ working[n]
    /\ ~cs[n].canceled
    /\ \E c \in InitCurrentRound(n, cs[n]) : AfterCheck(n, SrStartRound, c)
    /\ UNCHANGED <<index, head, stored, proposals, msgs, committed, signed>>
-----------------------------------------------------------------------------
(* Subround Block *)

\* doBlockConsensusCheck
CheckBlock(c) ==
    IF ~c.canceled /\ Cardinality(c.blockDone \cap Members(c)) >= ThresholdBlock
      THEN [c EXCEPT !.finished = @ \cup {SrBlock}]
      ELSE c

CanPropose(n) ==
    /\ IsLeader(cs[n], n)
    /\ index[n] > HeaderRound(head[n])
    /\ n \notin cs[n].blockDone
    /\ SrBlock \notin cs[n].finished

\* doBlockJob of the leader: createHeader, createBody, sendBlockBody,
\* sendBlockHeader, SetSelfJobDone
ProposeBlock(n) ==
    LET h == Len(proposals) + 1
        Send(types) == msgs' = msgs \cup {[type |-> t, from |-> n,
                                           round |-> index[n], hash |-> h] :
                                             t \in types}
    IN  /\ subround[n] = SrBlock /\ ~working[n]
        /\ CanPropose(n)
        /\ h <= MaxProposals
        /\ proposals' = Append(proposals,
              [leader |-> n, round |-> index[n], prev |-> head[n],
               nonce |-> HeaderNonce(head[n]) + 1])
        /\ \/ /\ Send({MtBlockBody, MtBlockHeader})
              /\ AfterCheck(n, SrBlock,
                    CheckBlock([cs[n] EXCEPT !.data = h, !.body = h,
                                             !.blockDone = @ \cup {n}]))
           \/ /\ Send({MtBlockBody})    \* sending the header failed
              /\ AfterCheck(n, SrBlock,
                    CheckBlock([cs[n] EXCEPT !.body = h]))
        /\ UNCHANGED <<index, head, stored, committed, signed>>

\* doBlockJob returns false: not the leader, or creating the block failed
SkipBlockJob(n) ==
    /\ subround[n] = SrBlock /\ ~working[n]
    /\ AfterCheck(n, SrBlock, CheckBlock(cs[n]))
    /\ UNCHANGED <<index, head, stored, proposals, msgs, committed, signed>>

\* The channel signals that a handler changed the state: Check runs again
RecheckBlock(n) ==
    /\ subround[n] = SrBlock /\ working[n]
    /\ AfterCheck(n, SrBlock, CheckBlock(cs[n]))
    /\ UNCHANGED <<index, head, stored, proposals, msgs, committed, signed>>
-----------------------------------------------------------------------------
(* Subround Signature *)

\* doSignatureConsensusCheck
CheckSignature(c) ==
    IF ~c.canceled /\ SignaturesCollected(c)
      THEN [c EXCEPT !.finished = @ \cup {SrSignature}]
      ELSE c

\* CanDoSubroundJob
CanSign(n) ==
    /\ cs[n].data # NoHash
    /\ n \notin SignatureDone(cs[n])
    /\ SrSignature \notin cs[n].finished

\* doSignatureJob: a validator sends its share and is done with the round, the
\* leader keeps its own share
Sign(n) ==
    LET h == cs[n].data
        share == [who |-> n, hash |-> h]
    IN  /\ subround[n] = SrSignature /\ ~working[n]
        /\ CanSign(n)
        /\ signed' = signed \cup {[who |-> n, round |-> index[n], hash |-> h]}
        /\ msgs' = IF IsLeader(cs[n], n) THEN msgs
                   ELSE msgs \cup {[type |-> MtSignature, from |-> n,
                                    round |-> index[n], hash |-> h]}
        /\ AfterCheck(n, SrSignature,
              CheckSignature([cs[n] EXCEPT !.canceled = @ \/ ~IsLeader(cs[n], n),
                                           !.shares = @ \cup {share}]))
        /\ UNCHANGED <<index, head, stored, proposals, committed>>

\* doSignatureJob fails before the share is created or sent
SkipSignatureJob(n) ==
    /\ subround[n] = SrSignature /\ ~working[n]
    /\ AfterCheck(n, SrSignature, CheckSignature(cs[n]))
    /\ UNCHANGED <<index, head, stored, proposals, msgs, committed, signed>>

RecheckSignature(n) ==
    /\ subround[n] = SrSignature /\ working[n]
    /\ AfterCheck(n, SrSignature, CheckSignature(cs[n]))
    /\ UNCHANGED <<index, head, stored, proposals, msgs, committed, signed>>
-----------------------------------------------------------------------------
(* Subround EndRound *)

\* checkSignaturesValidity: every share of the bitmap signs sr.Data
Bitmap(c) == SignatureDone(c) \cap Members(c)
CheckSignaturesValidity(c) ==
    \A s \in c.shares : s.who \in Bitmap(c) => s.hash = c.data

\* doEndRoundJob of the leader: aggregate the shares, CommitBlock, broadcast
CommitBlock(n) ==
    LET c == cs[n]
    IN  /\ subround[n] = SrEndRound /\ ~working[n]
        /\ IsLeader(c, n)
        /\ CheckSignaturesValidity(c)
        /\ CheckBlockValidity(n, c.data)
        /\ head' = [head EXCEPT ![n] = c.data]
        /\ committed' = committed \cup
              {[hash |-> c.data, round |-> index[n], signers |-> Bitmap(c),
                group |-> Members(c)]}
        /\ AfterCheck(n, SrEndRound, [c EXCEPT !.finished = @ \cup {SrEndRound}])
        /\ UNCHANGED <<index, stored, proposals, msgs, signed>>

\* doEndRoundJob returns false
SkipEndRoundJob(n) ==
    /\ subround[n] = SrEndRound /\ ~working[n]
    /\ AfterCheck(n, SrEndRound, cs[n])
    /\ UNCHANGED <<index, head, stored, proposals, msgs, committed, signed>>
-----------------------------------------------------------------------------
(* Worker: messages are lost (never delivered), delayed, reordered, repeated *)

\* CanProceed of the BLS worker
CanProceed(c, type) ==
    CASE type \in {MtBlockBody, MtBlockHeader} -> SrStartRound \in c.finished
      [] type = MtSignature -> SrBlock \in c.finished

\* processReceivedBlock on the state c, which holds the message just stored:
\* ProcessBlock accepts the block, refuses it, or runs out of time.
ProcessReceivedBlock(n, leader, c) ==
    IF c.body = NoHash \/ c.data = NoHash THEN {c}
    ELSE {c, [c EXCEPT !.canceled = TRUE]}
           \cup (IF c.body = c.data /\ CheckBlockValidity(n, c.data)
                   THEN {[c EXCEPT !.blockDone = @ \cup {leader}]}
                   ELSE {})

\* CanProcessReceivedMessage for the block subround
CanProcessBlockMessage(n, m) ==
    /\ IsLeader(cs[n], m.from)
    /\ m.from # n
    /\ index[n] = m.round
    /\ m.from \notin cs[n].blockDone
    /\ SrBlock \notin cs[n].finished

\* ReceivedBlockBody
ReceivedBlockBody(n, m) ==
    IF cs[n].body = NoHash /\ CanProcessBlockMessage(n, m)
      THEN ProcessReceivedBlock(n, m.from, [cs[n] EXCEPT !.body = m.hash])
      ELSE {cs[n]}

\* ReceivedBlockHeader
ReceivedBlockHeader(n, m) ==
    IF cs[n].data = NoHash /\ CanProcessBlockMessage(n, m)
      THEN ProcessReceivedBlock(n, m.from, [cs[n] EXCEPT !.data = m.hash])
      ELSE {cs[n]}

\* receivedSignature: the leader stops at the threshold
ReceivedSignature(n, m) ==
    LET c == cs[n]
    IN  IF /\ c.data # NoHash
           /\ c.data = m.hash
           /\ m.from # n
           /\ index[n] = m.round
           /\ m.from \notin SignatureDone(c)
           /\ SrSignature \notin c.finished
           /\ ~(IsLeader(c, n) /\ SignaturesCollected(c))
           /\ m.from \in Members(c)
          THEN {[c EXCEPT !.shares = @ \cup {[who |-> m.from, hash |-> m.hash]}]}
          ELSE {c}

Handle(n, m) ==
    CASE m.type = MtBlockBody -> ReceivedBlockBody(n, m)
      [] m.type = MtBlockHeader -> ReceivedBlockHeader(n, m)
      [] m.type = MtSignature -> ReceivedSignature(n, m)

\* The tests of executeMessage: a message of the current round whose previous
\* subround is finished
Executable(n, m) ==
    m.round = cs[n].roundIndex /\ CanProceed(cs[n], m.type)

\* ProcessReceivedMessage, checkSelfState, executeReceivedMessages: a message is
\* given to its handler, or waits in receivedMessages until it is executable
ReceiveMessage(n, m) ==
    /\ m \notin stored[n]
    /\ cs[n].roundIndex <= m.round
    /\ m.from # n
    /\ ~(cs[n].canceled /\ cs[n].roundIndex = m.round)
    /\ IF Executable(n, m)
         THEN /\ \E c \in Handle(n, m) : cs' = [cs EXCEPT ![n] = c]
              /\ UNCHANGED stored
         ELSE /\ stored' = [stored EXCEPT ![n] = @ \cup {m}]
              /\ UNCHANGED cs
    /\ UNCHANGED <<index, subround, working, head, proposals, msgs, committed,
                   signed>>

\* executeStoredMessages and checkChannels
ExecuteStoredMessage(n, m) ==
    /\ Executable(n, m)
    /\ \E c \in Handle(n, m) : cs' = [cs EXCEPT ![n] = c]
    /\ stored' = [stored EXCEPT ![n] = @ \ {m}]
    /\ UNCHANGED <<index, subround, working, head, proposals, msgs, committed,
                   signed>>
-----------------------------------------------------------------------------
(* The bootstrapper, which runs beside the consensus *)

\* syncBlock: a header committed elsewhere that extends the chain is committed
SyncBlock(n) ==
    /\ \E b \in committed : /\ CheckBlockValidity(n, b.hash)
                            /\ head' = [head EXCEPT ![n] = b.hash]
    /\ UNCHANGED <<index, subround, working, cs, stored, proposals, msgs,
                   committed, signed>>

\* rollBackOneBlock: a fork was detected, the last block is removed
RollBackOneBlock(n) ==
    /\ head[n] # GenesisHash
    /\ \E b \in committed : /\ b.hash # head[n]
                            /\ HeaderNonce(b.hash) = HeaderNonce(head[n])
    /\ head' = [head EXCEPT ![n] = proposals[head[n]].prev]
    /\ UNCHANGED <<index, subround, working, cs, stored, proposals, msgs,
                   committed, signed>>
-----------------------------------------------------------------------------
(* Properties *)

TypeOK ==
    /\ index \in [Validators -> Rounds]
    /\ subround \in [Validators -> Subrounds]
    /\ working \in [Validators -> BOOLEAN]
    /\ proposals \in Seq([leader : Validators, round : Rounds, prev : Nat,
                          nonce : Nat])
    /\ Len(proposals) <= MaxProposals
    /\ \A h \in Proposals : proposals[h].prev \in 0 .. h - 1
    /\ head \in [Validators -> Hashes]
    /\ msgs \subseteq Messages
    /\ stored \in [Validators -> SUBSET Messages]
    /\ cs \in [Validators -> ConsensusStates]
    /\ signed \subseteq [who : Validators, round : Rounds, hash : Proposals]
    /\ committed \subseteq [hash : Proposals, round : Rounds,
                            signers : SUBSET Validators,
                            group : SUBSET Validators]

\* doSignatureJob: a validator never signs two headers in the same round,
\* whatever messages it gets and whatever block it is on
SignOncePerRound ==
    \A s, t \in signed :
        s.who = t.who /\ s.round = t.round => s.hash = t.hash

\* doEndRoundJob: a header is committed only with shares that validators of its
\* group made in that very round for that very header, 2/3 + 1 of them
CommittedHasQuorum ==
    \A b \in committed :
        /\ b.signers \subseteq b.group
        /\ Cardinality(b.signers) >= ThresholdSignature
        /\ \A v \in b.signers :
              [who |-> v, round |-> b.round, hash |-> b.hash] \in signed

\* Two headers committed in one round are the same header when their groups
\* overlap so much that two quorums must meet, in particular when the group is
\* the same; nodes on different blocks may follow different leaders
OneCommitPerRound ==
    \A a, b \in committed :
        /\ a.round = b.round
        /\ Cardinality(a.group \cup b.group) < 2 * ThresholdSignature
        => a.hash = b.hash

\* A share is always for a header of the round in which it was made: a late
\* message never makes a validator sign the header of an earlier round
SignedIsOfTheRound ==
    \A s \in signed : proposals[s.hash].round = s.round

\* The chain of a validator changes one block at a time, by a header built on
\* the last one or by the removal of the last one: a header proposed on a head
\* that the synchronisation has moved since is never committed
HeadMovesAlongChain ==
    [][\A n \in Validators :
          head'[n] # head[n] =>
             \/ head'[n] # GenesisHash /\ proposals[head'[n]].prev = head[n]
             \/ head[n] # GenesisHash /\ proposals[head[n]].prev = head'[n]]_vars
-----------------------------------------------------------------------------
(* The inductive invariant behind these properties *)

\* Between updateRound and doStartRoundJob, and while the node waits for the
\* next round, the ConsensusState is the one of an earlier round
Fresh(n) ==
    /\ subround[n] # srBeforeStartRound
    /\ subround[n] = SrStartRound => working[n]

RoundPhase ==
    \A n \in Validators :
        /\ cs[n].roundIndex <= index[n]
        /\ Fresh(n) => cs[n].roundIndex = index[n]
        /\ Fresh(n) /\ subround[n] # SrEndRound =>
              \A sr \in cs[n].finished : sr < subround[n]
        /\ subround[n] = SrStartRound /\ ~working[n] =>
              cs[n].roundIndex < index[n]
        /\ subround[n] = SrEndRound => SignaturesCollected(cs[n])

SignedPhase ==
    \A s \in signed :
        /\ s.round <= cs[s.who].roundIndex
        /\ s.round = cs[s.who].roundIndex /\ Fresh(s.who) =>
              \/ subround[s.who] = SrSignature /\ working[s.who]
              \/ subround[s.who] = SrEndRound

MessagesAndShares ==
    /\ \A m \in msgs :
          /\ proposals[m.hash].round = m.round
          /\ m.type = MtSignature =>
                [who |-> m.from, round |-> m.round, hash |-> m.hash] \in signed
    /\ \A n \in Validators :
          /\ stored[n] \subseteq msgs
          /\ cs[n].data # NoHash => proposals[cs[n].data].round = cs[n].roundIndex
          /\ \A s \in cs[n].shares :
                [who |-> s.who, round |-> cs[n].roundIndex, hash |-> s.hash]
                   \in signed

IInv ==
    /\ TypeOK
    /\ RoundPhase
    /\ SignedPhase
    /\ MessagesAndShares
    /\ SignOncePerRound
    /\ CommittedHasQuorum
    /\ SignedIsOfTheRound
-----------------------------------------------------------------------------
Next ==
    \E n \in Validators :
        \/ UpdateRound(n) \/ Timeout(n)
        \/ DoStartRound(n) \/ RecheckStartRound(n)
        \/ ProposeBlock(n) \/ SkipBlockJob(n) \/ RecheckBlock(n)
        \/ Sign(n) \/ SkipSignatureJob(n) \/ RecheckSignature(n)
        \/ CommitBlock(n) \/ SkipEndRoundJob(n)
        \/ \E m \in msgs : ReceiveMessage(n, m)
        \/ \E m \in stored[n] : ExecuteStoredMessage(n, m)
        \/ SyncBlock(n) \/ RollBackOneBlock(n)

Spec == Init /\ [][Next]_vars
-----------------------------------------------------------------------------
\* The shard as a whole keeps the promise of RoundCertificates: whatever the
\* nodes do, shares and committed blocks only appear as it allows
BlsCert == INSTANCE RoundCertificates WITH
    shares <- signed,
    certificates <- {[round |-> b.round, hash |-> b.hash, signers |-> b.signers] : b \in committed},
    quorum <- ThresholdSignature
BlsKeepsPromise == BlsCert!CertSpec
=============================================================================
