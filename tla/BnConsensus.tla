----------------------------- MODULE BnConsensus -----------------------------
(***************************************************************************)
(* The Bellare-Neven flavour of the consensus (consensus/spos/bn): after   *)
(* the block, the members of the group send the hashes of their            *)
(* commitments, the leader says with a bitmap who signs, those send their  *)
(* commitments and then their signature shares, and each of them           *)
(* aggregates the shares and commits.                                      *)
(*                                                                         *)
(* Subrounds, time-outs and the handling of messages are those of          *)
(* BlsConsensus.  The proposal of a round is named by the round, since its *)
(* leader makes one; receiving and processing it is one step.              *)
(*                                                                         *)
(* The multi-signer of a node (crypto/signing/multisig/belnev) is a        *)
(* record; its methods are operators that return the new record.  A        *)
(* commitment stands for the secret it was made from, and is its own hash: *)
(* the hash function has no collisions.  A sum of points is the set of its *)
(* summands.  A share names what went into it: the secret, and the         *)
(* challenge with its bitmap, aggregated commitment and message.           *)
(***************************************************************************)
EXTENDS Integers, Sequences, Functions, FiniteSets

CONSTANTS Plans,            \* what a behaviour starts with
          LeaderOf(_, _)    \* of a plan's group and a round

ASSUME PlansAssumption ==
  \A p \in Plans : /\ p.size \in Nat \ {0} /\ p.rounds \in Nat \ {0}
                   /\ \A r \in 1 .. p.rounds : LeaderOf(p, r) \in 1 .. p.size

-----------------------------------------------------------------------------
(* The multi-signer                                                        *)

NoPoint == <<0, 0>>           \* a nil commitment or commitment hash
NoSum == {<<0, NoPoint>>}     \* a nil aggregated commitment
NoShare == [secret |-> NoPoint, challenge |-> <<{}, NoSum, 0>>]

(* Reset makes the data anew: nothing of the last round is kept.           *)
Reset(signer, group, self) ==
  [self |-> self, commSecret |-> NoPoint, aggCommitment |-> NoSum,
   commHashes |-> [n \in Range(group) |-> NoPoint],
   commitments |-> [n \in Range(group) |-> NoPoint],
   sigShares |-> [n \in Range(group) |-> NoShare]]

CreateCommitment(signer, secret) ==
  [signer EXCEPT !.commSecret = secret, !.commitments[signer.self] = secret]

HashOf(commitment) == commitment
StoreCommitmentHash(signer, n, hash) == [signer EXCEPT !.commHashes[n] = hash]
StoreCommitment(signer, n, commitment) == [signer EXCEPT !.commitments[n] = commitment]
StoreSignatureShare(signer, n, share) == [signer EXCEPT !.sigShares[n] = share]

(* Fails when a commitment of the bitmap is nil.                            *)
CanAggregateCommitments(signer, bitmap) == \A n \in bitmap : signer.commitments[n] # NoPoint
AggregateCommitments(signer, bitmap) ==
  [signer EXCEPT !.aggCommitment = {<<n, signer.commitments[n]>> : n \in bitmap}]

(* The challenge of a member differs from the others' by its public key,    *)
(* which the place of a share tells.                                        *)
computeChallenge(signer, message, bitmap) == <<bitmap, signer.aggCommitment, message>>

CreateSignatureShare(signer, message, bitmap) ==
  [secret |-> signer.commSecret, challenge |-> computeChallenge(signer, message, bitmap)]

VerifySignatureShare(signer, n, message, bitmap) ==
  /\ n \in bitmap
  /\ signer.aggCommitment # NoSum
  /\ signer.sigShares[n] = [secret |-> signer.commitments[n], challenge |-> computeChallenge(signer, message, bitmap)]

(* The aggregated commitment and the sum of the shares.                     *)
AggregateSigs(signer, bitmap) ==
  [comm |-> signer.aggCommitment, sum |-> {<<n, signer.sigShares[n]>> : n \in bitmap}]

(* Verify, by a node that has only the header and the group's public keys.  *)
Verify(sig, message, bitmap) ==
  /\ {p[1] : p \in sig.sum} = bitmap
  /\ \A p \in sig.sum : p[2].challenge = <<bitmap, sig.comm, message>> /\ <<p[1], p[2].secret>> \in sig.comm

-----------------------------------------------------------------------------
(* The rounds                                                              *)

Jobs == {"commHash", "bitmap", "commitment", "signature"}
SrOrder == <<"block", "commHash", "bitmap", "commitment", "signature", "end">>
NextSubround(sr) == SrOrder[(CHOOSE i \in DOMAIN SrOrder : SrOrder[i] = sr) + 1]

VARIABLES plan,      \* [size, rounds, patient, silent, failing]: the group's size, the rounds
                     \* played, no time-outs, who never acts, whose jobs may fail
          bn,        \* per node: round, subround and ConsensusState
          signer,    \* per node: its multi-signer
          waiting,   \* per node: the job of the subround is done, DoWork waits
          bnMsgs,    \* every consensus message that was broadcast
          created,   \* history: shares created, [who, round, share]
          blocks,    \* history: blocks committed, [who, round, bitmap, sig, header]
          drawn      \* per node: the number of its next secret

bnVars == <<plan, bn, signer, waiting, bnMsgs, created, blocks, drawn>>

Group(p) == [i \in 1 .. p.size |-> i]
GroupNodes == 1 .. plan.size
pbftThreshold == (plan.size * 2) \div 3 + 1
IsSelfLeader(n) == n = LeaderOf(plan, bn[n].round)

NotInRound == [round |-> 0, sr |-> "none", canceled |-> FALSE, data |-> 0, finished |-> {},
               done |-> [j \in Jobs |-> {}], headerBitmap |-> {}]

BnInit ==
  /\ plan \in Plans
  /\ bn = [n \in GroupNodes |-> [NotInRound EXCEPT !.round = 1, !.sr = "block"]]
  /\ signer = [n \in GroupNodes |-> Reset(<<>>, Group(plan), n)]
  /\ waiting = [n \in GroupNodes |-> FALSE]
  /\ bnMsgs = {} /\ created = {} /\ blocks = {} /\ drawn = [n \in GroupNodes |-> 1]

Broadcast(n, type, body) ==
  bnMsgs' = bnMsgs \cup {[type |-> type, from |-> n, round |-> bn[n].round, data |-> bn[n].data,
                         body |-> <<type, body>>]}
Payload(m) == m.body[2]

GenerateBitmap(c, job) == c.done[job] \cap GroupNodes
CanDoSubroundJob(n, job) == bn[n].data # 0 /\ n \notin bn[n].done[job] /\ job \notin bn[n].finished

-----------------------------------------------------------------------------
(* The checks of the subrounds.                                            *)

\* What the members of the bitmap sent covers it.
Covered(c, job) == c.done["bitmap"] \subseteq c.done[job] /\ Cardinality(c.done["bitmap"]) >= pbftThreshold
commitmentHashesCollected(c) == Covered(c, "commHash")
commitmentsCollected(c) == Covered(c, "commitment")
signaturesCollected(c) == Covered(c, "signature")
isCommitmentHashReceived(c, threshold) == Cardinality(c.done["commHash"]) >= threshold
isBitmapReceived(c) == Cardinality(c.done["bitmap"]) >= pbftThreshold

Mut_CommitmentHashThreshold(n) == pbftThreshold
CommitmentHashThreshold(n) == IF IsSelfLeader(n) THEN pbftThreshold ELSE plan.size
doCommitmentHashConsensusCheck(n, c) ==
  isCommitmentHashReceived(c, CommitmentHashThreshold(n)) \/ commitmentHashesCollected(c)

CheckHolds(n, c) ==
  CASE c.sr = "block"      -> c.data # 0
    [] c.sr = "commHash"   -> doCommitmentHashConsensusCheck(n, c)
    [] c.sr = "bitmap"     -> isBitmapReceived(c)
    [] c.sr = "commitment" -> commitmentsCollected(c)
    [] c.sr = "signature"  -> signaturesCollected(c)

(* DoWork after the job: the next subround when the check holds; a          *)
(* canceled round waits for its end.                                        *)
WorkOn(n, c) ==
  IF ~ c.canceled /\ CheckHolds(n, c)
  THEN /\ bn' = [bn EXCEPT ![n] = [c EXCEPT !.finished = @ \cup {c.sr}, !.sr = NextSubround(c.sr)]]
       /\ waiting' = [waiting EXCEPT ![n] = FALSE]
  ELSE /\ bn' = [bn EXCEPT ![n] = c]
       /\ waiting' = [waiting EXCEPT ![n] = TRUE]

InSubround(n, sr) == bn[n].sr = sr /\ ~ waiting[n]

(* A handler that took a message wakes the DoWork that waits.               *)
Recheck(n, c) == IF waiting[n] THEN WorkOn(n, c) ELSE bn' = [bn EXCEPT ![n] = c] /\ UNCHANGED waiting

(* Out of the round: what the state and the signer still hold is not read   *)
(* before StartRound makes them anew, so it is forgotten.                   *)
OutOfRound(n) ==
  /\ bn' = [bn EXCEPT ![n] = [NotInRound EXCEPT !.round = bn[n].round, !.canceled = bn[n].canceled]]
  /\ signer' = [signer EXCEPT ![n] = Reset(signer[n], Group(plan), n)]
  /\ waiting' = [waiting EXCEPT ![n] = FALSE]

(* The time of the subround is over, or the round has ended.                *)
EndOfRound(n) ==
  /\ bn[n].sr # "none" /\ waiting[n]
  /\ plan.patient => bn[n].canceled
  /\ OutOfRound(n)
  /\ UNCHANGED <<plan, bnMsgs, created, blocks, drawn>>

(* StartRound: the state and the signer are made anew.                      *)
StartRound(n) ==
  /\ bn[n].sr = "none"
  /\ \E r \in bn[n].round + 1 .. plan.rounds :
       bn' = [bn EXCEPT ![n] = [NotInRound EXCEPT !.round = r, !.sr = "block"]]
  /\ signer' = [signer EXCEPT ![n] = Reset(signer[n], Group(plan), n)]
  /\ waiting' = [waiting EXCEPT ![n] = FALSE]
  /\ UNCHANGED <<plan, bnMsgs, created, blocks, drawn>>

(* The block of the round is proposed, or received and processed.           *)
Mut_ProcessBlock(n) ==
  /\ InSubround(n, "block")
  /\ ~ IsSelfLeader(n) => \E m \in bnMsgs : m.type = "block" /\ m.round = bn[n].round
  /\ WorkOn(n, [bn[n] EXCEPT !.data = bn[n].round])
  /\ UNCHANGED <<plan, signer, bnMsgs, created, blocks, drawn>>
ProcessBlock(n) ==
  /\ InSubround(n, "block")
  /\ ~ IsSelfLeader(n) => \E m \in bnMsgs : m.type = "block" /\ m.round = bn[n].round
  /\ WorkOn(n, [bn[n] EXCEPT !.data = bn[n].round])
  /\ bnMsgs' = bnMsgs \cup {[type |-> "block", from |-> LeaderOf(plan, bn[n].round), round |-> bn[n].round,
                             data |-> bn[n].round, body |-> <<"block", {}>>]}
  /\ UNCHANGED <<plan, signer, created, blocks, drawn>>

NoBlock(n) ==
  /\ InSubround(n, "block") /\ ~ plan.patient
  /\ waiting' = [waiting EXCEPT ![n] = TRUE]
  /\ UNCHANGED <<plan, bn, signer, bnMsgs, created, blocks, drawn>>

-----------------------------------------------------------------------------
(* The jobs.  A broadcast or a commit that fails ends the job before it is  *)
(* marked done.                                                             *)

Sent(n, job) == IF <<n, job>> \in plan.failing THEN BOOLEAN ELSE {TRUE}
SendIf(sent, n, type, body) == IF sent THEN Broadcast(n, type, body) ELSE UNCHANGED bnMsgs
MarkedIf(sent, c, job, n) == IF sent THEN [c EXCEPT !.done[job] = @ \cup {n}] ELSE c

(* CreateCommitment picks a random scalar: one that was never drawn.        *)
Mut_freshSecret(n) == <<n, 1>>
freshSecret(n) == <<n, drawn[n]>>

genCommitmentHash(n) == StoreCommitmentHash(CreateCommitment(signer[n], freshSecret(n)), n, HashOf(freshSecret(n)))

doCommitmentHashJob(n) ==
  /\ InSubround(n, "commHash") /\ CanDoSubroundJob(n, "commHash")
  /\ signer' = [signer EXCEPT ![n] = genCommitmentHash(n)]
  /\ drawn' = [drawn EXCEPT ![n] = @ + 1]
  /\ \E sent \in Sent(n, "commHash") :
       /\ SendIf(sent, n, "commHash", HashOf(freshSecret(n)))
       /\ WorkOn(n, MarkedIf(sent, bn[n], "commHash", n))
  /\ UNCHANGED <<plan, created, blocks>>

Mut_LeaderBitmap(c) == [c EXCEPT !.done["bitmap"] = @ \cup c.done["commHash"]]
LeaderBitmap(c) ==
  [c EXCEPT !.done["bitmap"] = @ \cup c.done["commHash"], !.headerBitmap = GenerateBitmap(c, "commHash")]
doBitmapJob(n) ==
  /\ InSubround(n, "bitmap")
  /\ \E sent \in Sent(n, "bitmap") :
       IF IsSelfLeader(n) /\ CanDoSubroundJob(n, "bitmap") /\ sent
       THEN /\ Broadcast(n, "bitmap", GenerateBitmap(bn[n], "commHash"))
            /\ WorkOn(n, LeaderBitmap(bn[n]))
       ELSE UNCHANGED bnMsgs /\ WorkOn(n, bn[n])
  /\ UNCHANGED <<plan, signer, created, blocks, drawn>>

doCommitmentJob(n) ==
  /\ InSubround(n, "commitment")
  /\ \E sent \in Sent(n, "commitment") :
       IF n \in bn[n].done["bitmap"] /\ CanDoSubroundJob(n, "commitment") /\ sent
       THEN /\ Broadcast(n, "commitment", signer[n].commitments[n])
            /\ WorkOn(n, MarkedIf(TRUE, bn[n], "commitment", n))
       ELSE UNCHANGED bnMsgs /\ WorkOn(n, bn[n])
  /\ UNCHANGED <<plan, signer, created, blocks, drawn>>

checkCommitmentsValidity(n, bitmap) ==
  \A m \in bitmap : /\ m \in bn[n].done["commitment"]
                     /\ signer[n].commitments[m] # NoPoint
                     /\ signer[n].commHashes[m] = HashOf(signer[n].commitments[m])

(* CreateSignatureShare also stores the share of the node itself.           *)
WithShare(s, n, message, bitmap) == StoreSignatureShare(s, n, CreateSignatureShare(s, message, bitmap))
doSignatureJob(n) ==
  LET bitmap == GenerateBitmap(bn[n], "bitmap")
  IN /\ InSubround(n, "signature")
     /\ IF /\ n \in bn[n].done["bitmap"] /\ CanDoSubroundJob(n, "signature")
           /\ checkCommitmentsValidity(n, bitmap) /\ CanAggregateCommitments(signer[n], bitmap)
        THEN /\ signer' = [signer EXCEPT ![n] = WithShare(AggregateCommitments(@, bitmap), n, bn[n].data, bitmap)]
             /\ created' = created \cup {[who |-> n, round |-> bn[n].round, share |-> signer'[n].sigShares[n]]}
             /\ \E sent \in Sent(n, "signature") :
                  /\ SendIf(sent, n, "signature", signer'[n].sigShares[n])
                  /\ WorkOn(n, MarkedIf(sent, bn[n], "signature", n))
        ELSE UNCHANGED <<signer, created, bnMsgs>> /\ WorkOn(n, bn[n])
     /\ UNCHANGED <<plan, blocks, drawn>>

checkSignaturesValidity(n, bitmap) ==
  \A m \in bitmap : m \in bn[n].done["signature"] /\ VerifySignatureShare(signer[n], m, bn[n].data, bitmap)

(* Every node does the job of the last subround, not the leader alone.      *)
doEndRoundJob(n) ==
  LET bitmap == GenerateBitmap(bn[n], "bitmap")
  IN /\ InSubround(n, "end")
     /\ \E committed \in Sent(n, "end") :
          blocks' = IF checkSignaturesValidity(n, bitmap) /\ committed
                    THEN blocks \cup {[who |-> n, round |-> bn[n].round, bitmap |-> bitmap,
                                      sig |-> AggregateSigs(signer[n], bitmap), header |-> bn[n].headerBitmap]}
                    ELSE blocks
     /\ OutOfRound(n)
     /\ UNCHANGED <<plan, bnMsgs, created, drawn>>

-----------------------------------------------------------------------------
(* The handlers of received messages.  The worker keeps a message until its *)
(* subround may proceed; delivery is in any order, repeated or never.       *)

BnCanProceed(c, type) == IF type \in {"commHash", "bitmap"} THEN "block" \in c.finished ELSE "bitmap" \in c.finished
CanProcessReceivedMessage(n, m, job) ==
  /\ m.from # n
  /\ m.round = bn[n].round
  /\ m.from \notin bn[n].done[job]
  /\ job \notin bn[n].finished
BnHandles(n, m, type) ==
  /\ m.type = type
  /\ bn[n].sr # "none" /\ ~ bn[n].canceled
  /\ m.round = bn[n].round /\ BnCanProceed(bn[n], type)
  /\ bn[n].data # 0 /\ m.data = bn[n].data
  /\ CanProcessReceivedMessage(n, m, type)
Marked(n, m) == Recheck(n, [bn[n] EXCEPT !.done[m.type] = @ \cup {m.from}])

LeaderHasEnough(n) == IsSelfLeader(n) /\ isCommitmentHashReceived(bn[n], pbftThreshold)
receivedCommitmentHash(n, m) ==
  /\ BnHandles(n, m, "commHash")
  /\ ~ LeaderHasEnough(n)
  /\ signer' = [signer EXCEPT ![n] = StoreCommitmentHash(@, m.from, Payload(m))]
  /\ Marked(n, m)

(* A node that is not in the bitmap cancels its round.                      *)
HeaderBitmapOf(c, bitmap) == bitmap
BitmapTaken(n, c, bitmap) ==
  IF n \in c.done["bitmap"] THEN [c EXCEPT !.headerBitmap = HeaderBitmapOf(c, bitmap)] ELSE [c EXCEPT !.canceled = TRUE]
receivedBitmap(n, m) ==
  /\ BnHandles(n, m, "bitmap")
  /\ m.from = LeaderOf(plan, bn[n].round)
  /\ Cardinality(Payload(m)) >= pbftThreshold
  /\ Recheck(n, BitmapTaken(n, [bn[n] EXCEPT !.done["bitmap"] = @ \cup Payload(m)], Payload(m)))
  /\ UNCHANGED signer

receivedCommitment(n, m) ==
  /\ BnHandles(n, m, "commitment")
  /\ m.from \in bn[n].done["bitmap"]
  /\ signer' = [signer EXCEPT ![n] = StoreCommitment(@, m.from, Payload(m))]
  /\ Marked(n, m)

receivedSignature(n, m) ==
  /\ BnHandles(n, m, "signature")
  /\ m.from \in bn[n].done["bitmap"]
  /\ signer' = [signer EXCEPT ![n] = StoreSignatureShare(@, m.from, Payload(m))]
  /\ Marked(n, m)

BnReceive(n) ==
  /\ \E m \in bnMsgs : \/ receivedCommitmentHash(n, m)
                        \/ receivedBitmap(n, m)
                        \/ receivedCommitment(n, m)
                        \/ receivedSignature(n, m)
  /\ UNCHANGED <<plan, bnMsgs, created, blocks, drawn>>

Job(n) ==
  \/ ProcessBlock(n) \/ doCommitmentHashJob(n) \/ doBitmapJob(n)
  \/ doCommitmentJob(n) \/ doSignatureJob(n) \/ doEndRoundJob(n)

BnStep(n) ==
  Job(n) \/ NoBlock(n) \/ BnReceive(n) \/ EndOfRound(n) \/ StartRound(n)
BnNext == \E n \in GroupNodes \ plan.silent : BnStep(n)

(* A node that runs does its jobs and handles what it received.             *)
BnFair == \A n \in 1 .. 3 : WF_bnVars(StartRound(n) \/ Job(n) \/ BnReceive(n))
BnSpec == BnInit /\ [][BnNext]_bnVars /\ BnFair

-----------------------------------------------------------------------------
(* A secret answers one challenge: two shares of different challenges made  *)
(* from one commitment secret would give the private key away               *)
(* (CreateCommitment, CreateSignatureShare, Reset).                         *)
SecretUsedOnce == \A a, b \in created : a.share.secret = b.share.secret => a.share = b.share

(* Nobody reveals its commitment before it holds the hash of the commitment *)
(* of every member that signs (doCommitmentHashConsensusCheck with the two  *)
(* thresholds, doBitmapJob, doCommitmentJob).                               *)
RevealAfterHashes ==
  \A n \in GroupNodes :
    n \in bn[n].done["commitment"] => \A m \in bn[n].done["bitmap"] : signer[n].commHashes[m] # NoPoint

(* A committed block carries the signature of more than two thirds of the   *)
(* group, among them the committer, all of whom signed this block with this *)
(* bitmap; a node that has only the header finds the signature valid        *)
(* (doEndRoundJob, AggregateSigs, Verify).                                  *)
CommittedVerifies ==
  \A b \in blocks :
    /\ 3 * Cardinality(b.header) > 2 * plan.size
    /\ b.who \in b.header
    /\ Verify(b.sig, b.round, b.header)
    /\ \A m \in b.header : \E s \in created : s.who = m /\ s.share.challenge = <<b.header, b.sig.comm, b.round>>

(* All who commit in a round commit the same header, bitmap and aggregated  *)
(* signature included, although each aggregates by itself (doEndRoundJob).  *)
CommittersAgree ==
  \A a, b \in blocks : a.round = b.round => a.header = b.header /\ a.sig = b.sig

(* The group as a whole keeps the promise of RoundCertificates, where the   *)
(* thing signed is the challenge: the block with the bitmap and the         *)
(* aggregated commitment.                                                   *)
BnCert == INSTANCE RoundCertificates WITH
  shares <- {[who |-> s.who, round |-> s.round, hash |-> s.share.challenge] : s \in created},
  certificates <- {[round |-> b.round, hash |-> <<b.header, b.sig.comm, b.round>>, signers |-> b.header] : b \in blocks},
  quorum <- pbftThreshold
BnKeepsPromise == BnCert!CertSpec

(* Without time-outs and failed broadcasts, and with one member silent at   *)
(* most, three nodes of four commit the block of the round, or the leader   *)
(* left one of them out of the bitmap (the Check functions of the           *)
(* subrounds).                                                              *)
AllCommitted ==
  plan.patient /\ plan.failing = {} => \A n \in 1 .. 3 : bn[n].canceled \/ \E b \in blocks : b.who = n
RoundSucceeds == []<>AllCommitted

=============================================================================
