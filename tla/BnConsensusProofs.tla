-------------------------- MODULE BnConsensusProofs --------------------------
(***************************************************************************)
(* TLAPS proofs about BnConsensus, for groups of any size and any number   *)
(* of rounds, whoever is silent and whatever fails: a secret answers one   *)
(* challenge, commitments are revealed only after the hashes of the        *)
(* signers are held, and the group keeps the promise of RoundCertificates. *)
(***************************************************************************)
EXTENDS BnConsensus, TLAPS

Late == {"commitment", "signature", "end"}   \* the subrounds after the bitmap's
PlanRounds == 1 .. plan.rounds

Points == Nat \X Nat
Sums == SUBSET (Nat \X Points)
Shares == [secret : Points, challenge : (SUBSET GroupNodes) \X Sums \X Nat]
Signers == [self : GroupNodes, commSecret : Points, aggCommitment : Sums,
            commHashes : [GroupNodes -> Points], commitments : [GroupNodes -> Points],
            sigShares : [GroupNodes -> Shares]]
Subrounds == {"none", "block", "commHash", "bitmap"} \cup Late
States == [round : PlanRounds, sr : Subrounds, canceled : BOOLEAN, data : Nat,
           finished : SUBSET Subrounds, done : [Jobs -> SUBSET GroupNodes],
           headerBitmap : SUBSET GroupNodes]
Creations == [who : GroupNodes, round : PlanRounds, share : Shares]

BnTypes ==
  /\ plan \in Plans
  /\ bn \in [GroupNodes -> States]
  /\ signer \in [GroupNodes -> Signers]
  /\ waiting \in [GroupNodes -> BOOLEAN]
  /\ drawn \in [GroupNodes -> Nat \ {0}]
  /\ created \subseteq Creations

-----------------------------------------------------------------------------
(* What holds of a node n in state c with signer s and its next secret d.  *)

Leads(n, c) == n = LeaderOf(plan, c.round)

\* The state follows the subround.
Follows(n, c) ==
  /\ c.data \in {0, c.round} /\ (c.sr \notin {"none", "block"} => c.data # 0)
  /\ c.sr \in {"bitmap"} \cup Late => "commHash" \in c.finished
  /\ c.sr \in Late => "bitmap" \in c.finished /\ ~c.canceled
  /\ n \in c.done["commitment"] => c.sr \in Late
  /\ c.sr = "end" => isBitmapReceived(c)

\* The secret is one the node has drawn, and its commitment is made from it.
OwnSecret(n, c, s, d) ==
  /\ s.self = n /\ s.commitments[n] = s.commSecret
  /\ s.commSecret = NoPoint \/ \E k \in 1 .. d - 1 : s.commSecret = <<n, k>>
  /\ c.sr = "none" => s.commSecret = NoPoint

\* Whoever is past its commitment hashes holds the hash of every member of the
\* bitmap, if it has one.
Hashed(n, c, s) ==
  /\ \A m \in c.done["commHash"] : s.commHashes[m] # NoPoint
  /\ c.sr \in {"bitmap"} \cup Late =>
       IF Leads(n, c)
       THEN isCommitmentHashReceived(c, pbftThreshold) /\ c.done["bitmap"] \subseteq c.done["commHash"]
       ELSE \/ c.done["commHash"] = GroupNodes
            \/ c.done["bitmap"] # {} /\ c.done["bitmap"] \subseteq c.done["commHash"]

\* The bitmap comes from the leader's message of the round.
BitmapHeld(n, c) ==
  /\ c.canceled => ~Leads(n, c)
  /\ Leads(n, c) /\ c.sr \notin Late => c.done["bitmap"] = {}
  /\ ~Leads(n, c) /\ c.done["bitmap"] # {} =>
       \E m \in bnMsgs : m.type = "bitmap" /\ m.round = c.round /\ Payload(m) = c.done["bitmap"]
  /\ c.done["bitmap"] # {} /\ ~c.canceled => c.headerBitmap = c.done["bitmap"]

\* The shares the node has stored were made in the round.
SharesMade(c, s) ==
  \A m \in GroupNodes :
    s.sigShares[m] # NoShare => [who |-> m, round |-> c.round, share |-> s.sigShares[m]] \in created

NodeOK(n, c, s, d) ==
  Follows(n, c) /\ OwnSecret(n, c, s, d) /\ Hashed(n, c, s) /\ BitmapHeld(n, c) /\ SharesMade(c, s)

\* The node has made its share of the round, or can make none before the next
\* (w: it waits for the end of the subround).
Spent(n, c, w) ==
  \/ c.sr = "none"
  \/ n \in c.done["signature"]
  \/ c.sr = "signature" /\ w /\ n \in c.done["bitmap"]

-----------------------------------------------------------------------------
(* What holds of the shares made and of the messages.                      *)

\* A share was made with a secret of its maker, which makes no other of the round
\* and none with the secret.
Accounted(a) ==
  /\ \E k \in 1 .. drawn[a.who] - 1 : a.share.secret = <<a.who, k>>
  /\ a.round <= bn[a.who].round
  /\ \/ a.round = bn[a.who].round
     \/ a.share.secret = signer[a.who].commSecret
     => Spent(a.who, bn[a.who], waiting[a.who])

Sound(m) ==
  /\ m.from \in GroupNodes
  /\ m.type = "commHash" => Payload(m) \in Points \ {NoPoint}
  /\ m.type = "commitment" => Payload(m) \in Points
  /\ m.type = "signature" => [who |-> m.from, round |-> m.round, share |-> Payload(m)] \in created
  /\ m.type = "bitmap" =>
       /\ Payload(m) \subseteq GroupNodes /\ m.from = LeaderOf(plan, m.round) /\ m.round \in PlanRounds
       /\ m.round <= bn[m.from].round
       /\ m.round = bn[m.from].round => bn[m.from].sr \in Late \cup {"none"}

\* The leader sends one bitmap in a round.
OneBitmap ==
  \A m, p \in bnMsgs : m.type = "bitmap" /\ p.type = "bitmap" /\ m.round = p.round => Payload(m) = Payload(p)

\* Nobody waits after the last subround's check.
EndsAtOnce == \A n \in GroupNodes : bn[n].sr = "end" => ~waiting[n]

BnInv ==
  /\ BnTypes /\ EndsAtOnce
  /\ \A n \in GroupNodes : NodeOK(n, bn[n], signer[n], drawn[n])
  /\ \A a \in created : Accounted(a)
  /\ \A m \in bnMsgs : Sound(m)
  /\ OneBitmap
  /\ SecretUsedOnce

-----------------------------------------------------------------------------
(* The group, its threshold and the order of the subrounds.                *)

LEMMA GroupFacts ==
  ASSUME plan \in Plans
  PROVE  /\ plan.size \in Nat \ {0} /\ plan.rounds \in Nat \ {0}
         /\ pbftThreshold \in Nat \ {0}
         /\ \A r \in PlanRounds : LeaderOf(plan, r) \in GroupNodes
<1>1. plan.size \in Nat \ {0} /\ plan.rounds \in Nat \ {0}
  BY PlansAssumption, Zenon
<1>2. pbftThreshold \in Nat \ {0}
  BY <1>1 DEF pbftThreshold
<1>3. \A r \in PlanRounds : LeaderOf(plan, r) \in GroupNodes
  BY PlansAssumption, Zenon DEF PlanRounds, GroupNodes
<1> QED BY <1>1, <1>2, <1>3, Zenon

\* What is used of counting, which CountingHolds proves from the theorems about
\* finite sets: nobody is counted as none, and members of 1 .. k that are as many
\* as k are all of them.
Counting ==
  /\ Cardinality({}) = 0
  /\ \A k \in Nat : \A S \in SUBSET (1 .. k) : Cardinality(S) >= k => S = 1 .. k

\* Members of the group that are as many as the group are the group.
LEMMA WholeGroup ==
  ASSUME Counting, plan \in Plans, NEW S \in SUBSET GroupNodes, Cardinality(S) >= plan.size
  PROVE  S = GroupNodes
BY GroupFacts, Zenon DEF Counting, GroupNodes

LEMMA NonEmptyQuorum ==
  ASSUME Counting, plan \in Plans, NEW S \in SUBSET GroupNodes, Cardinality(S) >= pbftThreshold
  PROVE  S # {}
<1> SUFFICES ASSUME S = {} PROVE FALSE
  BY Zenon
<1>1. Cardinality(S) = 0
  BY Zenon DEF Counting
<1> QED BY <1>1, GroupFacts

LEMMA SubroundOrder ==
  /\ NextSubround("block") = "commHash" /\ NextSubround("commHash") = "bitmap"
  /\ NextSubround("bitmap") = "commitment" /\ NextSubround("commitment") = "signature"
  /\ NextSubround("signature") = "end"
<1>1. \A i \in DOMAIN SrOrder : /\ SrOrder[i] = "block" <=> i = 1
                                /\ SrOrder[i] = "commHash" <=> i = 2
                                /\ SrOrder[i] = "bitmap" <=> i = 3
                                /\ SrOrder[i] = "commitment" <=> i = 4
                                /\ SrOrder[i] = "signature" <=> i = 5
  BY DEF SrOrder
<1>2. 1 \in DOMAIN SrOrder /\ 2 \in DOMAIN SrOrder /\ 3 \in DOMAIN SrOrder /\ 4 \in DOMAIN SrOrder /\ 5 \in DOMAIN SrOrder
  BY DEF SrOrder
<1>3. /\ (CHOOSE i \in DOMAIN SrOrder : SrOrder[i] = "block") = 1
      /\ (CHOOSE i \in DOMAIN SrOrder : SrOrder[i] = "commHash") = 2
      /\ (CHOOSE i \in DOMAIN SrOrder : SrOrder[i] = "bitmap") = 3
      /\ (CHOOSE i \in DOMAIN SrOrder : SrOrder[i] = "commitment") = 4
      /\ (CHOOSE i \in DOMAIN SrOrder : SrOrder[i] = "signature") = 5
  BY <1>1, <1>2, Zenon
<1> QED BY <1>3 DEF NextSubround, SrOrder

-----------------------------------------------------------------------------
(* A step of a node.                                                       *)

\* A step of node n keeps the invariant when the node is well afterwards, and so
\* is all that is new.
LEMMA StepOfNode ==
  ASSUME BnInv, NEW n \in GroupNodes, UNCHANGED plan,
         NEW c \in States, NEW s \in Signers, NEW w \in BOOLEAN, NEW d \in Nat \ {0},
         bn' = [bn EXCEPT ![n] = c], signer' = [signer EXCEPT ![n] = s],
         waiting' = [waiting EXCEPT ![n] = w], drawn' = [drawn EXCEPT ![n] = d],
         bnMsgs \subseteq bnMsgs', created \subseteq created', created' \subseteq Creations,
         NodeOK(n, c, s, d)',
         c.round >= bn[n].round, d >= drawn[n], c.sr = "end" => ~w,
         c.round = bn[n].round /\ bn[n].sr \in Late \cup {"none"} => c.sr \in Late \cup {"none"},
         \A a \in created : a.who = n /\ (a.round = c.round \/ a.share.secret = s.commSecret) => Spent(n, c, w),
         \A a \in created' \ created : Accounted(a)',
         \A m \in bnMsgs' \ bnMsgs : Sound(m)',
         OneBitmap', SecretUsedOnce'
  PROVE  BnInv'
<1>1. GroupNodes' = GroupNodes /\ PlanRounds' = PlanRounds /\ pbftThreshold' = pbftThreshold
  BY Zenon DEF GroupNodes, PlanRounds, pbftThreshold
<1>2. /\ Shares' = Shares /\ Signers' = Signers /\ States' = States /\ Creations' = Creations
  BY <1>1, Zenon DEF Shares, Signers, States, Creations
<1>3. BnTypes'
  BY <1>1, <1>2, Zenon DEF BnInv, BnTypes
<1>4. \A k \in GroupNodes \ {n} : /\ bn'[k] = bn[k] /\ signer'[k] = signer[k]
                                  /\ waiting'[k] = waiting[k] /\ drawn'[k] = drawn[k]
  BY Zenon DEF BnInv, BnTypes
<1>5. bn'[n] = c /\ signer'[n] = s /\ waiting'[n] = w /\ drawn'[n] = d
  BY Zenon DEF BnInv, BnTypes
<1>6. \A k \in GroupNodes : NodeOK(k, bn[k], signer[k], drawn[k])'
  <2> SUFFICES ASSUME NEW k \in GroupNodes PROVE NodeOK(k, bn[k], signer[k], drawn[k])'
    BY Zenon
  <2>1. CASE k = n
    BY <1>1, <1>5, <2>1, Zenon DEF NodeOK, Follows, OwnSecret, Hashed, BitmapHeld, SharesMade,
       Leads, isBitmapReceived, isCommitmentHashReceived
  <2>2. CASE k # n
    <3>1. NodeOK(k, bn[k], signer[k], drawn[k])
      BY Zenon DEF BnInv
    <3>2. (Follows(k, bn[k]) /\ OwnSecret(k, bn[k], signer[k], drawn[k]) /\ Hashed(k, bn[k], signer[k]))'
      BY <1>1, <1>4, <2>2, <3>1 DEF NodeOK, Follows, OwnSecret, Hashed, Leads, isBitmapReceived,
         isCommitmentHashReceived
    <3>3. BitmapHeld(k, bn[k])'
      BY <1>1, <1>4, <2>2, <3>1 DEF NodeOK, BitmapHeld, Leads
    <3>4. SharesMade(bn[k], signer[k])'
      BY <1>1, <1>4, <2>2, <3>1 DEF NodeOK, SharesMade
    <3> QED BY <3>2, <3>3, <3>4, Zenon DEF NodeOK
  <2> QED BY <2>1, <2>2, Zenon
<1>7. ASSUME NEW a \in created PROVE Accounted(a)'
  <2>1. Accounted(a) /\ a.who \in GroupNodes /\ a.round \in Nat
    BY GroupFacts DEF BnInv, BnTypes, Creations, PlanRounds
  <2>2. CASE a.who = n
    <3>1. PICK k \in 1 .. drawn[n] - 1 : a.share.secret = <<n, k>>
      BY <2>1, <2>2, Zenon DEF Accounted
    <3>2. k \in 1 .. d - 1
      BY DEF BnInv, BnTypes
    <3>3. a.round <= c.round
      BY <2>1, <2>2, GroupFacts DEF Accounted, BnInv, BnTypes, States, PlanRounds
    <3> QED BY <1>5, <2>2, <3>1, <3>2, <3>3, Zenon DEF Accounted
  <2>3. CASE a.who # n
    BY <1>4, <2>1, <2>3, Zenon DEF Accounted
  <2> QED BY <2>2, <2>3, Zenon
<1>8. ASSUME NEW m \in bnMsgs PROVE Sound(m)'
  <2>1. Sound(m)
    BY Zenon DEF BnInv
  <2>2. CASE m.type # "bitmap"
    BY <1>1, <2>1, <2>2, Zenon DEF Sound
  <2>3. CASE m.type = "bitmap" /\ m.from # n
    BY <1>1, <1>4, <2>1, <2>3 DEF Sound
  <2>4. CASE m.type = "bitmap" /\ m.from = n
    <3>1. m.round \in Nat /\ bn[n].round \in Nat /\ c.round \in Nat
      BY <2>1, <2>4, GroupFacts DEF Sound, BnInv, BnTypes, States, PlanRounds
    <3> QED BY <1>1, <1>5, <2>1, <2>4, <3>1 DEF Sound
  <2> QED BY <2>2, <2>3, <2>4, Zenon
<1>9. EndsAtOnce'
  BY <1>1, <1>4, <1>5 DEF BnInv, EndsAtOnce
<1> QED BY <1>1, <1>3, <1>6, <1>7, <1>8, <1>9, Zenon DEF BnInv

\* The next subround.
Advanced(c) == [c EXCEPT !.finished = @ \cup {c.sr}, !.sr = NextSubround(c.sr)]

\* A node that is well stays well when the check of its subround takes it on.
LEMMA AdvanceOK ==
  ASSUME Counting, BnInv, UNCHANGED plan, NEW n \in GroupNodes,
         NEW c \in States, NEW s \in Signers, NEW d \in Nat \ {0},
         c.round = bn[n].round, c.sr \notin {"none", "end"}, ~c.canceled, CheckHolds(n, c),
         NodeOK(n, c, s, d)'
  PROVE  /\ Advanced(c) \in States /\ NodeOK(n, Advanced(c), s, d)'
         /\ Advanced(c).round = c.round /\ Advanced(c).done = c.done
         /\ c.sr \in Late => Advanced(c).sr \in Late
         /\ c.sr = "signature" => c.done["bitmap"] \subseteq c.done["signature"]
<1> DEFINE e == Advanced(c)
<1>1. c.sr \in {"block", "commHash", "bitmap", "commitment", "signature"}
  BY Zenon DEF States, Subrounds, Late
<1>2. /\ e.round = c.round /\ e.canceled = c.canceled /\ e.data = c.data /\ e.done = c.done
      /\ e.headerBitmap = c.headerBitmap /\ e.finished = c.finished \cup {c.sr}
      /\ e.sr = NextSubround(c.sr) /\ e \in States
  BY <1>1, SubroundOrder, Zenon DEF Advanced, States, Subrounds, Late
<1>3. /\ c.sr = "block" => e.sr = "commHash" /\ c.data # 0
      /\ c.sr = "commHash" => e.sr = "bitmap" /\ doCommitmentHashConsensusCheck(n, c)
      /\ c.sr = "bitmap" => e.sr = "commitment" /\ isBitmapReceived(c)
      /\ c.sr = "commitment" => e.sr = "signature"
      /\ c.sr = "signature" => e.sr = "end" /\ signaturesCollected(c)
  BY <1>1, <1>2, SubroundOrder, Zenon DEF CheckHolds
<1> HIDE DEF e
<1>4. pbftThreshold' = pbftThreshold /\ GroupNodes' = GroupNodes
  BY Zenon DEF pbftThreshold, GroupNodes
<1>5. Follows(n, e)'
  BY <1>1, <1>2, <1>3, <1>4 DEF NodeOK, Follows, Late, signaturesCollected, Covered, isBitmapReceived
<1>6. OwnSecret(n, e, s, d)'
  BY <1>1, <1>2, <1>3 DEF NodeOK, OwnSecret
<1>7. SharesMade(e, s)'
  BY <1>2, Zenon DEF NodeOK, SharesMade
<1>8. Leads(n, c) <=> IsSelfLeader(n)
  BY Zenon DEF Leads, IsSelfLeader
<1>9. BitmapHeld(n, e)'
  <2>1. BitmapHeld(n, c)'
    BY Zenon DEF NodeOK
  <2>2. Leads(n, e)' <=> Leads(n, c)'
    BY <1>2, Zenon DEF Leads
  <2>3. e.sr \notin Late => c.sr \notin Late
    BY <1>1, <1>3, Zenon DEF Late
  <2> QED BY <1>2, <2>1, <2>2, <2>3 DEF BitmapHeld
<1>10. Hashed(n, e, s)'
  <2>1. Hashed(n, c, s)' /\ BitmapHeld(n, c)'
    BY Zenon DEF NodeOK
  <2>2. /\ Leads(n, e)' <=> Leads(n, c)
        /\ Leads(n, c)' <=> Leads(n, c)
    BY <1>2, Zenon DEF Leads
  <2>3. CASE c.sr \in {"bitmap"} \cup Late
    BY <1>2, <1>4, <2>1, <2>2, <2>3 DEF Hashed, isCommitmentHashReceived
  <2>4. CASE c.sr = "block"
    BY <1>2, <1>3, <2>1, <2>4 DEF Hashed, Late
  <2>5. CASE c.sr = "commHash"
    <3>1. c.done \in [Jobs -> SUBSET GroupNodes]
      BY Zenon DEF States
    <3>2. c.done["commHash"] \in SUBSET GroupNodes /\ c.done["bitmap"] \in SUBSET GroupNodes
      BY <3>1, Zenon DEF Jobs
    <3>3. plan \in Plans
      BY Zenon DEF BnInv, BnTypes
    <3>4. \/ isCommitmentHashReceived(c, CommitmentHashThreshold(n))
          \/ commitmentHashesCollected(c)
      BY <1>3, <2>5 DEF doCommitmentHashConsensusCheck
    <3>5. CASE Leads(n, c)
      <4>1. c.done["bitmap"] = {}
        BY <2>1, <2>2, <2>5, <3>5 DEF BitmapHeld, Late
      <4>2. ~commitmentHashesCollected(c)
        BY <3>3, <4>1, GroupFacts DEF commitmentHashesCollected, Covered, Counting
      <4>3. isCommitmentHashReceived(c, pbftThreshold)
        BY <1>8, <3>4, <3>5, <4>2, Zenon DEF CommitmentHashThreshold
      <4> QED BY <1>2, <1>4, <2>1, <2>2, <3>5, <4>1, <4>3 DEF Hashed, isCommitmentHashReceived
    <3>6. CASE ~Leads(n, c)
      <4>1. CASE commitmentHashesCollected(c)
        <5>1. c.done["bitmap"] # {} /\ c.done["bitmap"] \subseteq c.done["commHash"]
          BY <3>2, <3>3, <4>1, NonEmptyQuorum DEF commitmentHashesCollected, Covered
        <5> QED BY <1>2, <1>4, <2>1, <2>2, <3>6, <5>1, Zenon DEF Hashed
      <4>2. CASE isCommitmentHashReceived(c, CommitmentHashThreshold(n))
        <5>1. c.done["commHash"] = GroupNodes
          BY <1>8, <3>2, <3>3, <3>6, <4>2, WholeGroup DEF CommitmentHashThreshold, isCommitmentHashReceived
        <5> QED BY <1>2, <1>4, <2>1, <2>2, <3>6, <5>1 DEF Hashed
      <4> QED BY <3>4, <4>1, <4>2, Zenon
    <3> QED BY <3>5, <3>6
  <2> QED BY <1>1, <2>3, <2>4, <2>5, Zenon DEF Late
<1>11. NodeOK(n, e, s, d)'
  BY <1>5, <1>6, <1>7, <1>9, <1>10, Zenon DEF NodeOK
<1> QED BY <1>1, <1>2, <1>3, <1>11, Zenon DEF e, Late, signaturesCollected, Covered

\* DoWork after a job or a signal: the node goes on or waits.
LEMMA WorkOnNode ==
  ASSUME Counting, BnInv, UNCHANGED plan, NEW n \in GroupNodes,
         NEW c \in States, NEW s \in Signers, NEW d \in Nat \ {0},
         c.round = bn[n].round, c.sr \notin {"none", "end"}, NodeOK(n, c, s, d)', WorkOn(n, c)
  PROVE  \E e \in States, w \in BOOLEAN :
           /\ bn' = [bn EXCEPT ![n] = e] /\ waiting' = [waiting EXCEPT ![n] = w]
           /\ NodeOK(n, e, s, d)' /\ e.round = c.round /\ e.done = c.done
           /\ c.sr \in Late => e.sr \in Late
           /\ e.sr = "end" => ~w
           /\ c.sr = "signature" /\ n \in c.done["bitmap"] => Spent(n, e, w)
<1>1. CASE ~c.canceled /\ CheckHolds(n, c)
  <2>1. bn' = [bn EXCEPT ![n] = Advanced(c)] /\ waiting' = [waiting EXCEPT ![n] = FALSE]
    BY <1>1, Zenon DEF WorkOn, Advanced
  <2>2. c.sr = "signature" /\ n \in c.done["bitmap"] => Spent(n, Advanced(c), FALSE)
    BY <1>1, AdvanceOK, Zenon DEF Spent
  <2> QED BY <1>1, <2>1, <2>2, AdvanceOK, Zenon
<1>2. CASE ~(~c.canceled /\ CheckHolds(n, c))
  <2>1. bn' = [bn EXCEPT ![n] = c] /\ waiting' = [waiting EXCEPT ![n] = TRUE]
    BY <1>2, Zenon DEF WorkOn
  <2>2. c.sr = "signature" /\ n \in c.done["bitmap"] => Spent(n, c, TRUE)
    BY Zenon DEF Spent
  <2> QED BY <2>1, <2>2, Zenon
<1> QED BY <1>1, <1>2, Zenon

-----------------------------------------------------------------------------
(* The round: its end and its start.                                       *)

LEMMA ResetOK ==
  ASSUME plan \in Plans, NEW n \in GroupNodes, NEW old
  PROVE  /\ Reset(old, Group(plan), n) \in Signers
         /\ Reset(old, Group(plan), n).self = n
         /\ Reset(old, Group(plan), n).commSecret = NoPoint
         /\ Reset(old, Group(plan), n).commitments[n] = NoPoint
         /\ \A m \in GroupNodes : Reset(old, Group(plan), n).sigShares[m] = NoShare
<1>1. Range(Group(plan)) = GroupNodes
  BY GroupFacts, Zenon DEF Range, Group, GroupNodes
<1>2. NoPoint \in Points
  BY Zenon DEF NoPoint, Points
<1>3. NoSum \in Sums
  BY <1>2 DEF NoSum, Sums
<1>4. NoShare \in Shares
  BY <1>2, <1>3, Zenon DEF NoShare, Shares
<1> QED BY <1>1, <1>2, <1>3, <1>4 DEF Reset, Signers

\* A node without a round, or at the start of one, is well.
LEMMA FreshNode ==
  ASSUME plan \in Plans, UNCHANGED plan, NEW n \in GroupNodes, NEW s, NEW d \in Nat \ {0},
         s.self = n, s.commSecret = NoPoint, s.commitments[n] = NoPoint,
         \A m \in GroupNodes : s.sigShares[m] = NoShare,
         NEW c \in States, c.data = 0, c.sr \in {"none", "block"}, c.done = [j \in Jobs |-> {}],
         c.canceled => ~Leads(n, c)
  PROVE  NodeOK(n, c, s, d)'
<1>1. \A j \in Jobs : c.done[j] = {}
  BY Zenon
<1>2. /\ c.done["commHash"] = {} /\ c.done["bitmap"] = {}
      /\ c.done["commitment"] = {} /\ c.done["signature"] = {}
  BY <1>1, Zenon DEF Jobs
<1>3. c.sr \notin {"bitmap"} \cup Late /\ c.sr # "end"
  BY Zenon DEF Late
<1>4. GroupNodes' = GroupNodes
  BY Zenon DEF GroupNodes
<1> QED BY <1>2, <1>3, <1>4, Zenon DEF NodeOK, Follows, OwnSecret, Hashed, BitmapHeld, SharesMade, Leads

\* Nothing was made and no bitmap was sent.
LEMMA SameShares ==
  ASSUME BnInv, UNCHANGED created PROVE SecretUsedOnce'
BY Zenon DEF BnInv, SecretUsedOnce

LEMMA SameBitmaps ==
  ASSUME BnInv, bnMsgs \subseteq bnMsgs', \A m \in bnMsgs' \ bnMsgs : m.type # "bitmap"
  PROVE  OneBitmap'
<1>1. \A m \in bnMsgs' : m.type = "bitmap" => m \in bnMsgs
  BY Zenon
<1>2. \A m : Payload(m)' = Payload(m)
  BY Zenon DEF Payload
<1> QED BY <1>1, <1>2 DEF BnInv, OneBitmap, Payload

LEMMA OutOfRoundOK ==
  ASSUME BnInv, NEW n \in GroupNodes, OutOfRound(n), UNCHANGED <<plan, bnMsgs, created, drawn>>
  PROVE  BnInv'
<1>1. plan \in Plans /\ bn[n] \in States /\ drawn[n] \in Nat \ {0} /\ NodeOK(n, bn[n], signer[n], drawn[n])
  BY Zenon DEF BnInv, BnTypes
<1>2. PICK c : c = [NotInRound EXCEPT !.round = bn[n].round, !.canceled = bn[n].canceled]
  BY Zenon
<1>3. c \in States /\ c.round = bn[n].round /\ c.canceled = bn[n].canceled
  BY <1>1, <1>2, Zenon DEF NotInRound, States, Subrounds, Jobs
<1>4. c.data = 0 /\ c.sr = "none" /\ c.done = [j \in Jobs |-> {}]
  BY <1>2, Zenon DEF NotInRound
<1>5. PICK s \in Signers : s = Reset(signer[n], Group(plan), n)
  BY <1>1, ResetOK, Zenon
<1>6. /\ s.self = n /\ s.commSecret = NoPoint /\ s.commitments[n] = NoPoint
      /\ \A m \in GroupNodes : s.sigShares[m] = NoShare
  BY <1>1, <1>5, ResetOK
<1>7. PICK d \in Nat \ {0} : d = drawn[n]
  BY <1>1, Zenon
<1>8. c.canceled => ~Leads(n, c)
  BY <1>1, <1>3, Zenon DEF NodeOK, BitmapHeld, Leads
<1>9. NodeOK(n, c, s, d)'
  BY <1>1, <1>3, <1>4, <1>6, <1>8, FreshNode, Zenon
<1>10. /\ bn' = [bn EXCEPT ![n] = c] /\ signer' = [signer EXCEPT ![n] = s]
       /\ waiting' = [waiting EXCEPT ![n] = FALSE] /\ drawn' = [drawn EXCEPT ![n] = d]
  BY <1>2, <1>5, <1>7 DEF OutOfRound, BnInv, BnTypes
<1>11. c.round >= bn[n].round /\ d >= drawn[n]
  BY <1>1, <1>3, <1>7, GroupFacts DEF States, PlanRounds
<1>12. Spent(n, c, FALSE)
  BY <1>4, Zenon DEF Spent
<1>13. created' \subseteq Creations
  BY Zenon DEF BnInv, BnTypes
<1> QED BY <1>3, <1>4, <1>9, <1>10, <1>11, <1>12, <1>13, StepOfNode, SameShares, SameBitmaps, Zenon

LEMMA StartRoundOK ==
  ASSUME BnInv, NEW n \in GroupNodes, StartRound(n)
  PROVE  BnInv'
<1>1. plan \in Plans /\ bn[n] \in States /\ drawn[n] \in Nat \ {0} /\ UNCHANGED plan
  BY Zenon DEF BnInv, BnTypes, StartRound
<1>2. PICK r \in bn[n].round + 1 .. plan.rounds :
        bn' = [bn EXCEPT ![n] = [NotInRound EXCEPT !.round = r, !.sr = "block"]]
  BY Zenon DEF StartRound
<1>3. r \in PlanRounds /\ r > bn[n].round /\ bn[n].round \in Nat
  BY <1>1, GroupFacts DEF States, PlanRounds
<1>4. PICK c : c = [NotInRound EXCEPT !.round = r, !.sr = "block"]
  BY Zenon
<1>5. /\ c \in States /\ c.round = r /\ ~c.canceled /\ c.data = 0 /\ c.sr = "block"
      /\ c.done = [j \in Jobs |-> {}]
  BY <1>3, <1>4, Zenon DEF NotInRound, States, Subrounds, Jobs
<1>6. PICK s \in Signers : s = Reset(signer[n], Group(plan), n)
  BY <1>1, ResetOK, Zenon
<1>7. /\ s.self = n /\ s.commSecret = NoPoint /\ s.commitments[n] = NoPoint
      /\ \A m \in GroupNodes : s.sigShares[m] = NoShare
  BY <1>1, <1>6, ResetOK
<1>8. PICK d \in Nat \ {0} : d = drawn[n]
  BY <1>1, Zenon
<1>9. NodeOK(n, c, s, d)'
  BY <1>1, <1>5, <1>7, FreshNode, Zenon
<1>10. /\ bn' = [bn EXCEPT ![n] = c] /\ signer' = [signer EXCEPT ![n] = s]
       /\ waiting' = [waiting EXCEPT ![n] = FALSE] /\ drawn' = [drawn EXCEPT ![n] = d]
       /\ UNCHANGED <<bnMsgs, created>>
  BY <1>2, <1>4, <1>6, <1>8, Zenon DEF StartRound, BnInv, BnTypes
<1>11. \A a \in created : a.who = n => a.round # c.round /\ a.share.secret # s.commSecret
  <2> SUFFICES ASSUME NEW a \in created, a.who = n
               PROVE  a.round # c.round /\ a.share.secret # s.commSecret
    BY Zenon
  <2>1. Accounted(a) /\ a.round \in Nat
    BY <1>1, GroupFacts DEF BnInv, BnTypes, Creations, PlanRounds
  <2>2. a.round # c.round
    BY <1>3, <1>5, <2>1 DEF Accounted
  <2>3. PICK k \in 1 .. drawn[n] - 1 : a.share.secret = <<n, k>>
    BY <2>1, Zenon DEF Accounted
  <2>4. n >= 1
    BY <1>1, GroupFacts DEF GroupNodes
  <2>5. a.share.secret # NoPoint
    BY <1>1, <2>3, <2>4 DEF NoPoint
  <2> QED BY <1>7, <2>2, <2>5
<1>12. c.round >= bn[n].round /\ c.round # bn[n].round /\ d >= drawn[n]
  BY <1>1, <1>3, <1>5, <1>8, GroupFacts DEF PlanRounds
<1>13. created' \subseteq Creations
  BY <1>10, Zenon DEF BnInv, BnTypes
<1>14. SecretUsedOnce' /\ OneBitmap'
  BY <1>10, SameShares, SameBitmaps, Zenon
<1>15. \A a \in created : a.who = n /\ (a.round = c.round \/ a.share.secret = s.commSecret) => Spent(n, c, FALSE)
  BY <1>11, Zenon
<1>16. /\ bnMsgs \subseteq bnMsgs' /\ created \subseteq created'
       /\ bnMsgs' \ bnMsgs = {} /\ created' \ created = {}
  BY <1>10, Zenon
<1> QED BY <1>1, <1>5, <1>9, <1>10, <1>12, <1>13, <1>14, <1>15, <1>16, StepOfNode, Zenon

-----------------------------------------------------------------------------
(* The jobs and the handlers.                                              *)

\* A job or a handler that makes no share and sends no bitmap: the node reaches a
\* state that is well, and goes on from there or waits.
WorkedOn(n, c, s, d) ==
  /\ UNCHANGED <<plan, created>> /\ c \in States /\ s \in Signers /\ d \in Nat \ {0}
  /\ bn[n].sr # "none" /\ c.sr = bn[n].sr /\ c.round = bn[n].round
  /\ \A j \in Jobs : bn[n].done[j] \subseteq c.done[j]
  /\ NodeOK(n, c, s, d)'
  /\ \/ WorkOn(n, c) /\ c.sr # "end"
     \/ bn' = [bn EXCEPT ![n] = c] /\ UNCHANGED waiting /\ ~waiting[n]
  /\ signer' = [signer EXCEPT ![n] = s] /\ drawn' = [drawn EXCEPT ![n] = d] /\ d >= drawn[n]
  /\ \A a \in created : a.who = n /\ a.share.secret = s.commSecret => s.commSecret = signer[n].commSecret
  /\ bnMsgs \subseteq bnMsgs' /\ \A m \in bnMsgs' \ bnMsgs : m.type # "bitmap" /\ Sound(m)'

LEMMA WorkStep ==
  ASSUME Counting, BnInv, NEW n \in GroupNodes, NEW c, NEW s, NEW d, WorkedOn(n, c, s, d)
  PROVE  BnInv'
<1> USE DEF WorkedOn
<1>1. /\ waiting \in [GroupNodes -> BOOLEAN] /\ bn[n].round \in Nat /\ created \subseteq Creations
      /\ bn[n].sr = "end" => ~waiting[n]
  BY GroupFacts DEF BnInv, BnTypes, States, PlanRounds, EndsAtOnce
<1>2. PICK e \in States, w \in BOOLEAN :
        /\ bn' = [bn EXCEPT ![n] = e] /\ waiting' = [waiting EXCEPT ![n] = w]
        /\ NodeOK(n, e, s, d)' /\ e.round = c.round /\ e.done = c.done
        /\ c.sr \in Late => e.sr \in Late
        /\ e.sr = "end" => ~w
        /\ waiting[n] /\ c.sr = "signature" /\ n \in c.done["bitmap"] => Spent(n, e, w)
  <2>1. CASE WorkOn(n, c) /\ c.sr # "end"
    BY <2>1, WorkOnNode
  <2>2. CASE bn' = [bn EXCEPT ![n] = c] /\ UNCHANGED waiting /\ ~waiting[n]
    <3>1. waiting' = [waiting EXCEPT ![n] = FALSE]
      BY <1>1, <2>2
    <3> QED BY <2>2, <3>1, Zenon
  <2> QED BY <2>1, <2>2, Zenon
<1>3. Spent(n, bn[n], waiting[n]) => Spent(n, e, w)
  <2>1. bn[n].done["signature"] \subseteq e.done["signature"] /\ bn[n].done["bitmap"] \subseteq c.done["bitmap"]
    BY <1>2, Zenon DEF Jobs
  <2> QED BY <1>2, <2>1, Zenon DEF Spent
<1>4. \A a \in created : a.who = n /\ (a.round = e.round \/ a.share.secret = s.commSecret) => Spent(n, e, w)
  BY <1>2, <1>3 DEF BnInv, Accounted
<1>5. SecretUsedOnce' /\ OneBitmap'
  BY SameShares, SameBitmaps, Zenon
<1>6. e.round = bn[n].round /\ e.round >= bn[n].round
  BY <1>1, <1>2
<1>7. bn[n].sr \in Late \cup {"none"} => e.sr \in Late \cup {"none"}
  BY <1>2, Zenon
<1>8. /\ created \subseteq created' /\ created' \subseteq Creations /\ created' \ created = {}
      /\ UNCHANGED plan /\ \A m \in bnMsgs' \ bnMsgs : Sound(m)'
  BY <1>1, Zenon
<1>9. /\ \A a \in created' \ created : Accounted(a)'
      /\ e.round = bn[n].round /\ bn[n].sr \in Late \cup {"none"} => e.sr \in Late \cup {"none"}
  BY <1>7, <1>8, Zenon
<1>10. /\ bn' = [bn EXCEPT ![n] = e] /\ waiting' = [waiting EXCEPT ![n] = w]
       /\ NodeOK(n, e, s, d)' /\ (e.sr = "end" => ~w)
  BY <1>2, Zenon
<1>11. CASE w = TRUE
  <2>1. /\ \A a \in created : a.who = n /\ (a.round = e.round \/ a.share.secret = s.commSecret) => Spent(n, e, TRUE)
        /\ waiting' = [waiting EXCEPT ![n] = TRUE] /\ e.sr # "end"
    BY <1>4, <1>10, <1>11, Zenon
  <2> QED BY <1>5, <1>6, <1>8, <1>9, <1>10, <2>1, StepOfNode, Zenon
<1>12. CASE w = FALSE
  <2>1. /\ \A a \in created : a.who = n /\ (a.round = e.round \/ a.share.secret = s.commSecret) => Spent(n, e, FALSE)
        /\ waiting' = [waiting EXCEPT ![n] = FALSE]
    BY <1>4, <1>10, <1>12, Zenon
  <2> QED BY <1>5, <1>6, <1>8, <1>9, <1>10, <2>1, StepOfNode, Zenon
<1> QED BY <1>11, <1>12, Zenon

\* A job leaves the signer as it is.
LEMMA SameSigner ==
  ASSUME BnInv, NEW n \in GroupNodes
  PROVE  /\ plan \in Plans /\ bn[n] \in States /\ signer[n] \in Signers /\ drawn[n] \in Nat \ {0}
         /\ signer = [signer EXCEPT ![n] = signer[n]] /\ drawn = [drawn EXCEPT ![n] = drawn[n]]
         /\ NodeOK(n, bn[n], signer[n], drawn[n])
BY Zenon DEF BnInv, BnTypes

\* A node that is well stays well while others send and sign.
LEMMA StillOK ==
  ASSUME NEW n, NEW c, NEW s, NEW d, UNCHANGED plan, bnMsgs \subseteq bnMsgs', created \subseteq created',
         NodeOK(n, c, s, d)
  PROVE  NodeOK(n, c, s, d)'
<1>1. GroupNodes' = GroupNodes /\ pbftThreshold' = pbftThreshold /\ Leads(n, c)' = Leads(n, c)
  BY Zenon DEF GroupNodes, pbftThreshold, Leads
<1>2. (Follows(n, c) /\ OwnSecret(n, c, s, d) /\ Hashed(n, c, s))'
  BY <1>1 DEF NodeOK, Follows, OwnSecret, Hashed, isBitmapReceived, isCommitmentHashReceived, Leads
<1>3. BitmapHeld(n, c)'
  BY <1>1, Zenon DEF NodeOK, BitmapHeld, Leads, Payload
<1>4. SharesMade(c, s)'
  BY <1>1, Zenon DEF NodeOK, SharesMade
<1> QED BY <1>2, <1>3, <1>4 DEF NodeOK

LEMMA ProcessBlockOK ==
  ASSUME Counting, BnInv, NEW n \in GroupNodes, ProcessBlock(n)
  PROVE  BnInv'
<1>1. PICK s, d, b : s = signer[n] /\ d = drawn[n] /\ b = bn[n]
  BY Zenon
<1>2. /\ plan \in Plans /\ b \in States /\ s \in Signers /\ d \in Nat \ {0} /\ NodeOK(n, b, s, d)
      /\ b.sr = "block" /\ UNCHANGED <<plan, signer, created, drawn>>
      /\ signer' = [signer EXCEPT ![n] = s] /\ drawn' = [drawn EXCEPT ![n] = d]
  BY <1>1, SameSigner, Zenon DEF ProcessBlock, InSubround
<1>3. PICK c : c = [b EXCEPT !.data = b.round]
  BY Zenon
<1>4. b.round \in Nat
  BY <1>2, GroupFacts DEF States, PlanRounds
<1>5. /\ c \in States /\ c.round = b.round /\ c.sr = b.sr /\ c.done = b.done /\ c.canceled = b.canceled
      /\ c.finished = b.finished /\ c.headerBitmap = b.headerBitmap /\ c.data = b.round
  BY <1>2, <1>3, <1>4, Zenon DEF States
<1>6. NodeOK(n, c, s, d)
  BY <1>2, <1>5, Zenon DEF NodeOK, Follows, OwnSecret, Hashed, BitmapHeld, SharesMade, Leads, Late
<1>7. WorkOn(n, c)
  BY <1>1, <1>3 DEF ProcessBlock
<1>8. /\ bnMsgs \subseteq bnMsgs'
      /\ \A m \in bnMsgs' \ bnMsgs : m.type = "block" /\ m.from = LeaderOf(plan, b.round)
  BY <1>1 DEF ProcessBlock
<1>9. \A m \in bnMsgs' \ bnMsgs : m.type # "bitmap" /\ Sound(m)'
  <2>1. LeaderOf(plan, b.round) \in GroupNodes'
    BY <1>2, GroupFacts, Zenon DEF States, GroupNodes
  <2> QED BY <1>2, <1>8, <2>1, Zenon DEF Sound
<1>10. NodeOK(n, c, s, d)'
  BY <1>2, <1>6, <1>8, StillOK
<1>11. /\ bn[n].sr # "none" /\ c.sr = bn[n].sr /\ c.sr # "end" /\ c.round = bn[n].round /\ d >= drawn[n]
       /\ \A j \in Jobs : bn[n].done[j] \subseteq c.done[j]
  BY <1>1, <1>2, <1>5
<1>12. WorkedOn(n, c, s, d)
  BY <1>1, <1>2, <1>5, <1>7, <1>8, <1>9, <1>10, <1>11, Zenon DEF WorkedOn
<1> QED BY <1>12, WorkStep, Zenon

LEMMA NoBlockOK ==
  ASSUME BnInv, NEW n \in GroupNodes, NoBlock(n)
  PROVE  BnInv'
<1>1. PICK s, d, b : s = signer[n] /\ d = drawn[n] /\ b = bn[n]
  OBVIOUS
<1>2. /\ plan \in Plans /\ b \in States /\ s \in Signers /\ d \in Nat \ {0} /\ NodeOK(n, b, s, d)
      /\ b.sr = "block" /\ UNCHANGED <<plan, bn, signer, bnMsgs, created, drawn>>
      /\ signer' = [signer EXCEPT ![n] = s] /\ drawn' = [drawn EXCEPT ![n] = d]
      /\ bn' = [bn EXCEPT ![n] = b] /\ waiting' = [waiting EXCEPT ![n] = TRUE] /\ ~waiting[n]
  BY <1>1, SameSigner DEF NoBlock, InSubround, BnInv, BnTypes
<1>3. NodeOK(n, b, s, d)'
  BY <1>2, StillOK, Zenon
<1>4. \A a \in created : a.who = n /\ (a.round = b.round \/ a.share.secret = s.commSecret) => Spent(n, b, TRUE)
  <2>1. Spent(n, b, waiting[n]) => Spent(n, b, TRUE)
    BY <1>2, Zenon DEF Spent
  <2> QED BY <1>1, <2>1, Zenon DEF BnInv, Accounted
<1>5. SecretUsedOnce' /\ OneBitmap'
  BY <1>2, SameShares, SameBitmaps
<1>6. /\ b.round = bn[n].round /\ b.round >= bn[n].round /\ d >= drawn[n]
      /\ created' \subseteq Creations /\ created' \ created = {} /\ bnMsgs' \ bnMsgs = {}
      /\ created \subseteq created' /\ bnMsgs \subseteq bnMsgs'
  BY <1>1, <1>2, GroupFacts DEF BnInv, BnTypes, States, PlanRounds
<1>7. /\ b.sr # "end"
      /\ b.round = bn[n].round /\ bn[n].sr \in Late \cup {"none"} => b.sr \in Late \cup {"none"}
  BY <1>1, <1>2, Zenon
<1> QED BY <1>2, <1>3, <1>4, <1>5, <1>6, <1>7, StepOfNode, Zenon

\* SetJobDone.
AddDone(b, j, S) == [b EXCEPT !.done[j] = @ \cup S]

LEMMA MarkOK ==
  ASSUME NEW b \in States, NEW j \in Jobs, NEW S \in SUBSET GroupNodes, NEW c, c = AddDone(b, j, S)
  PROVE  /\ c \in States /\ c.round = b.round /\ c.sr = b.sr /\ c.canceled = b.canceled /\ c.data = b.data
         /\ c.finished = b.finished /\ c.headerBitmap = b.headerBitmap
         /\ c.done[j] = b.done[j] \cup S /\ \A i \in Jobs \ {j} : c.done[i] = b.done[i]
         /\ \A i \in Jobs : b.done[i] \subseteq c.done[i]
<1>1. b.done \in [Jobs -> SUBSET GroupNodes]
  BY Zenon DEF States
<1>2. c.done = [b.done EXCEPT ![j] = @ \cup S]
  BY Zenon DEF States, AddDone
<1>3. /\ c.done \in [Jobs -> SUBSET GroupNodes] /\ c.done[j] = b.done[j] \cup S
      /\ \A i \in Jobs \ {j} : c.done[i] = b.done[i]
  BY <1>1, <1>2, Zenon
<1>4. /\ c.round = b.round /\ c.sr = b.sr /\ c.canceled = b.canceled /\ c.data = b.data
      /\ c.finished = b.finished /\ c.headerBitmap = b.headerBitmap
      /\ c = [round |-> b.round, sr |-> b.sr, canceled |-> b.canceled, data |-> b.data,
              finished |-> b.finished, done |-> c.done, headerBitmap |-> b.headerBitmap]
  BY Zenon DEF States, AddDone
<1> QED BY <1>3, <1>4, Zenon DEF States

\* What a node broadcasts.
LEMMA BroadcastFacts ==
  ASSUME NEW n, NEW type, NEW body, Broadcast(n, type, body)
  PROVE  /\ bnMsgs \subseteq bnMsgs'
         /\ \A m \in bnMsgs' \ bnMsgs :
              m.type = type /\ m.from = n /\ m.round = bn[n].round /\ Payload(m) = body
<1>1. PICK x : x = [type |-> type, from |-> n, round |-> bn[n].round, data |-> bn[n].data, body |-> <<type, body>>]
  BY Zenon
<1>2. bnMsgs' = bnMsgs \cup {x}
  BY <1>1, Zenon DEF Broadcast
<1>3. x.type = type /\ x.from = n /\ x.round = bn[n].round /\ Payload(x) = body
  BY <1>1 DEF Payload
<1> QED BY <1>2, <1>3, Zenon

LEMMA SendFacts ==
  ASSUME NEW n, NEW type, NEW body, NEW sent \in BOOLEAN, SendIf(sent, n, type, body)
  PROVE  /\ bnMsgs \subseteq bnMsgs'
         /\ \A m \in bnMsgs' \ bnMsgs :
              m.type = type /\ m.from = n /\ m.round = bn[n].round /\ Payload(m) = body
<1>1. CASE sent = TRUE
  BY <1>1, BroadcastFacts, Zenon DEF SendIf
<1>2. CASE sent = FALSE
  BY <1>2, Zenon DEF SendIf
<1> QED BY <1>1, <1>2, Zenon

\* A node that only marks commitments or signatures, and keeps the secret and the
\* hashes it has, is in order still.
Unmoved(b, c) ==
  /\ c.round = b.round /\ c.sr = b.sr /\ c.canceled = b.canceled /\ c.data = b.data
  /\ c.finished = b.finished /\ c.headerBitmap = b.headerBitmap
  /\ c.done["bitmap"] = b.done["bitmap"] /\ c.done["commHash"] = b.done["commHash"]

SameSecret(n, z, s) ==
  /\ s.self = z.self /\ s.commSecret = z.commSecret /\ s.commitments[n] = z.commitments[n]
  /\ s.commHashes = z.commHashes

LEMMA MarkedOK ==
  ASSUME NEW n, NEW b, NEW c, NEW z, NEW s, NEW d, NodeOK(n, b, z, d), Unmoved(b, c), SameSecret(n, z, s),
         n \in c.done["commitment"] => n \in b.done["commitment"] \/ c.sr \in Late, SharesMade(c, s)
  PROVE  NodeOK(n, c, s, d)
<1>1. Leads(n, c) <=> Leads(n, b)
  BY Zenon DEF Leads, Unmoved
<1>2. Follows(n, c)
  BY <1>1, Zenon DEF NodeOK, Follows, Unmoved, isBitmapReceived
<1>3. OwnSecret(n, c, s, d)
  BY Zenon DEF NodeOK, OwnSecret, Unmoved, SameSecret
<1>4. Hashed(n, c, s)
  BY <1>1, Zenon DEF NodeOK, Hashed, Unmoved, SameSecret, isCommitmentHashReceived
<1>5. BitmapHeld(n, c)
  BY <1>1, Zenon DEF NodeOK, BitmapHeld, Unmoved
<1> QED BY <1>2, <1>3, <1>4, <1>5, Zenon DEF NodeOK

LEMMA CommitmentHashOK ==
  ASSUME Counting, BnInv, NEW n \in GroupNodes, doCommitmentHashJob(n)
  PROVE  BnInv'
<1>1. PICK z, d0, b : z = signer[n] /\ d0 = drawn[n] /\ b = bn[n]
  BY Zenon
<1>2. /\ plan \in Plans /\ b \in States /\ z \in Signers /\ d0 \in Nat \ {0} /\ NodeOK(n, b, z, d0)
      /\ b.sr = "commHash" /\ UNCHANGED <<plan, created>>
  BY <1>1, SameSigner, Zenon DEF doCommitmentHashJob, InSubround
<1>3. PICK f : f = <<n, d0>>
  BY Zenon
<1>4. f \in Points /\ f # NoPoint /\ n \in Nat
  BY <1>2, <1>3, GroupFacts DEF GroupNodes, Points, NoPoint
<1>5. PICK s : s = StoreCommitmentHash(CreateCommitment(z, f), n, f)
  BY Zenon
<1>6. z.self = n
  BY <1>2 DEF NodeOK, OwnSecret
<1>7. /\ s \in Signers /\ s.self = n /\ s.commSecret = f /\ s.commitments[n] = f
      /\ s.commHashes = [z.commHashes EXCEPT ![n] = f] /\ s.sigShares = z.sigShares
  BY <1>2, <1>4, <1>5, <1>6, Zenon DEF StoreCommitmentHash, CreateCommitment, Signers
<1>8. /\ signer' = [signer EXCEPT ![n] = s] /\ drawn' = [drawn EXCEPT ![n] = d0 + 1]
  BY <1>1, <1>3, <1>5 DEF doCommitmentHashJob, genCommitmentHash, freshSecret, HashOf
<1>9. PICK sent \in BOOLEAN :
        SendIf(sent, n, "commHash", f) /\ WorkOn(n, MarkedIf(sent, b, "commHash", n))
  BY <1>1, <1>3, Zenon DEF doCommitmentHashJob, freshSecret, HashOf, Sent
<1>10. PICK c : c = MarkedIf(sent, b, "commHash", n)
  BY Zenon
<1>11. /\ c \in States /\ c.round = b.round /\ c.sr = b.sr /\ c.canceled = b.canceled /\ c.data = b.data
       /\ c.finished = b.finished /\ c.headerBitmap = b.headerBitmap
       /\ c.done["commHash"] \subseteq b.done["commHash"] \cup {n} /\ \A i \in Jobs \ {"commHash"} : c.done[i] = b.done[i]
       /\ \A i \in Jobs : b.done[i] \subseteq c.done[i]
  <2>1. CASE sent = TRUE
    <3>1. c = AddDone(b, "commHash", {n}) /\ "commHash" \in Jobs /\ {n} \in SUBSET GroupNodes
      BY <1>10, <2>1, Zenon DEF MarkedIf, Jobs, AddDone
    <3> QED BY <1>2, <3>1, MarkOK
  <2>2. CASE sent = FALSE
    <3>1. c = b
      BY <1>10, <2>2, Zenon DEF MarkedIf
    <3> QED BY <1>2, <3>1, Zenon
  <2> QED BY <2>1, <2>2, Zenon
<1>12. /\ c.done["bitmap"] = b.done["bitmap"] /\ c.done["commitment"] = b.done["commitment"]
       /\ c.done["signature"] = b.done["signature"]
  BY <1>11, Zenon DEF Jobs
<1>13. NodeOK(n, c, s, d0 + 1)
  <2>1. Follows(n, c) /\ BitmapHeld(n, c)
    BY <1>2, <1>11, <1>12, Zenon DEF NodeOK, Follows, BitmapHeld, Leads, Late
  <2>2. OwnSecret(n, c, s, d0 + 1)
    <3>1. d0 \in 1 .. (d0 + 1) - 1
      BY <1>2
    <3> QED BY <1>2, <1>3, <1>7, <1>11, <3>1 DEF OwnSecret
  <2>3. Hashed(n, c, s)
    <3>1. b.done["commHash"] \subseteq GroupNodes /\ z.commHashes \in [GroupNodes -> Points]
      BY <1>2, Zenon DEF States, Signers, Jobs
    <3>2. \A m \in c.done["commHash"] : s.commHashes[m] # NoPoint
      BY <1>2, <1>4, <1>7, <1>11, <3>1 DEF NodeOK, Hashed
    <3> QED BY <1>2, <1>11, <3>2 DEF Hashed, Late
  <2>4. SharesMade(c, s)
    BY <1>2, <1>7, <1>11, Zenon DEF NodeOK, SharesMade
  <2> QED BY <2>1, <2>2, <2>3, <2>4 DEF NodeOK
<1>14. /\ bnMsgs \subseteq bnMsgs'
       /\ \A m \in bnMsgs' \ bnMsgs : m.type = "commHash" /\ m.from = n /\ Payload(m) = f
  BY <1>9, SendFacts
<1>15. \A m \in bnMsgs' \ bnMsgs : m.type # "bitmap" /\ Sound(m)'
  BY <1>2, <1>4, <1>14 DEF Sound, Payload, GroupNodes
<1>16. PICK d : d = d0 + 1
  BY Zenon
<1>17. d \in Nat \ {0} /\ d >= drawn[n] /\ drawn' = [drawn EXCEPT ![n] = d]
  BY <1>1, <1>2, <1>8, <1>16
<1>18. NodeOK(n, c, s, d)'
  BY <1>2, <1>13, <1>14, <1>16, StillOK
<1>19. \A a \in created : a.who = n /\ a.share.secret = s.commSecret => s.commSecret = signer[n].commSecret
  <2> SUFFICES ASSUME NEW a \in created, a.who = n PROVE a.share.secret # f
    BY <1>7
  <2>1. PICK k \in 1 .. d0 - 1 : a.share.secret = <<n, k>>
    BY <1>1, Zenon DEF BnInv, Accounted
  <2> QED BY <1>2, <1>3, <2>1
<1>20. /\ bn[n].sr # "none" /\ c.sr = bn[n].sr /\ c.sr # "end" /\ c.round = bn[n].round
       /\ \A j \in Jobs : bn[n].done[j] \subseteq c.done[j]
  BY <1>1, <1>2, <1>11
<1>21. \/ WorkOn(n, c) /\ c.sr # "end"
       \/ bn' = [bn EXCEPT ![n] = c] /\ UNCHANGED waiting /\ ~waiting[n]
  BY <1>9, <1>10, <1>20
<1>22. WorkedOn(n, c, s, d)
  BY <1>2, <1>7, <1>8, <1>11, <1>14, <1>15, <1>17, <1>18, <1>19, <1>20, <1>21, Zenon DEF WorkedOn
<1> QED BY <1>22, WorkStep, Zenon

\* A job that has nothing to do.
LEMMA IdleOK ==
  ASSUME Counting, BnInv, NEW n \in GroupNodes, bn[n].sr \notin {"none", "end"}, WorkOn(n, bn[n]),
         UNCHANGED <<plan, signer, bnMsgs, created, drawn>>
  PROVE  BnInv'
<1>1. PICK s, d, c : s = signer[n] /\ d = drawn[n] /\ c = bn[n]
  BY Zenon
<1>2. /\ plan \in Plans /\ c \in States /\ s \in Signers /\ d \in Nat \ {0} /\ NodeOK(n, c, s, d)
      /\ signer' = [signer EXCEPT ![n] = s] /\ drawn' = [drawn EXCEPT ![n] = d]
  BY <1>1, SameSigner, Zenon
<1>3. NodeOK(n, c, s, d)'
  BY <1>2, StillOK
<1>4. /\ d >= drawn[n] /\ WorkOn(n, c) /\ c.sr # "end" /\ c.sr # "none" /\ c.sr = bn[n].sr /\ c.round = bn[n].round
      /\ \A j \in Jobs : bn[n].done[j] \subseteq c.done[j]
      /\ \A a \in created : a.who = n /\ a.share.secret = s.commSecret => s.commSecret = signer[n].commSecret
  BY <1>1, <1>2
<1>5. WorkedOn(n, c, s, d)
  BY <1>2, <1>3, <1>4, Zenon DEF WorkedOn
<1> QED BY <1>5, WorkStep

LEMMA CommitmentOK ==
  ASSUME Counting, BnInv, NEW n \in GroupNodes, doCommitmentJob(n)
  PROVE  BnInv'
<1>1. PICK s, d, b : s = signer[n] /\ d = drawn[n] /\ b = bn[n]
  OBVIOUS
<1>2. /\ plan \in Plans /\ b \in States /\ s \in Signers /\ d \in Nat \ {0} /\ NodeOK(n, b, s, d)
      /\ b.sr = "commitment" /\ UNCHANGED <<plan, signer, created, drawn>>
      /\ signer' = [signer EXCEPT ![n] = s] /\ drawn' = [drawn EXCEPT ![n] = d]
  BY <1>1, SameSigner, Zenon DEF doCommitmentJob, InSubround
<1>3. CASE Broadcast(n, "commitment", signer[n].commitments[n]) /\ WorkOn(n, MarkedIf(TRUE, bn[n], "commitment", n))
  <2>1. PICK c : c = AddDone(b, "commitment", {n})
    BY Zenon
  <2>2. /\ c \in States /\ c.round = b.round /\ c.sr = b.sr /\ c.canceled = b.canceled /\ c.data = b.data
        /\ c.finished = b.finished /\ c.headerBitmap = b.headerBitmap
        /\ \A i \in Jobs \ {"commitment"} : c.done[i] = b.done[i]
        /\ \A i \in Jobs : b.done[i] \subseteq c.done[i]
    <3>1. "commitment" \in Jobs /\ {n} \in SUBSET GroupNodes
      BY Zenon DEF Jobs
    <3> QED BY <1>2, <2>1, <3>1, MarkOK
  <2>3. c.done["bitmap"] = b.done["bitmap"] /\ c.done["commHash"] = b.done["commHash"]
    BY <2>2, Zenon DEF Jobs
  <2>4. NodeOK(n, c, s, d)
    <3>1. Unmoved(b, c)
      BY <2>2, <2>3, Zenon DEF Unmoved
    <3>2. SameSecret(n, s, s)
      BY Zenon DEF SameSecret
    <3>3. c.sr \in Late
      BY <1>2, <2>2, Zenon DEF Late
    <3>4. SharesMade(c, s)
      BY <1>2, <2>2, Zenon DEF NodeOK, SharesMade
    <3> QED BY <1>2, <3>1, <3>2, <3>3, <3>4, MarkedOK, Zenon
  <2>5. /\ bnMsgs \subseteq bnMsgs'
        /\ \A m \in bnMsgs' \ bnMsgs : m.type = "commitment" /\ m.from = n /\ Payload(m) = s.commitments[n]
    BY <1>1, <1>2, <1>3, BroadcastFacts
  <2>6. s.commitments[n] \in Points
    BY <1>2, Zenon DEF Signers
  <2>7. \A m \in bnMsgs' \ bnMsgs : m.type # "bitmap" /\ Sound(m)'
    BY <1>2, <2>5, <2>6 DEF Sound, Payload, GroupNodes
  <2>8. NodeOK(n, c, s, d)'
    BY <1>2, <2>4, <2>5, StillOK
  <2>9. WorkOn(n, c) /\ c.sr # "end"
    BY <1>1, <1>2, <1>3, <2>1, <2>2 DEF MarkedIf, AddDone
  <2>10. /\ d >= drawn[n] /\ c.sr = bn[n].sr /\ c.sr # "none" /\ c.round = bn[n].round
         /\ \A j \in Jobs : bn[n].done[j] \subseteq c.done[j]
         /\ \A a \in created : a.who = n /\ a.share.secret = s.commSecret => s.commSecret = signer[n].commSecret
    BY <1>1, <1>2, <2>2
  <2>11. WorkedOn(n, c, s, d)
    BY <1>2, <2>2, <2>5, <2>7, <2>8, <2>9, <2>10, Zenon DEF WorkedOn
  <2> QED BY <2>11, WorkStep
<1>4. CASE UNCHANGED bnMsgs /\ WorkOn(n, bn[n])
  BY <1>1, <1>2, <1>4, IdleOK, Zenon
<1> QED BY <1>3, <1>4, Zenon DEF doCommitmentJob

\* A handler wakes the work that waits, which is not in the last subround.
LEMMA RecheckWorks ==
  ASSUME BnInv, NEW n \in GroupNodes, NEW c, c.sr = bn[n].sr, Recheck(n, c)
  PROVE  \/ WorkOn(n, c) /\ c.sr # "end"
         \/ bn' = [bn EXCEPT ![n] = c] /\ UNCHANGED waiting /\ ~waiting[n]
BY Zenon DEF BnInv, EndsAtOnce, Recheck

LEMMA ReceivedCommitmentHashOK ==
  ASSUME Counting, BnInv, NEW n \in GroupNodes, NEW m \in bnMsgs, receivedCommitmentHash(n, m),
         UNCHANGED <<plan, bnMsgs, created, drawn>>
  PROVE  BnInv'
<1>1. PICK z, d, b : z = signer[n] /\ d = drawn[n] /\ b = bn[n]
  BY Zenon
<1>2. /\ plan \in Plans /\ b \in States /\ z \in Signers /\ d \in Nat \ {0} /\ NodeOK(n, b, z, d)
      /\ drawn' = [drawn EXCEPT ![n] = d]
  BY <1>1, SameSigner, Zenon
<1>3. /\ b.sr # "none" /\ m.type = "commHash" /\ "commHash" \notin b.finished
      /\ m.from \in GroupNodes /\ Payload(m) \in Points \ {NoPoint}
  BY <1>1, Zenon DEF receivedCommitmentHash, BnHandles, CanProcessReceivedMessage, BnInv, Sound
<1>4. PICK s : s = StoreCommitmentHash(z, m.from, Payload(m))
  BY Zenon
<1>5. /\ s \in Signers /\ s.self = z.self /\ s.commSecret = z.commSecret /\ s.commitments = z.commitments
      /\ s.commHashes = [z.commHashes EXCEPT ![m.from] = Payload(m)] /\ s.sigShares = z.sigShares
  BY <1>2, <1>3, <1>4, Zenon DEF StoreCommitmentHash, Signers
<1>6. PICK c : c = AddDone(b, "commHash", {m.from})
  BY Zenon
<1>7. /\ c \in States /\ c.round = b.round /\ c.sr = b.sr /\ c.canceled = b.canceled /\ c.data = b.data
      /\ c.finished = b.finished /\ c.headerBitmap = b.headerBitmap
      /\ c.done["commHash"] = b.done["commHash"] \cup {m.from}
      /\ \A i \in Jobs \ {"commHash"} : c.done[i] = b.done[i]
      /\ \A i \in Jobs : b.done[i] \subseteq c.done[i]
  <2>1. "commHash" \in Jobs /\ {m.from} \in SUBSET GroupNodes
    BY <1>3, Zenon DEF Jobs
  <2> QED BY <1>2, <1>6, <2>1, MarkOK
<1>8. c.done["bitmap"] = b.done["bitmap"] /\ c.done["commitment"] = b.done["commitment"]
  BY <1>7, Zenon DEF Jobs
<1>9. NodeOK(n, c, s, d)
  <2>1. Follows(n, c) /\ BitmapHeld(n, c)
    BY <1>2, <1>7, <1>8, Zenon DEF NodeOK, Follows, BitmapHeld, Leads, isBitmapReceived
  <2>2. OwnSecret(n, c, s, d) /\ SharesMade(c, s)
    BY <1>2, <1>5, <1>7, Zenon DEF NodeOK, OwnSecret, SharesMade
  <2>3. b.done["commHash"] \subseteq GroupNodes /\ z.commHashes \in [GroupNodes -> Points]
    BY <1>2, Zenon DEF States, Signers, Jobs
  <2>4. \A k \in c.done["commHash"] : s.commHashes[k] # NoPoint
    <3> SUFFICES ASSUME NEW k \in c.done["commHash"] PROVE s.commHashes[k] # NoPoint
      BY Zenon
    <3>1. CASE k = m.from
      BY <1>3, <1>5, <2>3, <3>1, Zenon
    <3>2. CASE k # m.from
      <4>1. k \in b.done["commHash"]
        BY <1>7, <3>2, Zenon
      <4>2. s.commHashes[k] = z.commHashes[k] /\ z.commHashes[k] # NoPoint
        BY <1>2, <1>5, <2>3, <3>2, <4>1, Zenon DEF NodeOK, Hashed
      <4> QED BY <4>2, Zenon
    <3> QED BY <3>1, <3>2, Zenon
  <2>5. c.sr \notin {"bitmap"} \cup Late
    BY <1>2, <1>3, <1>7, Zenon DEF NodeOK, Follows
  <2>6. Hashed(n, c, s)
    BY <2>4, <2>5, Zenon DEF Hashed
  <2> QED BY <2>1, <2>2, <2>6, Zenon DEF NodeOK
<1>10. NodeOK(n, c, s, d)'
  BY <1>9, StillOK, Zenon
<1>11. Recheck(n, c) /\ signer' = [signer EXCEPT ![n] = s]
  BY <1>1, <1>3, <1>4, <1>6 DEF receivedCommitmentHash, Marked, AddDone
<1>12. /\ \/ WorkOn(n, c) /\ c.sr # "end"
          \/ bn' = [bn EXCEPT ![n] = c] /\ UNCHANGED waiting /\ ~waiting[n]
  BY <1>1, <1>7, <1>11, RecheckWorks, Zenon
<1>13. /\ d >= drawn[n] /\ c.sr = bn[n].sr /\ c.sr # "none" /\ c.round = bn[n].round
       /\ \A j \in Jobs : bn[n].done[j] \subseteq c.done[j]
       /\ \A a \in created : a.who = n /\ a.share.secret = s.commSecret => s.commSecret = signer[n].commSecret
  <2>1. d >= drawn[n]
    BY <1>1, <1>2
  <2> QED BY <1>1, <1>3, <1>5, <1>7, <2>1, Zenon
<1>14. WorkedOn(n, c, s, d)
  BY <1>2, <1>5, <1>7, <1>10, <1>11, <1>12, <1>13, Zenon DEF WorkedOn
<1> QED BY <1>14, WorkStep

LEMMA ReceivedBitmapOK ==
  ASSUME Counting, BnInv, NEW n \in GroupNodes, NEW m \in bnMsgs, receivedBitmap(n, m),
         UNCHANGED <<plan, bnMsgs, created, drawn>>
  PROVE  BnInv'
<1>1. PICK s, d, b : s = signer[n] /\ d = drawn[n] /\ b = bn[n]
  BY Zenon
<1>2. /\ plan \in Plans /\ b \in States /\ s \in Signers /\ d \in Nat \ {0} /\ NodeOK(n, b, s, d)
      /\ signer' = [signer EXCEPT ![n] = s] /\ drawn' = [drawn EXCEPT ![n] = d]
  BY <1>1, SameSigner DEF receivedBitmap
<1>3. PICK p : p = Payload(m)
  BY Zenon
<1>4. /\ b.sr # "none" /\ m.type = "bitmap" /\ "bitmap" \notin b.finished /\ ~b.canceled
      /\ m.round = b.round /\ p \subseteq GroupNodes /\ ~Leads(n, b)
  BY <1>1, <1>3, Zenon DEF receivedBitmap, BnHandles, CanProcessReceivedMessage, BnInv, Sound, Leads
<1>5. PICK a : a = AddDone(b, "bitmap", p)
  BY Zenon
<1>6. /\ a \in States /\ a.round = b.round /\ a.sr = b.sr /\ a.canceled = b.canceled /\ a.data = b.data
      /\ a.finished = b.finished /\ a.headerBitmap = b.headerBitmap
      /\ a.done["bitmap"] = b.done["bitmap"] \cup p
      /\ \A i \in Jobs \ {"bitmap"} : a.done[i] = b.done[i]
      /\ \A i \in Jobs : b.done[i] \subseteq a.done[i]
  <2>1. "bitmap" \in Jobs /\ p \in SUBSET GroupNodes
    BY <1>4, Zenon DEF Jobs
  <2>2. b \in States
    BY <1>2, Zenon
  <2> QED BY <1>5, <2>1, <2>2, MarkOK
<1>7. PICK c : c = BitmapTaken(n, a, p)
  BY Zenon
<1>8. /\ c \in States /\ c.round = b.round /\ c.sr = b.sr /\ c.data = b.data /\ c.finished = b.finished /\ c.done = a.done
      /\ ~c.canceled => c.headerBitmap = p
  <2>1. CASE n \in a.done["bitmap"]
    <3>1. c = [a EXCEPT !.headerBitmap = p]
      BY <1>7, <2>1 DEF BitmapTaken, HeaderBitmapOf
    <3> QED BY <1>4, <1>6, <3>1 DEF States
  <2>2. CASE n \notin a.done["bitmap"]
    <3>1. c = [a EXCEPT !.canceled = TRUE]
      BY <1>7, <2>2 DEF BitmapTaken
    <3> QED BY <1>6, <3>1, Zenon DEF States
  <2> QED BY <2>1, <2>2, Zenon
<1>9. b.done["bitmap"] # {} => b.done["bitmap"] = p
  BY <1>2, <1>3, <1>4, Zenon DEF NodeOK, BitmapHeld, BnInv, OneBitmap
<1>10. /\ c.done["bitmap"] = p /\ c.done["commHash"] = b.done["commHash"]
       /\ c.done["commitment"] = b.done["commitment"]
  <2>1. b.done["bitmap"] \cup p = p
    BY <1>9, Zenon
  <2> QED BY <1>6, <1>8, <2>1, Zenon DEF Jobs
<1>11. NodeOK(n, c, s, d)
  <2>1. b.sr \notin Late
    BY <1>2, <1>4, Zenon DEF NodeOK, Follows
  <2>2. Follows(n, c)
    BY <1>2, <1>8, <1>10, <2>1, Zenon DEF NodeOK, Follows, Late
  <2>3. OwnSecret(n, c, s, d) /\ SharesMade(c, s)
    BY <1>2, <1>8, Zenon DEF NodeOK, OwnSecret, SharesMade
  <2>4. ~Leads(n, c)
    BY <1>4, <1>8, Zenon DEF Leads
  <2>5. Hashed(n, c, s)
    BY <1>2, <1>4, <1>8, <1>9, <1>10, <2>4, Zenon DEF NodeOK, Hashed
  <2>6. BitmapHeld(n, c)
    BY <1>3, <1>4, <1>8, <1>10, <2>4, Zenon DEF BitmapHeld
  <2> QED BY <2>2, <2>3, <2>5, <2>6 DEF NodeOK
<1>12. NodeOK(n, c, s, d)'
  BY <1>11, StillOK
<1>13. Recheck(n, c)
  BY <1>1, <1>3, <1>5, <1>7 DEF receivedBitmap, AddDone
<1>14. \/ WorkOn(n, c) /\ c.sr # "end"
       \/ bn' = [bn EXCEPT ![n] = c] /\ UNCHANGED waiting /\ ~waiting[n]
  BY <1>1, <1>8, <1>13, RecheckWorks
<1>15. /\ d >= drawn[n] /\ c.sr = bn[n].sr /\ c.sr # "none" /\ c.round = bn[n].round
       /\ \A j \in Jobs : bn[n].done[j] \subseteq c.done[j]
       /\ \A x \in created : x.who = n /\ x.share.secret = s.commSecret => s.commSecret = signer[n].commSecret
  BY <1>1, <1>2, <1>4, <1>6, <1>8
<1>16. WorkedOn(n, c, s, d)
  BY <1>2, <1>8, <1>12, <1>14, <1>15, Zenon DEF WorkedOn
<1> QED BY <1>16, WorkStep

LEMMA ReceivedCommitmentOK ==
  ASSUME Counting, BnInv, NEW n \in GroupNodes, NEW m \in bnMsgs, receivedCommitment(n, m),
         UNCHANGED <<plan, bnMsgs, created, drawn>>
  PROVE  BnInv'
<1>1. PICK z, d, b : z = signer[n] /\ d = drawn[n] /\ b = bn[n]
  OBVIOUS
<1>2. /\ plan \in Plans /\ b \in States /\ z \in Signers /\ d \in Nat \ {0} /\ NodeOK(n, b, z, d)
      /\ drawn' = [drawn EXCEPT ![n] = d]
  BY <1>1, SameSigner
<1>3. /\ b.sr # "none" /\ m.type = "commitment" /\ m.from \in GroupNodes \ {n} /\ Payload(m) \in Points
  BY <1>1, Zenon DEF receivedCommitment, BnHandles, CanProcessReceivedMessage, BnInv, Sound
<1>4. PICK s : s = StoreCommitment(z, m.from, Payload(m))
  OBVIOUS
<1>5. /\ s \in Signers /\ s.self = z.self /\ s.commSecret = z.commSecret /\ s.commitments[n] = z.commitments[n]
      /\ s.commHashes = z.commHashes /\ s.sigShares = z.sigShares
  BY <1>2, <1>3, <1>4 DEF StoreCommitment, Signers
<1>6. PICK c : c = AddDone(b, "commitment", {m.from})
  BY Zenon
<1>7. /\ c \in States /\ c.round = b.round /\ c.sr = b.sr /\ c.canceled = b.canceled /\ c.data = b.data
      /\ c.finished = b.finished /\ c.headerBitmap = b.headerBitmap
      /\ c.done["commitment"] = b.done["commitment"] \cup {m.from}
      /\ \A i \in Jobs \ {"commitment"} : c.done[i] = b.done[i]
      /\ \A i \in Jobs : b.done[i] \subseteq c.done[i]
  <2>1. "commitment" \in Jobs /\ {m.from} \in SUBSET GroupNodes
    BY <1>3, Zenon DEF Jobs
  <2> QED BY <1>2, <1>6, <2>1, MarkOK
<1>8. c.done["bitmap"] = b.done["bitmap"] /\ c.done["commHash"] = b.done["commHash"]
  BY <1>7, Zenon DEF Jobs
<1>9. NodeOK(n, c, s, d)
  <2>1. Unmoved(b, c) /\ SameSecret(n, z, s)
    BY <1>5, <1>7, <1>8, Zenon DEF Unmoved, SameSecret
  <2>2. n \in c.done["commitment"] => n \in b.done["commitment"]
    BY <1>3, <1>7, Zenon
  <2>3. SharesMade(c, s)
    BY <1>2, <1>5, <1>7, Zenon DEF NodeOK, SharesMade
  <2> QED BY <1>2, <2>1, <2>2, <2>3, MarkedOK, Zenon
<1>10. NodeOK(n, c, s, d)'
  BY <1>9, StillOK
<1>11. Recheck(n, c) /\ signer' = [signer EXCEPT ![n] = s]
  BY <1>1, <1>3, <1>4, <1>6 DEF receivedCommitment, Marked, AddDone
<1>12. \/ WorkOn(n, c) /\ c.sr # "end"
       \/ bn' = [bn EXCEPT ![n] = c] /\ UNCHANGED waiting /\ ~waiting[n]
  BY <1>1, <1>7, <1>11, RecheckWorks, Zenon
<1>13. /\ d >= drawn[n] /\ c.sr = bn[n].sr /\ c.sr # "none" /\ c.round = bn[n].round
       /\ \A j \in Jobs : bn[n].done[j] \subseteq c.done[j]
       /\ \A a \in created : a.who = n /\ a.share.secret = s.commSecret => s.commSecret = signer[n].commSecret
  <2>1. d >= drawn[n]
    BY <1>1, <1>2
  <2> QED BY <1>1, <1>3, <1>5, <1>7, <2>1, Zenon
<1>14. WorkedOn(n, c, s, d)
  BY <1>2, <1>5, <1>7, <1>10, <1>11, <1>12, <1>13, Zenon DEF WorkedOn
<1> QED BY <1>14, WorkStep

LEMMA ReceivedSignatureOK ==
  ASSUME Counting, BnInv, NEW n \in GroupNodes, NEW m \in bnMsgs, receivedSignature(n, m),
         UNCHANGED <<plan, bnMsgs, created, drawn>>
  PROVE  BnInv'
<1>1. PICK z, d, b : z = signer[n] /\ d = drawn[n] /\ b = bn[n]
  BY Zenon
<1>2. /\ plan \in Plans /\ b \in States /\ z \in Signers /\ d \in Nat \ {0} /\ NodeOK(n, b, z, d)
      /\ drawn' = [drawn EXCEPT ![n] = d]
  BY <1>1, SameSigner, Zenon
<1>3. /\ b.sr # "none" /\ m.type = "signature" /\ m.from \in GroupNodes /\ m.round = b.round
      /\ [who |-> m.from, round |-> b.round, share |-> Payload(m)] \in created
  BY <1>1, Zenon DEF receivedSignature, BnHandles, CanProcessReceivedMessage, BnInv, Sound
<1>4. Payload(m) \in Shares
  BY <1>3, Zenon DEF BnInv, BnTypes, Creations
<1>5. PICK s : s = StoreSignatureShare(z, m.from, Payload(m))
  BY Zenon
<1>6. /\ s \in Signers /\ s.self = z.self /\ s.commSecret = z.commSecret /\ s.commitments = z.commitments
      /\ s.commHashes = z.commHashes /\ s.sigShares = [z.sigShares EXCEPT ![m.from] = Payload(m)]
  BY <1>2, <1>3, <1>4, <1>5 DEF StoreSignatureShare, Signers
<1>7. PICK c : c = AddDone(b, "signature", {m.from})
  BY Zenon
<1>8. /\ c \in States /\ c.round = b.round /\ c.sr = b.sr /\ c.canceled = b.canceled /\ c.data = b.data
      /\ c.finished = b.finished /\ c.headerBitmap = b.headerBitmap
      /\ \A i \in Jobs \ {"signature"} : c.done[i] = b.done[i]
      /\ \A i \in Jobs : b.done[i] \subseteq c.done[i]
  <2>1. "signature" \in Jobs /\ {m.from} \in SUBSET GroupNodes
    BY <1>3, Zenon DEF Jobs
  <2> QED BY <1>2, <1>7, <2>1, MarkOK
<1>9. /\ c.done["bitmap"] = b.done["bitmap"] /\ c.done["commHash"] = b.done["commHash"]
      /\ c.done["commitment"] = b.done["commitment"]
  BY <1>8, Zenon DEF Jobs
<1>10. NodeOK(n, c, s, d)
  <2>1. SharesMade(c, s)
    <3>1. z.sigShares \in [GroupNodes -> Shares]
      BY <1>2, Zenon DEF Signers
    <3> QED BY <1>2, <1>3, <1>6, <1>8, <3>1, Zenon DEF NodeOK, SharesMade
  <2>2. Unmoved(b, c) /\ SameSecret(n, z, s)
    BY <1>6, <1>8, <1>9, Zenon DEF Unmoved, SameSecret
  <2> QED BY <1>2, <1>9, <2>1, <2>2, MarkedOK, Zenon
<1>11. NodeOK(n, c, s, d)'
  BY <1>10, StillOK
<1>12. Recheck(n, c) /\ signer' = [signer EXCEPT ![n] = s]
  BY <1>1, <1>3, <1>5, <1>7 DEF receivedSignature, Marked, AddDone
<1>13. \/ WorkOn(n, c) /\ c.sr # "end"
       \/ bn' = [bn EXCEPT ![n] = c] /\ UNCHANGED waiting /\ ~waiting[n]
  BY <1>1, <1>8, <1>12, RecheckWorks
<1>14. /\ d >= drawn[n] /\ c.sr = bn[n].sr /\ c.sr # "none" /\ c.round = bn[n].round
       /\ \A j \in Jobs : bn[n].done[j] \subseteq c.done[j]
       /\ \A a \in created : a.who = n /\ a.share.secret = s.commSecret => s.commSecret = signer[n].commSecret
  <2>1. d \in Nat /\ d = drawn[n]
    BY <1>1, <1>2, Zenon
  <2>2. d >= drawn[n]
    BY <2>1
  <2> QED BY <1>1, <1>3, <1>6, <1>8, <2>2, Zenon
<1>15. WorkedOn(n, c, s, d)
  BY <1>2, <1>6, <1>8, <1>11, <1>12, <1>13, <1>14, Zenon DEF WorkedOn
<1> QED BY <1>15, WorkStep

\* The bitmap's job of the leader: it holds enough hashes, so it goes on at once.
LEMMA BitmapOK ==
  ASSUME Counting, BnInv, NEW n \in GroupNodes, doBitmapJob(n)
  PROVE  BnInv'
<1>1. PICK s, d, b : s = signer[n] /\ d = drawn[n] /\ b = bn[n]
  BY Zenon
<1>2. /\ plan \in Plans /\ b \in States /\ s \in Signers /\ d \in Nat \ {0} /\ NodeOK(n, b, s, d)
      /\ b.sr = "bitmap" /\ ~waiting[n] /\ UNCHANGED plan /\ UNCHANGED <<signer, created, drawn>>
      /\ signer' = [signer EXCEPT ![n] = s] /\ drawn' = [drawn EXCEPT ![n] = d]
  BY <1>1, SameSigner, Zenon DEF doBitmapJob, InSubround
<1>3. CASE UNCHANGED bnMsgs /\ WorkOn(n, bn[n])
  BY <1>1, <1>2, <1>3, IdleOK
<1>4. CASE /\ IsSelfLeader(n)
           /\ Broadcast(n, "bitmap", GenerateBitmap(bn[n], "commHash")) /\ WorkOn(n, LeaderBitmap(bn[n]))
  <2>1. /\ Leads(n, b) /\ ~b.canceled /\ b.data # 0 /\ "commHash" \in b.finished
        /\ b.done["bitmap"] = {} /\ isCommitmentHashReceived(b, pbftThreshold)
    BY <1>1, <1>2, <1>4, Zenon DEF IsSelfLeader, Leads, NodeOK, BitmapHeld, Hashed, Follows, Late
  <2>2. b.done \in [Jobs -> SUBSET GroupNodes] /\ b.round \in Nat /\ b.round \in PlanRounds
    BY <1>2, GroupFacts DEF States, PlanRounds
  <2>3. PICK p : p = b.done["commHash"]
    BY Zenon
  <2>4. p \subseteq GroupNodes /\ GenerateBitmap(b, "commHash") = p
    BY <2>2, <2>3, Zenon DEF GenerateBitmap, Jobs
  <2>5. PICK x : x = LeaderBitmap(b)
    BY Zenon
  <2>6. /\ x \in States /\ x.round = b.round /\ x.sr = "bitmap" /\ ~x.canceled /\ x.data = b.data
        /\ x.finished = b.finished /\ x.headerBitmap = p /\ x.done["bitmap"] = p /\ x.done["commHash"] = p
        /\ x.done["commitment"] = b.done["commitment"] /\ x.done["signature"] = b.done["signature"]
    <3>1. PICK y : y = AddDone(b, "bitmap", p)
      BY Zenon
    <3>2. "bitmap" \in Jobs /\ p \in SUBSET GroupNodes
      BY <2>4, Zenon DEF Jobs
    <3>3. /\ y \in States /\ y.round = b.round /\ y.sr = b.sr /\ y.canceled = b.canceled /\ y.data = b.data
          /\ y.finished = b.finished /\ y.done["bitmap"] = b.done["bitmap"] \cup p
          /\ \A i \in Jobs \ {"bitmap"} : y.done[i] = b.done[i]
      <4>1. b \in States
        BY <1>2, Zenon
      <4> QED BY <3>1, <3>2, <4>1, MarkOK
    <3>4. x = [y EXCEPT !.headerBitmap = p]
      BY <1>2, <2>3, <2>4, <2>5, <3>1, Zenon DEF LeaderBitmap, AddDone, States
    <3>5. /\ y.done["commHash"] = p /\ y.done["commitment"] = b.done["commitment"]
          /\ y.done["signature"] = b.done["signature"] /\ y.done["bitmap"] = p
      BY <2>1, <2>3, <3>3, Zenon DEF Jobs
    <3>6. x \in States /\ x.headerBitmap = p
      BY <2>4, <3>3, <3>4 DEF States
    <3>7. /\ x.round = y.round /\ x.sr = y.sr /\ x.canceled = y.canceled /\ x.data = y.data
          /\ x.finished = y.finished /\ x.done = y.done
      BY <3>3, <3>4 DEF States
    <3> QED BY <1>2, <2>1, <3>3, <3>5, <3>6, <3>7, Zenon
  <2>7. CheckHolds(n, x)
    BY <2>1, <2>3, <2>6 DEF CheckHolds, isBitmapReceived, isCommitmentHashReceived
  <2>8. PICK c : c = Advanced(x)
    BY Zenon
  <2>9. bn' = [bn EXCEPT ![n] = c] /\ waiting' = [waiting EXCEPT ![n] = FALSE]
    BY <1>1, <1>4, <2>5, <2>6, <2>7, <2>8 DEF WorkOn, Advanced
  <2>10. /\ c \in States /\ c.round = b.round /\ c.sr = "commitment" /\ ~c.canceled /\ c.data = b.data
         /\ c.finished = b.finished \cup {"bitmap"} /\ c.headerBitmap = p /\ c.done = x.done
    BY <2>6, <2>8, SubroundOrder, Zenon DEF Advanced, States, Subrounds, Late
  <2>11. NodeOK(n, c, s, d)
    <3>1. Leads(n, c)
      BY <2>1, <2>10 DEF Leads
    <3>2. Follows(n, c)
      BY <1>2, <2>1, <2>10, Zenon DEF NodeOK, Follows, Late
    <3>3. OwnSecret(n, c, s, d) /\ SharesMade(c, s)
      BY <1>2, <2>10, Zenon DEF NodeOK, OwnSecret, SharesMade
    <3>4. Hashed(n, c, s)
      BY <1>2, <2>1, <2>3, <2>6, <2>10, <3>1, Zenon DEF NodeOK, Hashed, isCommitmentHashReceived
    <3>5. BitmapHeld(n, c)
      BY <2>6, <2>10, <3>1, Zenon DEF BitmapHeld, Late
    <3> QED BY <3>2, <3>3, <3>4, <3>5 DEF NodeOK
  <2>12. PICK m : m = [type |-> "bitmap", from |-> n, round |-> b.round, data |-> b.data, body |-> <<"bitmap", p>>]
    BY Zenon
  <2>13. bnMsgs' = bnMsgs \cup {m} /\ Payload(m) = p
    BY <1>1, <1>4, <2>4, <2>12, Zenon DEF Broadcast, Payload
  <2>14. NodeOK(n, c, s, d)'
    BY <1>2, <2>11, <2>13, StillOK
  <2>15. Sound(m)'
    <3>1. GroupNodes' = GroupNodes /\ PlanRounds' = PlanRounds /\ bn'[n] = c
      BY <1>2, <2>9 DEF GroupNodes, PlanRounds, BnInv, BnTypes
    <3>2. m.type = "bitmap" /\ m.from = n /\ m.round = b.round
      BY <2>12
    <3>3. m.round <= bn'[m.from].round
      <4>1. b.round \in Nat
        BY <1>2 DEF States, PlanRounds
      <4> QED BY <2>10, <3>1, <3>2, <4>1
    <3>4. n = LeaderOf(plan', b.round) /\ b.round \in PlanRounds'
      BY <1>2, <2>1, <2>2, <2>4, <3>1, Zenon DEF Leads
    <3> QED BY <1>2, <2>1, <2>2, <2>4, <2>10, <2>13, <3>1, <3>2, <3>3, <3>4, Zenon DEF Sound, Late
  <2>16. OneBitmap'
    <3>1. \A q \in bnMsgs : q.type = "bitmap" => q.round # b.round
      <4> SUFFICES ASSUME NEW q \in bnMsgs, q.type = "bitmap", q.round = b.round PROVE FALSE
        BY Zenon
      <4>1. q.from = n /\ bn[n].sr \in Late \cup {"none"}
        BY <1>1, <2>1, Zenon DEF BnInv, Sound, Leads
      <4> QED BY <1>1, <1>2, <4>1, Zenon DEF Late
    <3>2. m.round = b.round
      BY <2>12, Zenon
    <3> QED BY <2>13, <3>1, <3>2 DEF BnInv, OneBitmap, Payload
  <2>17. \A a \in created : a.who = n /\ (a.round = c.round \/ a.share.secret = s.commSecret) => Spent(n, c, FALSE)
    <3>1. Spent(n, b, waiting[n]) => n \in b.done["signature"]
      BY <1>2 DEF Spent
    <3>2. n \in b.done["signature"] => Spent(n, c, FALSE)
      BY <2>6, <2>10 DEF Spent
    <3> QED BY <1>1, <2>10, <3>1, <3>2, Zenon DEF BnInv, Accounted
  <2>18. SecretUsedOnce'
    BY <1>2, SameShares
  <2>19. /\ bnMsgs \subseteq bnMsgs' /\ created \subseteq created' /\ created' \subseteq Creations
         /\ \A q \in bnMsgs' \ bnMsgs : Sound(q)'
         /\ created' \ created = {}
    BY <1>2, <2>13, <2>15 DEF BnInv, BnTypes
  <2>20. /\ c.round >= bn[n].round /\ d >= drawn[n] /\ c.sr # "end"
         /\ c.round = bn[n].round /\ bn[n].sr \in Late \cup {"none"} => c.sr \in Late \cup {"none"}
    BY <1>1, <1>2, <2>2, <2>10 DEF Late
  <2> QED BY <1>2, <2>9, <2>10, <2>14, <2>16, <2>17, <2>18, <2>19, <2>20, StepOfNode, Zenon
<1> QED BY <1>3, <1>4 DEF doBitmapJob

\* The share that doSignatureJob makes, and what the node held before it.
SharedNow(n, b, z, p) ==
  StoreSignatureShare(AggregateCommitments(z, p), n, CreateSignatureShare(AggregateCommitments(z, p), b.data, p))

LEMMA FirstShare ==
  ASSUME BnInv, NEW n \in GroupNodes, InSubround(n, "signature"), n \notin bn[n].done["signature"]
  PROVE  \A a \in created : a.who = n => a.round # bn[n].round /\ a.share.secret # signer[n].commSecret
<1>1. ~Spent(n, bn[n], waiting[n])
  BY Zenon DEF InSubround, Spent
<1> QED BY <1>1, Zenon DEF BnInv, Accounted

LEMMA SignatureOK ==
  ASSUME Counting, BnInv, NEW n \in GroupNodes, doSignatureJob(n)
  PROVE  BnInv'
<1>1. PICK z, d, b : z = signer[n] /\ d = drawn[n] /\ b = bn[n]
  BY Zenon
<1>2. /\ plan \in Plans /\ b \in States /\ z \in Signers /\ d \in Nat \ {0} /\ NodeOK(n, b, z, d)
      /\ b.sr = "signature" /\ ~waiting[n] /\ UNCHANGED plan /\ UNCHANGED drawn
      /\ drawn' = [drawn EXCEPT ![n] = d]
  BY <1>1, SameSigner, Zenon DEF doSignatureJob, InSubround
<1>3. PICK p : p = GenerateBitmap(b, "bitmap")
  BY Zenon
<1>4. CASE UNCHANGED <<signer, created, bnMsgs>> /\ WorkOn(n, bn[n])
  BY <1>1, <1>2, <1>4, IdleOK
<1>5. CASE /\ n \in bn[n].done["bitmap"] /\ CanDoSubroundJob(n, "signature") /\ CanAggregateCommitments(signer[n], p)
           /\ signer' = [signer EXCEPT ![n] = WithShare(AggregateCommitments(@, p), n, bn[n].data, p)]
           /\ created' = created \cup {[who |-> n, round |-> bn[n].round, share |-> signer'[n].sigShares[n]]}
           /\ \E sent \in BOOLEAN : /\ SendIf(sent, n, "signature", signer'[n].sigShares[n])
                                    /\ WorkOn(n, MarkedIf(sent, bn[n], "signature", n))
  <2>1. /\ n \in p /\ p \subseteq GroupNodes /\ b.data \in Nat /\ b.round \in PlanRounds /\ b.round \in Nat
        /\ n \notin b.done["signature"]
    <3>1. n \in b.done["bitmap"] /\ n \notin b.done["signature"]
      BY <1>1, <1>5, Zenon DEF CanDoSubroundJob
    <3>2. n \in p /\ p \subseteq GroupNodes
      BY <1>3, <3>1, Zenon DEF GenerateBitmap
    <3>3. b.data \in Nat /\ b.round \in PlanRounds
      BY <1>2 DEF States
    <3>4. b.round \in Nat
      BY <3>3 DEF PlanRounds
    <3> QED BY <3>1, <3>2, <3>3, <3>4, Zenon
  <2>2. PICK s : s = SharedNow(n, b, z, p)
    BY Zenon
  <2>3. PICK h : h = [secret |-> z.commSecret, challenge |-> <<p, {<<m, z.commitments[m]>> : m \in p}, b.data>>]
    BY Zenon
  <2>4. /\ {<<m, z.commitments[m]>> : m \in p} \in Sums /\ h \in Shares /\ h.secret = z.commSecret
    <3>1. \A m \in p : z.commitments[m] \in Points /\ m \in Nat
      <4>1. z.commitments \in [GroupNodes -> Points] /\ \A m \in p : m \in GroupNodes
        BY <1>2, <2>1, Zenon DEF Signers
      <4>2. \A m \in GroupNodes : m \in Nat
        BY <1>2, GroupFacts DEF GroupNodes
      <4> QED BY <4>1, <4>2
    <3>2. {<<m, z.commitments[m]>> : m \in p} \in Sums
      BY <3>1 DEF Sums
    <3>3. z.commSecret \in Points
      BY <1>2, Zenon DEF Signers
    <3> QED BY <2>1, <2>3, <3>2, <3>3, Zenon DEF Shares
  <2>5. /\ s \in Signers /\ s.self = z.self /\ s.commSecret = z.commSecret /\ s.commitments = z.commitments
        /\ s.commHashes = z.commHashes /\ s.sigShares = [z.sigShares EXCEPT ![n] = h]
    <3>1. PICK y : y = AggregateCommitments(z, p)
      BY Zenon
    <3>2. /\ y \in Signers /\ y.self = z.self /\ y.commSecret = z.commSecret /\ y.commitments = z.commitments
          /\ y.commHashes = z.commHashes /\ y.sigShares = z.sigShares
          /\ y.aggCommitment = {<<m, z.commitments[m]>> : m \in p}
      BY <1>2, <2>4, <3>1, Zenon DEF AggregateCommitments, Signers
    <3>3. CreateSignatureShare(y, b.data, p) = h
      BY <2>3, <3>2 DEF CreateSignatureShare, computeChallenge
    <3>4. s = [y EXCEPT !.sigShares[n] = h]
      BY <2>2, <3>1, <3>3 DEF SharedNow, StoreSignatureShare
    <3> QED BY <2>4, <3>2, <3>4 DEF Signers
  <2>6. signer' = [signer EXCEPT ![n] = s] /\ signer'[n] = s /\ s.sigShares[n] = h
    <3>1. signer' = [signer EXCEPT ![n] = s]
      BY <1>1, <1>5, <2>2, Zenon DEF SharedNow, WithShare
    <3>2. signer \in [GroupNodes -> Signers] /\ z.sigShares \in [GroupNodes -> Shares]
      BY <1>2, Zenon DEF BnInv, BnTypes, Signers
    <3> QED BY <2>5, <3>1, <3>2
  <2>7. PICK a0 : a0 = [who |-> n, round |-> b.round, share |-> h]
    BY Zenon
  <2>8. /\ created' = created \cup {a0} /\ a0 \in Creations
        /\ a0.who = n /\ a0.round = b.round /\ a0.share = h
    BY <1>1, <1>5, <2>1, <2>4, <2>6, <2>7, Zenon DEF Creations
  <2>9. PICK sent \in BOOLEAN : SendIf(sent, n, "signature", h) /\ WorkOn(n, MarkedIf(sent, b, "signature", n))
    BY <1>1, <1>5, <2>6, Zenon
  <2>10. PICK c : c = MarkedIf(sent, b, "signature", n)
    BY Zenon
  <2>11. /\ c \in States /\ c.round = b.round /\ c.sr = b.sr /\ c.canceled = b.canceled /\ c.data = b.data
         /\ c.finished = b.finished /\ c.headerBitmap = b.headerBitmap
         /\ \A i \in Jobs \ {"signature"} : c.done[i] = b.done[i]
    <3>1. CASE sent = TRUE
      <4>1. c = AddDone(b, "signature", {n}) /\ "signature" \in Jobs /\ {n} \in SUBSET GroupNodes
        BY <2>10, <3>1, Zenon DEF MarkedIf, Jobs, AddDone
      <4> QED BY <1>2, <4>1, MarkOK
    <3>2. CASE sent = FALSE
      <4>1. c = b
        BY <2>10, <3>2, Zenon DEF MarkedIf
      <4> QED BY <1>2, <4>1, Zenon
    <3> QED BY <3>1, <3>2, Zenon
  <2>12. /\ c.done["bitmap"] = b.done["bitmap"] /\ c.done["commHash"] = b.done["commHash"]
         /\ c.done["commitment"] = b.done["commitment"]
    BY <2>11 DEF Jobs
  <2>13. NodeOK(n, c, z, d)
    <3>1. Unmoved(b, c) /\ SameSecret(n, z, z)
      BY <2>11, <2>12, Zenon DEF Unmoved, SameSecret
    <3>2. SharesMade(c, z)
      BY <1>2, <2>11, Zenon DEF NodeOK, SharesMade
    <3> QED BY <1>2, <2>12, <3>1, <3>2, MarkedOK, Zenon
  <2>14. /\ bnMsgs \subseteq bnMsgs'
         /\ \A m \in bnMsgs' \ bnMsgs : m.type = "signature" /\ m.from = n /\ m.round = b.round /\ Payload(m) = h
    <3>1. SendIf(sent, n, "signature", h) /\ b.round = bn[n].round
      BY <1>1, <2>9, Zenon
    <3> QED BY <3>1, SendFacts
  <2>15. NodeOK(n, c, z, d)'
    BY <1>2, <2>8, <2>13, <2>14, StillOK, Zenon
  <2>16. NodeOK(n, c, s, d)'
    <3>1. GroupNodes' = GroupNodes /\ z.sigShares \in [GroupNodes -> Shares]
      BY <1>2, Zenon DEF GroupNodes, Signers
    <3>2. SharesMade(c, s)'
      BY <2>5, <2>7, <2>8, <2>11, <2>15, <3>1, Zenon DEF NodeOK, SharesMade
    <3> QED BY <2>5, <2>15, <3>2, Zenon DEF NodeOK, OwnSecret, Hashed
  <2>17. PICK e \in States, w \in BOOLEAN :
           /\ bn' = [bn EXCEPT ![n] = e] /\ waiting' = [waiting EXCEPT ![n] = w]
           /\ NodeOK(n, e, s, d)' /\ e.round = c.round
           /\ c.sr \in Late => e.sr \in Late
           /\ e.sr = "end" => ~w
           /\ c.sr = "signature" /\ n \in c.done["bitmap"] => Spent(n, e, w)
    <3>1. WorkOn(n, c) /\ c.round = bn[n].round /\ c.sr \notin {"none", "end"}
      BY <1>1, <1>2, <2>9, <2>10, <2>11, Zenon
    <3>2. UNCHANGED plan /\ c \in States /\ s \in Signers /\ d \in Nat \ {0} /\ NodeOK(n, c, s, d)'
      BY <1>2, <2>5, <2>11, <2>16, Zenon
    <3> QED BY <3>1, <3>2, WorkOnNode
  <2>18. /\ bn'[n] = e /\ waiting'[n] = w /\ drawn'[n] = d /\ signer'[n] = s /\ Spent(n, e, w)
         /\ e.round = b.round /\ e.sr \in Late
    BY <1>1, <1>2, <1>5, <2>6, <2>11, <2>12, <2>17, Zenon DEF BnInv, BnTypes, Late
  <2>19. PICK k \in 1 .. d - 1 : z.commSecret = <<n, k>>
    BY <1>1, <1>2, <1>5, <2>1, Zenon DEF NodeOK, OwnSecret, CanAggregateCommitments
  <2>20. Accounted(a0)'
    <3>1. k \in 1 .. drawn'[n] - 1 /\ a0.share.secret = <<n, k>>
      BY <2>4, <2>8, <2>18, <2>19, Zenon
    <3>2. a0.round <= bn'[n].round
      BY <2>1, <2>8, <2>18
    <3> QED BY <2>8, <2>18, <3>1, <3>2, Zenon DEF Accounted
  <2>21. \A a \in created : a.share.secret # h.secret
    <3> SUFFICES ASSUME NEW a \in created, a.share.secret = h.secret PROVE FALSE
      BY Zenon
    <3>1. PICK i \in 1 .. drawn[a.who] - 1 : a.share.secret = <<a.who, i>>
      BY Zenon DEF BnInv, Accounted
    <3>2. a.who = n
      BY <2>4, <2>19, <3>1
    <3>3. InSubround(n, "signature") /\ n \notin bn[n].done["signature"]
      BY <1>1, <1>2, <2>1, Zenon DEF InSubround
    <3> QED BY <1>1, <2>4, <3>2, <3>3, FirstShare, Zenon
  <2>22. SecretUsedOnce'
    BY <2>8, <2>21, Zenon DEF BnInv, SecretUsedOnce
  <2>23. OneBitmap'
    BY <2>14, SameBitmaps, Zenon
  <2>24. \A m \in bnMsgs' \ bnMsgs : Sound(m)'
    <3>1. GroupNodes' = GroupNodes
      BY <1>2 DEF GroupNodes
    <3> QED BY <2>7, <2>8, <2>14, <3>1, Zenon DEF Sound, Payload
  <2>25. /\ created \subseteq created' /\ created' \subseteq Creations /\ \A a \in created' \ created : Accounted(a)'
         /\ bnMsgs \subseteq bnMsgs'
    BY <2>8, <2>14, <2>20, Zenon DEF BnInv, BnTypes
  <2>26. /\ e.round >= bn[n].round /\ d >= drawn[n]
         /\ e.round = bn[n].round /\ bn[n].sr \in Late \cup {"none"} => e.sr \in Late \cup {"none"}
    <3>1. bn[n].round \in Nat /\ e.round = bn[n].round /\ d \in Nat /\ d = drawn[n]
      BY <1>1, <1>2, <2>1, <2>18, Zenon
    <3>2. e.round >= bn[n].round /\ d >= drawn[n]
      BY <3>1
    <3> QED BY <2>18, <3>2, Zenon
  <2>27. CASE w = TRUE
    <3>1. /\ \A a \in created : a.who = n /\ (a.round = e.round \/ a.share.secret = s.commSecret) => Spent(n, e, TRUE)
          /\ waiting' = [waiting EXCEPT ![n] = TRUE] /\ e.sr # "end" /\ bn' = [bn EXCEPT ![n] = e] /\ NodeOK(n, e, s, d)'
      BY <2>17, <2>18, <2>27, Zenon
    <3> QED BY <1>2, <2>5, <2>6, <2>22, <2>23, <2>24, <2>25, <2>26, <3>1, StepOfNode, Zenon
  <2>28. CASE w = FALSE
    <3>1. /\ \A a \in created : a.who = n /\ (a.round = e.round \/ a.share.secret = s.commSecret) => Spent(n, e, FALSE)
          /\ waiting' = [waiting EXCEPT ![n] = FALSE] /\ bn' = [bn EXCEPT ![n] = e] /\ NodeOK(n, e, s, d)'
      BY <2>17, <2>18, <2>28, Zenon
    <3> QED BY <1>2, <2>5, <2>6, <2>22, <2>23, <2>24, <2>25, <2>26, <3>1, StepOfNode, Zenon
  <2> QED BY <2>27, <2>28, Zenon
<1>6. \A job : Sent(n, job) \subseteq BOOLEAN
  BY Zenon DEF Sent
<1> QED BY <1>1, <1>3, <1>4, <1>5, <1>6, Zenon DEF doSignatureJob

-----------------------------------------------------------------------------
(* The invariant.                                                          *)

LEMMA BnInitInv == BnInit => BnInv
<1> SUFFICES ASSUME BnInit PROVE BnInv
  BY Zenon
<1>1. /\ plan \in Plans /\ bnMsgs = {} /\ created = {} /\ plan.rounds \in Nat \ {0} /\ 1 \in PlanRounds
  BY GroupFacts DEF BnInit, PlanRounds
<1>2. PICK c : c = [NotInRound EXCEPT !.round = 1, !.sr = "block"]
  BY Zenon
<1>3. /\ c \in States /\ c.round = 1 /\ c.sr = "block" /\ ~c.canceled /\ c.data = 0
      /\ \A j \in Jobs : c.done[j] = {}
  BY <1>1, <1>2, Zenon DEF NotInRound, States, Subrounds, Jobs
<1>4. /\ c.done["commHash"] = {} /\ c.done["bitmap"] = {}
      /\ c.done["commitment"] = {} /\ c.done["signature"] = {}
  BY <1>3 DEF Jobs
<1>5. /\ bn = [n \in GroupNodes |-> c] /\ waiting = [n \in GroupNodes |-> FALSE]
      /\ drawn = [n \in GroupNodes |-> 1]
      /\ signer = [n \in GroupNodes |-> Reset(<<>>, Group(plan), n)]
  BY <1>2, Zenon DEF BnInit
<1>6. \A n \in GroupNodes : /\ signer[n] \in Signers /\ signer[n].self = n /\ signer[n].commSecret = NoPoint
                            /\ signer[n].commitments[n] = NoPoint
                            /\ \A m \in GroupNodes : signer[n].sigShares[m] = NoShare
  BY <1>1, <1>5, ResetOK
<1>7. BnTypes /\ EndsAtOnce
  BY <1>1, <1>3, <1>5, <1>6 DEF BnTypes, EndsAtOnce
<1>8. ASSUME NEW n \in GroupNodes PROVE NodeOK(n, bn[n], signer[n], drawn[n])
  <2>1. bn[n] = c
    BY <1>5, Zenon
  <2>2. c.sr \notin {"bitmap"} \cup Late /\ c.sr # "end"
    BY <1>3, Zenon DEF Late
  <2>3. Follows(n, c) /\ BitmapHeld(n, c)
    BY <1>3, <1>4, <2>2, Zenon DEF Follows, BitmapHeld
  <2>4. OwnSecret(n, c, signer[n], drawn[n]) /\ Hashed(n, c, signer[n]) /\ SharesMade(c, signer[n])
    BY <1>3, <1>4, <1>6, <2>2, Zenon DEF OwnSecret, Hashed, SharesMade
  <2> QED BY <2>1, <2>3, <2>4, Zenon DEF NodeOK
<1> QED BY <1>1, <1>7, <1>8, Zenon DEF BnInv, OneBitmap, SecretUsedOnce

LEMMA BnNextInv ==
  ASSUME Counting, BnInv, [BnNext]_bnVars
  PROVE  BnInv'
<1>1. ASSUME NEW n \in GroupNodes, BnStep(n) PROVE BnInv'
  <2>1. CASE Job(n)
    <3>1. CASE doEndRoundJob(n)
      BY <3>1, OutOfRoundOK, Zenon DEF doEndRoundJob
    <3> QED BY <2>1, <3>1, ProcessBlockOK, CommitmentHashOK, BitmapOK, CommitmentOK, SignatureOK DEF Job
  <2>2. CASE BnReceive(n)
    BY <2>2, ReceivedCommitmentHashOK, ReceivedBitmapOK, ReceivedCommitmentOK, ReceivedSignatureOK DEF BnReceive
  <2>3. CASE EndOfRound(n)
    BY <2>3, OutOfRoundOK, Zenon DEF EndOfRound
  <2> QED BY <1>1, <2>1, <2>2, <2>3, NoBlockOK, StartRoundOK DEF BnStep
<1>2. CASE UNCHANGED bnVars
  <2>1. /\ GroupNodes' = GroupNodes /\ PlanRounds' = PlanRounds /\ pbftThreshold' = pbftThreshold
        /\ UNCHANGED <<plan, bn, signer, waiting, bnMsgs, created, drawn>>
    BY <1>2 DEF bnVars, GroupNodes, PlanRounds, pbftThreshold
  <2>2. Shares' = Shares /\ Signers' = Signers /\ States' = States /\ Creations' = Creations
    BY <2>1, Zenon DEF Shares, Signers, States, Creations
  <2>3. BnTypes' /\ EndsAtOnce' /\ OneBitmap' /\ SecretUsedOnce'
    BY <2>1, <2>2, Zenon DEF BnInv, BnTypes, EndsAtOnce, OneBitmap, SecretUsedOnce, Payload
  <2>4. ASSUME NEW n \in GroupNodes PROVE NodeOK(n, bn[n], signer[n], drawn[n])'
    <3>1. PICK c, s, d : c = bn[n] /\ s = signer[n] /\ d = drawn[n]
      BY Zenon
    <3>2. NodeOK(n, c, s, d)'
      BY <2>1, <3>1, StillOK, Zenon DEF BnInv
    <3> QED BY <2>1, <3>1, <3>2
  <2>5. \A a \in created' : Accounted(a)'
    BY <2>1, Zenon DEF BnInv, Accounted, Spent
  <2>6. \A m \in bnMsgs' : Sound(m)'
    BY <2>1, Zenon DEF BnInv, Sound, Payload
  <2> QED BY <2>1, <2>3, <2>4, <2>5, <2>6, Zenon DEF BnInv
<1> QED BY <1>1, <1>2 DEF BnNext

LEMMA RevealInv ==
  ASSUME BnInv
  PROVE  RevealAfterHashes
<1> SUFFICES ASSUME NEW n \in GroupNodes, n \in bn[n].done["commitment"], NEW m \in bn[n].done["bitmap"]
             PROVE  signer[n].commHashes[m] # NoPoint
  BY Zenon DEF RevealAfterHashes
<1>1. NodeOK(n, bn[n], signer[n], drawn[n]) /\ bn[n] \in States
  BY Zenon DEF BnInv, BnTypes
<1>2. bn[n].sr \in Late
  BY <1>1, Zenon DEF NodeOK, Follows
<1>3. m \in GroupNodes
  BY <1>1, Zenon DEF States, Jobs
<1>4. m \in bn[n].done["commHash"]
  BY <1>1, <1>2, <1>3, Zenon DEF NodeOK, Hashed
<1> QED BY <1>1, <1>4, Zenon DEF NodeOK, Hashed

-----------------------------------------------------------------------------
(* The promise of a round: BnConsensus implements RoundCertificates.       *)

BnShare(s) == [who |-> s.who, round |-> s.round, hash |-> s.share.challenge]
BnCertificate(b) == [round |-> b.round, hash |-> <<b.header, b.sig.comm, b.round>>, signers |-> b.header]

\* A share is the first one of its maker in its round.
LEMMA SignatureIsSignOnce ==
  ASSUME BnInv, NEW n \in GroupNodes, doSignatureJob(n)
  PROVE  BnCert!SignOnce \/ UNCHANGED <<plan, created, blocks>>
<1>1. CASE UNCHANGED created
  BY <1>1, Zenon DEF doSignatureJob
<1>2. CASE /\ CanDoSubroundJob(n, "signature")
           /\ created' = created \cup {[who |-> n, round |-> bn[n].round, share |-> signer'[n].sigShares[n]]}
  <2>1. PICK a : a = [who |-> n, round |-> bn[n].round, share |-> signer'[n].sigShares[n]]
    BY Zenon
  <2>2. created' = created \cup {a} /\ a.who = n /\ a.round = bn[n].round
    BY <1>2, <2>1, Zenon
  <2>3. \A t \in created : ~(t.who = n /\ t.round = bn[n].round)
    BY <1>2, FirstShare, Zenon DEF doSignatureJob, CanDoSubroundJob
  <2>4. \A t : BnShare(t).who = t.who /\ BnShare(t).round = t.round
    BY Zenon DEF BnShare
  <2>5. \E s \in {BnShare(t) : t \in created'} :
          /\ {BnShare(t) : t \in created'} = {BnShare(t) : t \in created} \cup {s}
          /\ \A t \in {BnShare(x) : x \in created} : ~(t.who = s.who /\ t.round = s.round)
    <3>1. BnShare(a) \in {BnShare(t) : t \in created'}
      BY <2>2, Zenon
    <3> WITNESS BnShare(a) \in {BnShare(t) : t \in created'}
    <3>2. {BnShare(t) : t \in created'} = {BnShare(t) : t \in created} \cup {BnShare(a)}
      BY <2>2
    <3> QED BY <2>2, <2>3, <2>4, <3>2
  <2>6. UNCHANGED <<plan, blocks>> /\ pbftThreshold' = pbftThreshold
    BY Zenon DEF doSignatureJob, pbftThreshold
  <2> QED BY <2>5, <2>6, Zenon DEF BnCert!SignOnce, BnShare
<1> QED BY <1>1, <1>2, Zenon DEF doSignatureJob

\* A node commits when it holds the shares of the whole bitmap, each of them made
\* for its block, bitmap and aggregated commitment.
LEMMA EndRoundIsCertify ==
  ASSUME Counting, BnInv, NEW n \in GroupNodes, doEndRoundJob(n)
  PROVE  BnCert!Certify \/ UNCHANGED <<plan, created, blocks>>
<1>1. PICK b, z, p : b = bn[n] /\ z = signer[n] /\ p = GenerateBitmap(bn[n], "bitmap")
  BY Zenon
<1>2. UNCHANGED <<plan, created>> /\ pbftThreshold' = pbftThreshold
  BY Zenon DEF doEndRoundJob, pbftThreshold
<1>3. CASE UNCHANGED blocks
  BY <1>2, <1>3
<1>4. CASE /\ checkSignaturesValidity(n, p)
           /\ blocks' = blocks \cup {[who |-> n, round |-> b.round, bitmap |-> p,
                                      sig |-> AggregateSigs(z, p), header |-> b.headerBitmap]}
  <2>1. /\ b \in States /\ z \in Signers /\ b.sr = "end" /\ NodeOK(n, b, z, drawn[n]) /\ plan \in Plans
    BY <1>1, SameSigner, Zenon DEF doEndRoundJob, InSubround
  <2>2. /\ p = b.done["bitmap"] /\ p \in SUBSET GroupNodes
    BY <1>1, <2>1 DEF GenerateBitmap, States, Jobs
  <2>3. Cardinality(p) >= pbftThreshold /\ ~b.canceled /\ b.data = b.round
    BY <2>1, <2>2, Zenon DEF NodeOK, Follows, isBitmapReceived, Late
  <2>4. b.headerBitmap = p
    BY <2>1, <2>2, <2>3, NonEmptyQuorum, Zenon DEF NodeOK, BitmapHeld
  <2>5. PICK x : x = [who |-> n, round |-> b.round, bitmap |-> p, sig |-> AggregateSigs(z, p), header |-> b.headerBitmap]
    BY Zenon
  <2>6. PICK h : h = <<p, z.aggCommitment, b.round>>
    BY Zenon
  <2>7. /\ blocks' = blocks \cup {x} /\ x.round = b.round /\ x.header = p /\ x.sig.comm = z.aggCommitment
        /\ BnCertificate(x) = [round |-> b.round, hash |-> h, signers |-> p]
    BY <1>4, <2>4, <2>5, <2>6, Zenon DEF AggregateSigs, BnCertificate
  <2>8. ASSUME NEW v \in p PROVE [who |-> v, round |-> b.round, hash |-> h] \in {BnShare(t) : t \in created}
    <3>1. PICK a : a = [who |-> v, round |-> b.round, share |-> z.sigShares[v]]
      BY Zenon
    <3>2. z.sigShares[v].challenge = h /\ z.aggCommitment # NoSum
      <4>1. VerifySignatureShare(z, v, b.round, p)
        BY <1>1, <1>4, <2>3, Zenon DEF checkSignaturesValidity
      <4>2. z.sigShares[v] = [secret |-> z.commitments[v], challenge |-> h] /\ z.aggCommitment # NoSum
        BY <2>6, <4>1 DEF VerifySignatureShare, computeChallenge
      <4> QED BY <4>2
    <3>3. z.sigShares[v] # NoShare
      BY <2>6, <3>2 DEF NoShare
    <3>4. a \in created
      BY <2>1, <2>2, <3>1, <3>3, Zenon DEF NodeOK, SharesMade
    <3>5. BnShare(a) = [who |-> v, round |-> b.round, hash |-> h]
      BY <3>1, <3>2, Zenon DEF BnShare
    <3> QED BY <3>4, <3>5, Zenon
  <2>9. BnCert!Backed(BnCertificate(x))
    <3>1. BnCert!Cardinality(p) = Cardinality(p)
      BY Zenon DEF Cardinality, BnCert!Cardinality
    <3>2. /\ BnCertificate(x).round = b.round /\ BnCertificate(x).hash = h /\ BnCertificate(x).signers = p
      BY <2>7
    <3> QED BY <2>3, <2>8, <3>1, <3>2, Zenon DEF BnCert!Backed, BnShare
  <2>10. \E c \in {BnCertificate(t) : t \in blocks'} :
           /\ {BnCertificate(t) : t \in blocks'} = {BnCertificate(t) : t \in blocks} \cup {c}
           /\ BnCert!Backed(c)
    BY <2>7, <2>9, Zenon
  <2> QED BY <1>2, <2>10, Zenon DEF BnCert!Certify, BnCertificate
<1> QED BY <1>1, <1>3, <1>4, Zenon DEF doEndRoundJob

LEMMA BnInitCert == BnInit => BnCert!CertInit
BY GroupFacts, Zenon DEF BnInit, BnCert!CertInit

LEMMA BnNextCert ==
  ASSUME Counting, BnInv, [BnNext]_bnVars
  PROVE  BnCert!SignOnce \/ BnCert!Certify \/ UNCHANGED BnCert!certVars
<1>1. CASE UNCHANGED <<plan, created, blocks>>
  BY <1>1, Zenon DEF BnCert!certVars, pbftThreshold
<1>2. CASE UNCHANGED bnVars
  BY <1>1, <1>2 DEF bnVars
<1>3. ASSUME NEW n \in GroupNodes, BnStep(n)
      PROVE  doSignatureJob(n) \/ doEndRoundJob(n) \/ UNCHANGED <<plan, created, blocks>>
  BY <1>3, Zenon DEF BnStep, Job, ProcessBlock, doCommitmentHashJob, doBitmapJob, doCommitmentJob,
              NoBlock, BnReceive, EndOfRound, StartRound
<1>4. CASE BnNext
  BY <1>1, <1>3, <1>4, SignatureIsSignOnce, EndRoundIsCertify DEF BnNext
<1> QED BY <1>2, <1>4

-----------------------------------------------------------------------------
(* What follows                                                            *)

INSTANCE FiniteSetTheorems

LEMMA CountingHolds == Counting
<1>1. Cardinality({}) = 0
  BY FS_EmptySet
<1>2. ASSUME NEW k \in Nat, NEW S \in SUBSET (1 .. k), Cardinality(S) >= k
      PROVE  S = 1 .. k
  <2>1. IsFiniteSet(1 .. k) /\ Cardinality(1 .. k) = k
    BY FS_Interval
  <2>2. Cardinality(S) \in Nat /\ Cardinality(S) <= k
    BY <2>1, FS_Subset, FS_CardinalityType, Zenon
  <2>3. Cardinality(S) = k
    BY <1>2, <2>2
  <2> QED BY <2>1, <2>3, FS_Subset, Zenon
<1> QED BY <1>1, <1>2, Zenon DEF Counting

\* The inductive invariant of the Bellare-Neven consensus.
THEOREM BnInvariance == BnSpec => []BnInv
<1>1. BnInv /\ [BnNext]_bnVars => BnInv'
  BY CountingHolds, BnNextInv, Zenon
<1> QED BY <1>1, BnInitInv, PTL DEF BnSpec

\* A commitment secret answers one challenge, so that two signature shares never
\* give a private key away (CreateCommitment, CreateSignatureShare, Reset), in
\* groups of every size, whatever is lost, late or fails.
THEOREM SecretsUsedOnce == BnSpec => []SecretUsedOnce
<1>1. BnInv => SecretUsedOnce
  BY DEF BnInv
<1> QED BY <1>1, BnInvariance, PTL

\* Nobody reveals its commitment before it holds the hashes of all who sign
\* (doCommitmentHashConsensusCheck, doBitmapJob, doCommitmentJob).
THEOREM RevealsAfterHashes == BnSpec => []RevealAfterHashes
<1>1. BnInv => RevealAfterHashes
  BY RevealInv, Zenon
<1> QED BY <1>1, BnInvariance, PTL

\* The Bellare-Neven consensus implements RoundCertificates: a member makes one
\* share in a round at most, and a block is committed only with shares of more
\* than two thirds of the group for that block, bitmap and commitment.
THEOREM BnPromise == BnSpec => BnKeepsPromise
<1>1. BnInv /\ [BnNext]_bnVars => [BnCert!SignOnce \/ BnCert!Certify]_(BnCert!certVars)
  BY CountingHolds, BnNextCert, Zenon
<1> QED BY <1>1, BnInitCert, BnInvariance, PTL DEF BnSpec, BnKeepsPromise, BnCert!CertSpec

=============================================================================
