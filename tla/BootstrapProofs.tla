-------------------------- MODULE BootstrapProofs ---------------------------
(***************************************************************************)
(* TLAPS proofs about Bootstrap and its fork detector, for any tree of     *)
(* headers, any kinds of node and any limits: the fork detector never has  *)
(* two processed headers of one nonce, through commits of the consensus    *)
(* and of the sync loop, forks, resets and roll backs that fail half-way.  *)
(*                                                                         *)
(* A commit adds the header one nonce above the current one, and a roll    *)
(* back leaves nothing processed above the new current one.  That the      *)
(* header below the current one is a nonce lower is known of every header  *)
(* in the store, from which the roll back takes it.                        *)
(*                                                                         *)
(* And about DirectSender, for any peers, calls and times: a direct        *)
(* message has a number of its own, also after the node started again.     *)
(***************************************************************************)
EXTENDS Bootstrap, DirectSender, WellFoundedInduction, TLAPS

Fields == {"chain", "headers", "checkpoint", "final", "highest", "force", "stuck"}
IsDetector(d) == DOMAIN d = Fields /\ d.headers \subseteq HeaderInfos

Processed(d) == {i \in d.headers : i.state = BHProcessed}

\* The store is closed under going back, one nonce at a time.
StoreLinked ==
  /\ store \subseteq Hashes \cup {GenesisHash}
  /\ \A h \in store \ {GenesisHash} :
       Hdr[h].prev \in store /\ Hdr[h].nonce = Nonce(Hdr[h].prev) + 1

\* Nothing is recorded as processed above the current header.
NoneAbove(d, h) == \A i \in Processed(d) : NonceOf(i) <= Nonce(h)
OnePerNonce(d) == \A i, j \in Processed(d) : NonceOf(i) = NonceOf(j) => i = j

BootInv ==
  /\ node \in Nodes
  /\ head \in store /\ StoreLinked
  /\ pool \subseteq Hashes
  /\ sync.pc = "process" => sync.hdr \in Hashes
  /\ forkInfo.hash \in Hashes \cup {NoHash}
  /\ IsDetector(fd) /\ NoneAbove(fd, head) /\ OnePerNonce(fd)

LEMMA HeaderTypes ==
  ASSUME NEW h \in Hashes
  PROVE  /\ h \in Nat /\ h # GenesisHash /\ h # NoHash
         /\ Hdr[h].nonce \in Nat /\ Hdr[h].nonce > 0 /\ Hdr[h].round \in Nat
<1>1. \A n \in 1 .. MaxUint64 - 1 : n \in Nat /\ n > 0
  <2>1. MaxUint64 \in Int
    BY SMT DEF MaxUint64
  <2> QED BY <2>1
<1> DEFINE valid == 1 .. MaxUint64 - 1
<1> HIDE DEF valid
<1>2. Hashes \subseteq Nat \ {GenesisHash} /\ Hdr[h].nonce \in valid /\ Hdr[h].round \in valid
  BY HdrAssumption, Zenon DEF valid
<1> QED BY <1>1, <1>2 DEF valid, NoHash

-----------------------------------------------------------------------------
(* The operations of the fork detector                                     *)

\* e is a detector that records nothing as processed that d does not.
Keeps(d, e) == IsDetector(e) /\ Processed(e) \subseteq Processed(d)

LEMMA KeepsTrans ==
  ASSUME NEW c, NEW d, NEW e, Keeps(c, d), Keeps(d, e)
  PROVE  Keeps(c, e)
BY Zenon DEF Keeps

LEMMA KeepsInv ==
  ASSUME NEW d, NEW e, NEW h, Keeps(d, e), NoneAbove(d, h), OnePerNonce(d)
  PROVE  NoneAbove(e, h) /\ OnePerNonce(e)
BY Zenon DEF Keeps, NoneAbove, OnePerNonce

LEMMA RemovePastKeeps ==
  ASSUME NEW d, IsDetector(d)
  PROVE  Keeps(d, removePastOrInvalidRecords(d))
BY Zenon DEF IsDetector, Fields, Keeps, Processed, removePastOrInvalidRecords

\* RemoveHeaders takes the processed headers of the nonce away.
LEMMA RemoveHeadersKeeps ==
  ASSUME NEW d, NEW n, IsDetector(d)
  PROVE  /\ Keeps(d, RemoveHeaders(d, n))
         /\ \A i \in Processed(RemoveHeaders(d, n)) : NonceOf(i) # n
BY Zenon DEF IsDetector, Fields, Keeps, Processed, RemoveHeaders, BHProcessed, BHNotarized

LEMMA ResetsKeep ==
  ASSUME NEW d, IsDetector(d)
  PROVE  Keeps(d, ResetProbableHighestNonce(d)) /\ Keeps(d, ResetFork(d))
BY Zenon DEF IsDetector, Fields, Keeps, Processed, ResetProbableHighestNonce, ResetFork

LEMMA ForcedForkKeeps ==
  ASSUME NEW d, NEW h, NEW state, NEW idx, IsDetector(d)
  PROVE  Keeps(d, activateForcedForkIfNeeded(d, h, state, idx))
BY Zenon DEF IsDetector, Fields, Keeps, Processed, activateForcedForkIfNeeded

LEMMA AddFinalKeeps ==
  ASSUME NEW d, NEW S \in SUBSET Hashes, IsDetector(d)
  PROVE  Keeps(d, addFinalHeaders(d, S))
<1> DEFINE new == {h \in S : Hdr[h].nonce >= d.final.nonce}
           added == {[hash |-> h, state |-> BHNotarized] : h \in new}
<1>1. added \subseteq HeaderInfos /\ \A i \in added : i.state # BHProcessed
  BY DEF HeaderInfos, BHNotarized, BHProcessed
<1>2. CASE new = {}
  BY <1>2, Zenon DEF Keeps, addFinalHeaders
<1>3. CASE new # {}
  <2> DEFINE c == CheckpointOf(CHOOSE h \in new : \A g \in new : Hdr[h].nonce <= Hdr[g].nonce)
             e == [d EXCEPT !.final = c, !.headers = @ \cup added]
  <2>1. addFinalHeaders(d, S) = e
    BY <1>3, Zenon DEF addFinalHeaders
  <2> HIDE DEF c, added
  <2>2. DOMAIN e = Fields /\ e.headers = d.headers \cup added
    BY Zenon DEF IsDetector, Fields
  <2> HIDE DEF e
  <2> QED BY <1>1, <2>1, <2>2, Zenon DEF IsDetector, Keeps, Processed
<1> QED BY <1>2, <1>3, Zenon
LEMMA AddProcessedKeeps ==
  ASSUME NEW d, NEW h \in Hashes, NEW stuck, IsDetector(d)
  PROVE  Keeps(d, AddProcessed(d, h, stuck))
<1> DEFINE d1 == IF d.chain = "meta" THEN [d EXCEPT !.final = lastCheckpoint(d)]
                 ELSE addFinalHeaders(d, Hdr[h].finals)
           d2 == [d1 EXCEPT !.checkpoint = Append(@, CheckpointOf(h))]
           d3 == removePastOrInvalidRecords(d2)
           d4 == [d3 EXCEPT !.stuck = stuck]
<1>1. Keeps(d, d1)
  <2>1. Keeps(d, [d EXCEPT !.final = lastCheckpoint(d)])
    BY Zenon DEF IsDetector, Fields, Keeps, Processed
  <2>2. Keeps(d, addFinalHeaders(d, Hdr[h].finals))
    BY AddFinalKeeps, HdrAssumption, Zenon
  <2> QED BY <2>1, <2>2, Zenon
<1> HIDE DEF d1
<1>2. Keeps(d1, d2)
  BY <1>1, Zenon DEF IsDetector, Fields, Keeps, Processed
<1> HIDE DEF d2
<1>3. Keeps(d2, d3)
  BY <1>2, RemovePastKeeps, Zenon DEF Keeps
<1> HIDE DEF d3
<1>4. Keeps(d3, d4)
  BY <1>3, Zenon DEF IsDetector, Fields, Keeps, Processed
<1>5. AddProcessed(d, h, stuck) = d4
  BY Zenon DEF AddProcessed, d1, d2, d3
<1> HIDE DEF d4
<1> QED BY <1>1, <1>2, <1>3, <1>4, <1>5, KeepsTrans

\* Only a header that is added as processed is recorded as processed.
LEMMA AddHeaderKeeps ==
  ASSUME NEW d, NEW h \in Hashes, NEW idx, NEW stuck, IsDetector(d),
         NEW state \in {BHProcessed, BHReceived, BHProposed}
  PROVE  /\ IsDetector(AddHeader(d, h, state, idx, stuck))
         /\ Processed(AddHeader(d, h, state, idx, stuck)) \subseteq
              Processed(d) \cup {i \in {[hash |-> h, state |-> BHProcessed]} : state = BHProcessed}
<1> DEFINE s == IF IsHeaderReceivedTooLate(h, state, idx) THEN BHReceivedTooLate ELSE state
           d1 == activateForcedForkIfNeeded(d, h, state, idx)
           d2 == IF s = BHProcessed THEN AddProcessed(d1, h, stuck) ELSE d1
           d3 == append(d2, h, s)
           d4 == [d3 EXCEPT !.highest = computeProbableHighestNonce(d3)]
           new == {i \in {[hash |-> h, state |-> BHProcessed]} : state = BHProcessed}
<1>1. CASE ~CheckBlockBasicValidity(d, h, idx)
  BY <1>1, Zenon DEF AddHeader
<1>2. CASE CheckBlockBasicValidity(d, h, idx)
  <2>1. AddHeader(d, h, state, idx, stuck) = d4
    BY <1>2, Zenon DEF AddHeader
  <2>2. /\ s \in {BHProcessed, BHReceived, BHReceivedTooLate, BHProposed}
        /\ s = BHProcessed => state = BHProcessed
    BY Zenon DEF IsHeaderReceivedTooLate, BHProcessed, BHReceived, BHReceivedTooLate, BHProposed
  <2>3. Keeps(d, d1)
    BY ForcedForkKeeps, Zenon
  <2> HIDE DEF d1, s
  <2>4. Keeps(d1, d2)
    BY <2>3, AddProcessedKeeps, Zenon DEF Keeps
  <2>5. Keeps(d, d2)
    BY <2>3, <2>4, KeepsTrans, Zenon
  <2> HIDE DEF d2
  <2>6. IsDetector(d3) /\ Processed(d3) \subseteq Processed(d2) \cup new
    <3>1. CASE s = BHProposed
      BY <2>5, <3>1, Zenon DEF Keeps, append
    <3>2. CASE s # BHProposed
      <4> DEFINE i == [hash |-> h, state |-> s]
      <4>1. i \in HeaderInfos /\ i.state = s
        BY <2>2, <3>2, Zenon DEF HeaderInfos
      <4>2. i.state = BHProcessed => i \in new
        BY <2>2, Zenon
      <4>3. d3 = [d2 EXCEPT !.headers = @ \cup {i}]
        BY <3>2, Zenon DEF append
      <4> HIDE DEF i, new, d3
      <4>4. DOMAIN d3 = Fields /\ d3.headers = d2.headers \cup {i}
        BY <2>5, <4>3, Zenon DEF Keeps, IsDetector, Fields
      <4> QED BY <2>5, <4>1, <4>2, <4>4 DEF Keeps, IsDetector, Processed
    <3> QED BY <3>1, <3>2, Zenon
  <2> HIDE DEF d3
  <2>7. IsDetector(d4) /\ Processed(d4) = Processed(d3)
    BY <2>6, Zenon DEF IsDetector, Fields, Processed
  <2> HIDE DEF d4
  <2> QED BY <2>1, <2>5, <2>6, <2>7 DEF Keeps
<1> QED BY <1>1, <1>2, Zenon

-----------------------------------------------------------------------------
(* The fork that CheckFork finds                                           *)

LEMMA LeastNatural ==
  ASSUME NEW S \in SUBSET Nat, S # {}
  PROVE  \E n \in S : \A m \in S : n <= m
<1> DEFINE R == OpToRel(<, Nat)
<1>1. IsWellFoundedOn(R, Nat)
  BY NatLessThanWellFounded, Zenon
<1>2. \A x, y \in Nat : x < y => <<x, y>> \in R
  BY Zenon DEF OpToRel
<1> HIDE DEF R
<1>3. PICK n \in S : \A m \in S : ~ (<<m, n>> \in R)
  BY <1>1, WFMin, Zenon
<1>4. ASSUME NEW m \in S PROVE n <= m
  <2>1. n \in Nat /\ m \in Nat
    BY <1>3, Zenon
  <2>2. ~ (m < n)
    BY <1>2, <1>3, <2>1, Zenon
  <2> QED BY <2>1, <2>2
<1> QED BY <1>4, Zenon

\* There is a best one among the competitors of a nonce.
LEMMA BestExists ==
  ASSUME NEW d, NEW n, IsDetector(d), Competitors(d, n) # {}
  PROVE  BestCompetitor(d, n) \in Competitors(d, n)
<1> DEFINE C == Competitors(d, n)
<1>1. C \subseteq HeaderInfos
  BY Zenon DEF Competitors, IsDetector
<1>2. ASSUME NEW i \in HeaderInfos
      PROVE  i.hash \in Nat /\ ForkRound(i) \in Nat
  <2>1. i.hash \in Hashes
    BY Zenon DEF HeaderInfos
  <2>2. i.hash \in Nat /\ Hdr[i.hash].round \in Nat
    BY <2>1, HeaderTypes, Zenon
  <2> QED BY <2>2, Zenon DEF ForkRound, RoundOf, MinForkRound
<1> HIDE DEF C
<1>3. PICK r \in {ForkRound(i) : i \in C} : \A q \in {ForkRound(i) : i \in C} : r <= q
  <2>1. {ForkRound(i) : i \in C} \in SUBSET Nat /\ {ForkRound(i) : i \in C} # {}
    BY <1>1, <1>2, Zenon DEF C
  <2> QED BY <2>1, LeastNatural, Zenon
<1> DEFINE H == {i.hash : i \in {j \in C : ForkRound(j) = r}}
<1>4. PICK g \in H : \A k \in H : g <= k
  <2>1. H \in SUBSET Nat /\ H # {}
    BY <1>1, <1>2, <1>3, Zenon
  <2> QED BY <2>1, LeastNatural, Zenon
<1>5. PICK b \in C : ForkRound(b) = r /\ b.hash = g
  BY <1>4, Zenon
<1>6. ASSUME NEW j \in C PROVE Better(b, j)
  <2>1. ForkRound(b) <= ForkRound(j)
    BY <1>3, <1>5, Zenon
  <2>2. ForkRound(j) = ForkRound(b) => b.hash <= j.hash
    BY <1>4, <1>5, Zenon
  <2> QED BY <1>1, <1>2, <2>1, <2>2 DEF Better
<1> QED BY <1>5, <1>6, Zenon DEF BestCompetitor, C

LEMMA CheckForkHash ==
  ASSUME NEW d, IsDetector(d)
  PROVE  CheckFork(d).hash \in Hashes \cup {NoHash}
<1> DEFINE forked == {i \in d.headers : i.state = BHProcessed /\ ShouldSignalFork(d, i)}
           nonces == {NonceOf(i) : i \in forked}
           lowest == Min(nonces)
<1>1. CASE d.force \/ forked = {}
  BY <1>1, Zenon DEF CheckFork, NewForkInfo
<1>2. CASE ~ (d.force \/ forked = {})
  <2>1. nonces \in SUBSET Nat /\ nonces # {}
    BY <1>2, HeaderTypes DEF IsDetector, HeaderInfos, NonceOf
  <2>2. lowest \in nonces
    <3>1. PICK n \in nonces : \A m \in nonces : n <= m
      BY <2>1, LeastNatural, Zenon
    <3> HIDE DEF nonces
    <3> QED BY <3>1, Zenon DEF Min
  <2>3. PICK i \in forked : NonceOf(i) = lowest
    BY <2>2, Zenon
  <2>4. Competitors(d, lowest) # {}
    BY <2>3, Zenon DEF ShouldSignalFork
  <2> HIDE DEF lowest
  <2>5. BestCompetitor(d, lowest) \in HeaderInfos
    BY <2>4, BestExists, Zenon DEF Competitors, IsDetector
  <2>6. CheckFork(d).hash = BestCompetitor(d, lowest).hash
    BY <1>2, Zenon DEF CheckFork, lowest
  <2> QED BY <2>5, <2>6, Zenon DEF HeaderInfos
<1> QED BY <1>1, <1>2, Zenon
-----------------------------------------------------------------------------
(* The steps                                                               *)

\* What a step that leaves the store alone has to preserve.
Recorded(d, h) == IsDetector(d) /\ NoneAbove(d, h) /\ OnePerNonce(d)

LEMMA KeepsRecorded ==
  ASSUME NEW d, NEW e, NEW h, Keeps(d, e), Recorded(d, h)
  PROVE  Recorded(e, h)
BY KeepsInv, Zenon DEF Recorded, Keeps

LEMMA NonceType ==
  ASSUME NEW h \in Hashes \cup {GenesisHash}
  PROVE  Nonce(h) \in Nat
BY HeaderTypes, Zenon DEF Nonce

\* The header below the current one is in the store, a nonce lower.
LEMMA Below ==
  ASSUME head \in store, StoreLinked, head # GenesisHash
  PROVE  /\ head \in Hashes /\ Hdr[head].prev \in store
         /\ Nonce(head) \in Nat /\ Nonce(Hdr[head].prev) \in Nat
         /\ Nonce(head) = Nonce(Hdr[head].prev) + 1
<1>1. head \in Hashes /\ Hdr[head].prev \in store /\ store \subseteq Hashes \cup {GenesisHash}
  BY Zenon DEF StoreLinked
<1>2. Nonce(head) = Nonce(Hdr[head].prev) + 1
  BY Zenon DEF StoreLinked, Nonce
<1> QED BY <1>1, <1>2, NonceType, Zenon

\* Once the headers of the nonce of the current header are removed, the header
\* below can be the current one.
LEMMA BackOne ==
  ASSUME head \in store, StoreLinked, head # GenesisHash, NEW d, Recorded(d, head)
  PROVE  Recorded(RemoveHeaders(d, Nonce(head)), Hdr[head].prev)
<1> DEFINE e == RemoveHeaders(d, Nonce(head))
           p == Hdr[head].prev
<1>1. Keeps(d, e) /\ \A i \in Processed(e) : NonceOf(i) # Nonce(head)
  BY RemoveHeadersKeeps, Zenon DEF Recorded
<1>2. Recorded(e, head)
  BY <1>1, KeepsRecorded, Zenon
<1>3. Nonce(head) \in Nat /\ Nonce(p) \in Nat /\ Nonce(head) = Nonce(p) + 1
  BY Below, Zenon
<1> HIDE DEF e, p
<1>4. ASSUME NEW i \in Processed(e) PROVE NonceOf(i) <= Nonce(p)
  <2>1. NonceOf(i) \in Nat
    BY <1>2, HeaderTypes, Zenon DEF Recorded, IsDetector, Processed, HeaderInfos, NonceOf
  <2>2. NonceOf(i) <= Nonce(head) /\ NonceOf(i) # Nonce(head)
    BY <1>1, <1>2, Zenon DEF Recorded, NoneAbove
  <2> QED BY <1>3, <2>1, <2>2
<1> QED BY <1>2, <1>4, Zenon DEF Recorded, NoneAbove, e, p

LEMMA RollBackLastStep ==
  ASSUME head \in store, StoreLinked, NEW d, Recorded(d, head), NEW gone,
         NEW reset \in {"nothing", "highest", "fork"}, RollBackLast(d, gone, reset)
  PROVE  head' \in store /\ Recorded(fd', head')
<1> DEFINE Finish(e) == CASE reset = "nothing" -> e
                          [] reset = "highest" -> ResetProbableHighestNonce(e)
                          [] reset = "fork" -> ResetFork(ResetProbableHighestNonce(e))
<1>1. ASSUME NEW e, NEW h, Recorded(e, h) PROVE Recorded(Finish(e), h)
  <2>1. Recorded(ResetProbableHighestNonce(e), h)
    BY <1>1, ResetsKeep, KeepsRecorded, Zenon DEF Recorded
  <2>2. Recorded(ResetFork(ResetProbableHighestNonce(e)), h)
    BY <2>1, ResetsKeep, KeepsRecorded, Zenon DEF Recorded
  <2> QED BY <1>1, <2>1, <2>2, Zenon
<1>2. \/ /\ head # GenesisHash /\ head' = Hdr[head].prev
         /\ fd' = Finish(RemoveHeaders(d, Nonce(head)))
      \/ head' = head /\ fd' = Finish(d)
  BY Zenon DEF RollBackLast, CanRollBack
<1> HIDE DEF Finish
<1>3. CASE head # GenesisHash /\ head' = Hdr[head].prev /\ fd' = Finish(RemoveHeaders(d, Nonce(head)))
  <2>1. Recorded(RemoveHeaders(d, Nonce(head)), Hdr[head].prev)
    BY <1>3, BackOne, Zenon
  <2> QED BY <1>1, <1>3, <2>1, Below
<1>4. CASE head' = head /\ fd' = Finish(d)
  BY <1>1, <1>4, Zenon
<1> QED BY <1>2, <1>3, <1>4, Zenon

\* What CommitBlock adds is a nonce above everything recorded as processed.
LEMMA CommitStep ==
  ASSUME head \in store, StoreLinked, pool \subseteq Hashes, Recorded(fd, head),
         NEW h \in Hashes, CommitBlock(h)
  PROVE  head' \in store' /\ StoreLinked' /\ pool' \subseteq Hashes /\ Recorded(fd', head')
<1>1. /\ Hdr[h].prev = head /\ Hdr[h].nonce = Nonce(head) + 1
      /\ store' = store \cup {h} /\ pool' = pool \ {h} /\ head' = h
  BY Zenon DEF CommitBlock, CheckBlockValidity
<1>2. StoreLinked'
  BY <1>1, Zenon DEF StoreLinked, Nonce
<1>3. Nonce(head) \in Nat /\ Nonce(h) = Nonce(head) + 1
  BY <1>1, NonceType, HeaderTypes DEF StoreLinked, Nonce
<1> DEFINE new == [hash |-> h, state |-> BHProcessed]
<1>4. IsDetector(fd') /\ Processed(fd') \subseteq Processed(fd) \cup {new}
  <2>1. PICK stuck \in BOOLEAN : fd' = ForkDetectorAfter(fd, h, BHProcessed, stuck)
    BY Zenon DEF CommitBlock
  <2>2. CASE Hdr[h].prev \in blackList
    BY <2>1, <2>2, Zenon DEF ForkDetectorAfter, Recorded
  <2>3. CASE Hdr[h].prev \notin blackList
    <3>1. fd' = AddHeader(fd, h, BHProcessed, index, stuck)
      BY <2>1, <2>3, Zenon DEF ForkDetectorAfter
    <3> QED BY <3>1, AddHeaderKeeps, Zenon DEF Recorded
  <2> QED BY <2>2, <2>3, Zenon
<1>5. NonceOf(new) = Nonce(head) + 1
  BY <1>1, Zenon DEF NonceOf
<1> HIDE DEF new
<1>6. \A i \in Processed(fd) : NonceOf(i) \in Nat /\ NonceOf(i) <= Nonce(head)
  BY HeaderTypes, Zenon DEF Recorded, IsDetector, NoneAbove, Processed, HeaderInfos, NonceOf
<1>7. NoneAbove(fd', h)
  BY <1>3, <1>4, <1>5, <1>6 DEF NoneAbove
<1>8. OnePerNonce(fd')
  BY <1>3, <1>4, <1>5, <1>6 DEF OnePerNonce, Recorded
<1> QED BY <1>1, <1>2, <1>4, <1>7, <1>8 DEF Recorded

\* A received or proposed header is not recorded as processed.
LEMMA ReceiveKeeps ==
  ASSUME IsDetector(fd), NEW h \in Hashes, NEW state \in {BHReceived, BHProposed},
         fd' = ForkDetectorAfter(fd, h, state, FALSE)
  PROVE  Keeps(fd, fd')
<1>1. CASE Hdr[h].prev \in blackList
  BY <1>1, Zenon DEF ForkDetectorAfter, Keeps
<1>2. CASE Hdr[h].prev \notin blackList
  <2> PICK stuck \in BOOLEAN : stuck = FALSE
    BY Zenon
  <2>1. fd' = AddHeader(fd, h, state, index, stuck)
    BY <1>2, Zenon DEF ForkDetectorAfter
  <2>2. state # BHProcessed /\ state \in {BHProcessed, BHReceived, BHProposed}
    BY Zenon DEF BHReceived, BHProposed, BHProcessed
  <2> DEFINE e == AddHeader(fd, h, state, index, stuck)
             new == {i \in {[hash |-> h, state |-> BHProcessed]} : state = BHProcessed}
  <2>3. IsDetector(e) /\ Processed(e) \subseteq Processed(fd) \cup new
    BY <2>2, AddHeaderKeeps
  <2>4. new = {}
    BY <2>2, Zenon
  <2> HIDE DEF new, e
  <2> QED BY <2>1, <2>3, <2>4, Zenon DEF Keeps, e
<1> QED BY <1>1, <1>2, Zenon

\* ShouldSync leaves a hash in forkInfo, or none.
LEMMA ShouldSyncHash ==
  ASSUME IsDetector(fd), forkInfo.hash \in Hashes \cup {NoHash}, NEW b, ShouldSync(b)
  PROVE  forkInfo'.hash \in Hashes \cup {NoHash}
BY CheckForkHash, Zenon DEF ShouldSync
LEMMA FailedSyncStep ==
  ASSUME BootInv, NEW n, FailedSync(n)
  PROVE  head' \in store /\ Recorded(fd', head')
<1> DEFINE gone == {Hdr[h].nonce : h \in {sync.hdr} \ {NoHash}}
           d == IF gone = {} THEN fd ELSE RemoveHeaders(fd, Hdr[sync.hdr].nonce)
           reset == IF n >= MaxRequestsWithTimeoutAllowed /\ IsInProperRound(index)
                    THEN "highest" ELSE "nothing"
<1>1. RollBackLast(d, gone, reset)
  BY Zenon DEF FailedSync
<1>2. Recorded(fd, head)
  BY Zenon DEF BootInv, Recorded
<1>3. Recorded(RemoveHeaders(fd, Hdr[sync.hdr].nonce), head)
  BY <1>2, RemoveHeadersKeeps, KeepsRecorded DEF Recorded
<1>4. Recorded(d, head) /\ reset \in {"nothing", "highest", "fork"}
  BY <1>2, <1>3, Zenon
<1> HIDE DEF gone, d, reset
<1> QED BY <1>1, <1>4, RollBackLastStep, Zenon DEF BootInv

LEMMA BootInit == Init => BootInv
<1> SUFFICES ASSUME Init PROVE BootInv
  BY Zenon
<1>1. IsDetector(fd) /\ Processed(fd) = {}
  BY Zenon DEF Init, NewForkDetector, IsDetector, Fields, Processed
<1>2. NoneAbove(fd, head) /\ OnePerNonce(fd)
  BY <1>1, Zenon DEF NoneAbove, OnePerNonce
<1>3. StoreLinked /\ head \in store
  BY Zenon DEF Init, StoreLinked
<1> QED BY <1>1, <1>2, <1>3, Zenon DEF Init, BootInv, Idle, NewForkInfo

\* A step that leaves the chain, the store and the fork detector alone.
LEMMA SameChain ==
  ASSUME BootInv, UNCHANGED <<node, head, fd, store>>, pool' \subseteq Hashes,
         sync'.pc = "process" => sync'.hdr \in Hashes,
         forkInfo'.hash \in Hashes \cup {NoHash}
  PROVE  BootInv'
BY Zenon DEF BootInv, StoreLinked, Nonce

\* A step that rolls back, or changes what the fork detector has received.
LEMMA SameStore ==
  ASSUME BootInv, UNCHANGED <<node, store>>, head' \in store, Recorded(fd', head'),
         pool' \subseteq Hashes,
         sync'.pc = "process" => sync'.hdr \in Hashes,
         forkInfo'.hash \in Hashes \cup {NoHash}
  PROVE  BootInv'
<1>1. StoreLinked'
  BY Zenon DEF BootInv, StoreLinked, Nonce
<1> QED BY <1>1, Zenon DEF BootInv, Recorded

LEMMA BootNext == BootInv /\ [Next]_vars => BootInv'
<1> SUFFICES ASSUME BootInv, [Next]_vars PROVE BootInv'
  BY Zenon
<1> USE DEF chainVars, syncVars
<1>1. /\ IsDetector(fd) /\ Recorded(fd, head) /\ head \in store /\ StoreLinked /\ pool \subseteq Hashes
      /\ forkInfo.hash \in Hashes \cup {NoHash}
      /\ sync.pc = "process" => sync.hdr \in Hashes
  BY Zenon DEF BootInv, Recorded
<1>2. node.headers \subseteq Hashes
  BY BootstrapAssumption, Zenon DEF BootInv
<1>3. CASE UNCHANGED vars
  BY <1>1, <1>3, SameChain DEF vars
<1>4. CASE UpdateRound /\ UNCHANGED node
  BY <1>1, <1>4, SameChain, Zenon DEF UpdateRound
<1>5. ASSUME NEW h \in node.headers, ReceiveHeader(h), UNCHANGED node PROVE BootInv'
  <2>1. fd' = ForkDetectorAfter(fd, h, BHReceived, FALSE) /\ h \in Hashes
    BY <1>2, <1>5, Zenon DEF ReceiveHeader
  <2>2. Recorded(fd', head)
    BY <1>1, <2>1, ReceiveKeeps, KeepsRecorded, Zenon
  <2> QED BY <1>1, <1>5, <2>1, <2>2, SameStore DEF ReceiveHeader
<1>6. ASSUME NEW h \in node.headers, ReceiveProposed(h), UNCHANGED node PROVE BootInv'
  <2>1. fd' = ForkDetectorAfter(fd, h, BHProposed, FALSE) /\ h \in Hashes
    BY <1>2, <1>6, Zenon DEF ReceiveProposed
  <2>2. Recorded(fd', head)
    BY <1>1, <2>1, ReceiveKeeps, KeepsRecorded, Zenon
  <2> QED BY <1>1, <1>6, <2>2, SameStore DEF ReceiveProposed
<1>7. ASSUME NEW h \in blackList, ForgetBlackListed(h), UNCHANGED node PROVE BootInv'
  BY <1>1, <1>7, SameChain, Zenon DEF ForgetBlackListed
<1>8. CASE ConsensusStartRound /\ UNCHANGED node
  BY <1>1, <1>8, ShouldSyncHash, SameChain, Zenon DEF ConsensusStartRound
<1>9. CASE ConsensusNotSynchronized /\ UNCHANGED node
  BY <1>1, <1>9, ShouldSyncHash, SameChain, Zenon DEF ConsensusNotSynchronized
<1>10. ASSUME NEW h \in node.headers, ConsensusCommit(h), UNCHANGED node PROVE BootInv'
  <2>1. h \in Hashes /\ CommitBlock(h)
    BY <1>2, <1>10, Zenon DEF ConsensusCommit
  <2>2. head' \in store' /\ StoreLinked' /\ pool' \subseteq Hashes /\ Recorded(fd', head')
    BY <1>1, <2>1, CommitStep, Zenon
  <2> QED BY <1>1, <1>10, <2>2, Zenon DEF BootInv, ConsensusCommit, Recorded
<1>11. CASE SyncNotNeeded /\ UNCHANGED node
  BY <1>1, <1>11, ShouldSyncHash, SameChain, Zenon DEF SyncNotNeeded
<1>12. CASE RollBackOnForcedFork /\ UNCHANGED node
  <2>1. RollBackLast(fd, {}, "fork") /\ ShouldSync(TRUE)
    BY <1>12, Zenon DEF RollBackOnForcedFork
  <2>2. head' \in store /\ Recorded(fd', head')
    BY <1>1, <2>1, RollBackLastStep, Zenon
  <2> QED BY <1>1, <1>12, <2>1, <2>2, ShouldSyncHash, SameStore, Zenon DEF RollBackOnForcedFork
<1>13. CASE StartSync /\ UNCHANGED node
  BY <1>1, <1>13, ShouldSyncHash, SameChain, Zenon DEF StartSync, RollingBack, GettingHeader
<1>14. CASE RollBackToFork /\ UNCHANGED node
  <2>1. /\ head # GenesisHash /\ head' = Hdr[head].prev
        /\ fd' = RemoveHeaders(fd, Nonce(head))
    BY <1>14, Zenon DEF RollBackToFork
  <2>2. head' \in store /\ Recorded(fd', head')
    BY <1>1, <2>1, Below, BackOne
  <2> QED BY <1>1, <1>14, <2>2, SameStore DEF RollBackToFork, RollingBack, GettingHeader
<1>15. CASE RollBackFails /\ UNCHANGED node
  BY <1>1, <1>15, SameChain, Zenon DEF RollBackFails, Idle
<1>16. CASE GetHeader /\ UNCHANGED node
  <2>1. PICK h \in NextHeaders : sync' = Processing(h)
    BY <1>16, Zenon DEF GetHeader
  <2>2. h \in Hashes
    <3>1. ASSUME NEW n PROVE NotarizedHashes(n) \subseteq Hashes
      BY <1>1, Zenon DEF NotarizedHashes, IsDetector, HeaderInfos
    <3> QED BY <1>1, <2>1, <3>1, Zenon DEF NextHeaders
  <2> QED BY <1>1, <1>16, <2>1, <2>2, SameChain DEF GetHeader, Processing
<1>17. CASE SyncCommit /\ UNCHANGED node
  <2>1. sync.hdr \in Hashes /\ CommitBlock(sync.hdr) /\ sync' = Idle
    BY <1>1, <1>17, Zenon DEF SyncCommit
  <2>2. head' \in store' /\ StoreLinked' /\ pool' \subseteq Hashes /\ Recorded(fd', head')
    BY <1>1, <2>1, CommitStep
  <2> QED BY <1>1, <1>17, <2>1, <2>2 DEF BootInv, SyncCommit, Recorded, Idle
<1>18. CASE SyncTimeout /\ UNCHANGED node
  <2>1. head' \in store /\ Recorded(fd', head')
    BY <1>1, <1>18, FailedSyncStep, Zenon DEF SyncTimeout
  <2> QED BY <1>1, <1>18, <2>1, SameStore DEF SyncTimeout, Idle
<1>19. CASE SyncError /\ UNCHANGED node
  <2>1. head' \in store /\ Recorded(fd', head')
    BY <1>19, FailedSyncStep, Zenon DEF SyncError
  <2> QED BY <1>1, <1>19, <2>1, SameStore, Zenon DEF SyncError, Idle
<1> QED BY <1>3, <1>4, <1>5, <1>6, <1>7, <1>8, <1>9, <1>10, <1>11, <1>12, <1>13,
           <1>14, <1>15, <1>16, <1>17, <1>18, <1>19 DEF Next

-----------------------------------------------------------------------------
\* The invariant of the bootstrapper: what commits and roll backs leave in the
\* store, the fork detector and the chain.
THEOREM BootInvariance == Spec => []BootInv
BY BootInit, BootNext, PTL DEF Spec

\* The fork detector never has two processed headers of one nonce: CheckFork
\* compares every other header of the nonce with the one the node is on.
THEOREM ProcessedOnce == Spec => []OneProcessedPerNonce
<1>1. BootInv => OneProcessedPerNonce
  BY Zenon DEF BootInv, OnePerNonce, OneProcessedPerNonce, Processed
<1> QED BY <1>1, BootInvariance, PTL

\* The current header is one that was committed, whatever was rolled back, and
\* so is everything below it: a roll back finds the header it goes back to.
THEOREM ChainIsStored == Spec => [](head \in store /\ StoreLinked)
<1>1. BootInv => head \in store /\ StoreLinked
  BY Zenon DEF BootInv
<1> QED BY <1>1, BootInvariance, PTL

-----------------------------------------------------------------------------
(* The numbers of direct messages                                          *)

\* A number in use is one that the counter has passed.  The calls that write to
\* one peer, the messages on their way to it and those it has seen all have
\* numbers of their own.
Writing(s) == sending[s].at = "write"
In(q) == {q[i] : i \in 1 .. Len(q)}
Distinct(q) == \A i, j \in 1 .. Len(q) : q[i] = q[j] => i = j
OnTheWay(p) == In(stream[p].msgs)
DirectInv ==
  /\ counter \in Nat /\ now \in Nat
  /\ sending = [s \in Sendings |-> sending[s]]
  /\ \A s \in Sendings :
       /\ sending[s] = [at |-> sending[s].at, mutex |-> sending[s].mutex, id |-> sending[s].id]
       /\ Writing(s) => /\ sending[s].id \in 1 .. counter
                        /\ sending[s].id \notin seenMsgs[PeerOf[s]] \cup OnTheWay(PeerOf[s])
  /\ \A s, u \in Sendings : Writing(s) /\ Writing(u) /\ sending[s].id = sending[u].id => s = u
  /\ stream \in [DirectPeers -> [open : BOOLEAN, msgs : Seq(Nat)]]
  /\ seenMsgs \in [DirectPeers -> SUBSET (1 .. counter)]
  /\ refusedIds = [p \in DirectPeers |-> {}]
  /\ \A p \in DirectPeers :
       /\ OnTheWay(p) \subseteq (1 .. counter) \ seenMsgs[p]
       /\ Distinct(stream[p].msgs)

LEMMA DirectInitInv == DirectInit => DirectInv
<1> SUFFICES ASSUME DirectInit PROVE DirectInv
  BY Zenon
<1>1. \A p \in DirectPeers : stream[p] = [open |-> FALSE, msgs |-> <<>>] /\ Len(stream[p].msgs) = 0
  BY Zenon DEF DirectInit, NoStream
<1>2. \A p \in DirectPeers : OnTheWay(p) = {} /\ Distinct(stream[p].msgs)
  BY <1>1 DEF OnTheWay, In, Distinct
<1>3. stream \in [DirectPeers -> [open : BOOLEAN, msgs : Seq(Nat)]]
  BY DEF DirectInit, NoStream
<1>4. \A s \in Sendings : sending[s] = [at |-> "new", mutex |-> NoMutex, id |-> 0]
  BY Zenon DEF DirectInit, NotSending
<1>5. sending = [s \in Sendings |-> sending[s]]
  BY Zenon DEF DirectInit
<1>6. \A s \in Sendings :
        /\ ~Writing(s)
        /\ sending[s] = [at |-> sending[s].at, mutex |-> sending[s].mutex, id |-> sending[s].id]
  BY <1>4 DEF Writing
<1> QED BY <1>1, <1>2, <1>3, <1>5, <1>6 DEF DirectInit, DirectInv

\* No call gets to write, and nothing gets on its way.
CallsCalm ==
  /\ sending' = [s \in Sendings |-> sending'[s]]
  /\ \A s \in Sendings :
       /\ sending'[s] = [at |-> sending'[s].at, mutex |-> sending'[s].mutex, id |-> sending'[s].id]
       /\ Writing(s)' => Writing(s) /\ sending'[s] = sending[s]
StreamsCalm ==
  /\ stream' \in [DirectPeers -> [open : BOOLEAN, msgs : Seq(Nat)]]
  /\ \A p \in DirectPeers : stream'[p].msgs \in {stream[p].msgs, <<>>}

LEMMA CalmStep ==
  ASSUME DirectInv, UNCHANGED <<seenMsgs, refusedIds>>, counter' \in Nat, counter' >= counter, now' \in Nat,
         CallsCalm, StreamsCalm
  PROVE  DirectInv'
<1>1. \A p \in DirectPeers : OnTheWay(p)' \subseteq OnTheWay(p)
  <2> SUFFICES ASSUME NEW p \in DirectPeers PROVE OnTheWay(p)' \subseteq OnTheWay(p)
    BY Zenon
  <2>1. CASE stream'[p].msgs = stream[p].msgs
    BY <2>1 DEF OnTheWay
  <2>2. CASE stream'[p].msgs = <<>>
    BY <2>2 DEF OnTheWay, In
  <2> QED BY <2>1, <2>2 DEF StreamsCalm
<1>2. \A p \in DirectPeers : Distinct(stream'[p].msgs)
  <2> SUFFICES ASSUME NEW p \in DirectPeers PROVE Distinct(stream'[p].msgs)
    BY Zenon
  <2>1. CASE stream'[p].msgs = stream[p].msgs
    BY <2>1, Zenon DEF DirectInv
  <2>2. CASE stream'[p].msgs = <<>>
    BY <2>2 DEF Distinct
  <2> QED BY <2>1, <2>2, Zenon DEF StreamsCalm
<1>3. \A u \in Sendings : PeerOf[u] \in DirectPeers
  BY DirectAssumption, Zenon
<1>4. (1 .. counter) \subseteq 1 .. counter'
  BY DEF DirectInv
<1>5. \A u \in Sendings : Writing(u)' => /\ sending'[u].id \in 1 .. counter'
                                         /\ sending'[u].id \notin seenMsgs'[PeerOf[u]] \cup OnTheWay(PeerOf[u])'
  BY <1>1, <1>3, <1>4, Zenon DEF DirectInv, CallsCalm
<1>6. \A u, v \in Sendings : Writing(u)' /\ Writing(v)' /\ sending'[u].id = sending'[v].id => u = v
  BY Zenon DEF DirectInv, CallsCalm
<1>7. seenMsgs' \in [DirectPeers -> SUBSET (1 .. counter')] /\ refusedIds' = [p \in DirectPeers |-> {}]
  BY <1>4 DEF DirectInv
<1>8. \A p \in DirectPeers : OnTheWay(p)' \subseteq (1 .. counter') \ seenMsgs'[p]
  BY <1>1, <1>4 DEF DirectInv
<1> QED BY <1>2, <1>5, <1>6, <1>7, <1>8 DEF DirectInv, CallsCalm, StreamsCalm

\* A call takes a step that is not createMessage.
LEMMA CallCalm ==
  ASSUME DirectInv, NEW s \in Sendings, NEW a, a # "write", NEW mx, NEW i,
         sending' = [sending EXCEPT ![s] = [at |-> a, mutex |-> mx, id |-> i]]
  PROVE  CallsCalm
<1>1. sending' = [u \in Sendings |-> sending'[u]]
  BY Zenon DEF DirectInv
<1>2. \A u \in Sendings : u # s => sending'[u] = sending[u]
  BY Zenon DEF DirectInv
<1>3. sending'[s] = [at |-> a, mutex |-> mx, id |-> i]
  BY Zenon DEF DirectInv
<1>4. \A u \in Sendings : Writing(u)' => Writing(u) /\ sending'[u] = sending[u]
  BY <1>2, <1>3 DEF Writing
<1>6. \A u \in Sendings : sending'[u] = [at |-> sending'[u].at, mutex |-> sending'[u].mutex, id |-> sending'[u].id]
  BY <1>2, <1>3, Zenon DEF DirectInv
<1> QED BY <1>1, <1>4, <1>6 DEF CallsCalm

LEMMA SameCalm ==
  ASSUME DirectInv
  PROVE  (sending' = sending => CallsCalm) /\ (stream' = stream => StreamsCalm)
BY Zenon DEF DirectInv, CallsCalm, StreamsCalm, Writing

\* Before a message has its number: the mutex, the lock, the stream.
LEMMA CallSteps ==
  ASSUME DirectInv, NEW s \in Sendings, GetsMutex(s) \/ LocksPeer(s) \/ getOrCreateStream(s)
  PROVE  DirectInv'
<1>1. /\ UNCHANGED <<seenMsgs, refusedIds>>
      /\ counter' \in Nat /\ counter' >= counter /\ now' \in Nat
  <2>1. UNCHANGED <<counter, seenMsgs, refusedIds, now>>
    BY Zenon DEF GetsMutex, LocksPeer, getOrCreateStream
  <2> QED BY <2>1 DEF DirectInv
<1>2. sending[s] = [at |-> sending[s].at, mutex |-> sending[s].mutex, id |-> sending[s].id]
  BY Zenon DEF DirectInv
<1>3. [NotSending EXCEPT !.at = "failed"] = [at |-> "failed", mutex |-> NoMutex, id |-> 0]
  BY DEF NotSending
<1>4. CASE GetsMutex(s)
  <2> PICK x : x = mutexes'[Len(mutexes')][2]
    BY Zenon
  <2>1. sending' = [sending EXCEPT ![s] = [at |-> "lock", mutex |-> x, id |-> 0]] /\ stream' = stream
    BY <1>4, Zenon DEF GetsMutex
  <2>2. CallsCalm
    BY <2>1, CallCalm, Zenon
  <2> QED BY <1>1, <2>1, <2>2, CalmStep, SameCalm, Zenon
<1>5. CASE LocksPeer(s)
  <2>1. [sending[s] EXCEPT !.at = "stream?"] = [at |-> "stream?", mutex |-> sending[s].mutex, id |-> sending[s].id]
    BY <1>2
  <2>2. \/ sending' = [sending EXCEPT ![s] = [at |-> "stream?", mutex |-> sending[s].mutex, id |-> sending[s].id]]
        \/ sending' = [sending EXCEPT ![s] = [at |-> "failed", mutex |-> NoMutex, id |-> 0]]
    BY <1>5, <1>3, <2>1, Zenon DEF LocksPeer
  <2>3. CallsCalm
    BY <2>2, CallCalm
  <2>4. stream' = stream
    BY <1>5, Zenon DEF LocksPeer
  <2> QED BY <1>1, <2>3, <2>4, CalmStep, SameCalm
<1>6. CASE getOrCreateStream(s)
  <2>1. [sending[s] EXCEPT !.at = "message?"] = [at |-> "message?", mutex |-> sending[s].mutex, id |-> sending[s].id]
    BY <1>2
  <2>2. \/ sending' = [sending EXCEPT ![s] = [at |-> "message?", mutex |-> sending[s].mutex, id |-> sending[s].id]]
        \/ sending' = [sending EXCEPT ![s] = [at |-> "failed", mutex |-> NoMutex, id |-> 0]]
    BY <1>6, <1>3, <2>1 DEF getOrCreateStream
  <2>3. CallsCalm
    BY <2>2, CallCalm
  <2>4. StreamsCalm
    <3>1. CASE stream' = [stream EXCEPT ![PeerOf[s]] = [@ EXCEPT !.open = TRUE]]
      <4>1. PeerOf[s] \in DirectPeers
        BY DirectAssumption, Zenon
      <4>2. stream \in [DirectPeers -> [open : BOOLEAN, msgs : Seq(Nat)]]
        BY Zenon DEF DirectInv
      <4>3. stream' \in [DirectPeers -> [open : BOOLEAN, msgs : Seq(Nat)]]
        BY <3>1, <4>1, <4>2, Zenon
      <4>4. \A p \in DirectPeers : stream'[p].msgs = stream[p].msgs
        BY <3>1, <4>1, <4>2
      <4> QED BY <4>3, <4>4, Zenon DEF StreamsCalm
    <3> QED BY <1>6, <3>1, SameCalm, Zenon DEF getOrCreateStream
  <2> QED BY <1>1, <2>3, <2>4, CalmStep, Zenon
<1> QED BY <1>4, <1>5, <1>6

\* A connection breaks or is made, time passes, or the node starts again with a
\* counter that is ahead of every number it used.
LEMMA SurroundingsStep ==
  ASSUME ~ClockSetBack, DirectInv,
         \/ \E p \in DirectPeers : LinkBreaks(p) \/ LinkMade(p)
         \/ ClockAdvances \/ NodeRestarts \/ UNCHANGED directVars
  PROVE  DirectInv'
<1>1. ASSUME NEW p \in DirectPeers, LinkBreaks(p) PROVE DirectInv'
  <2>1. StreamsCalm
    BY <1>1 DEF LinkBreaks, DirectInv, StreamsCalm, NoStream
  <2>2. UNCHANGED <<sending, counter, seenMsgs, refusedIds, now>>
    BY <1>1, Zenon DEF LinkBreaks
  <2>3. counter' \in Nat /\ counter' >= counter /\ now' \in Nat
    BY <2>2 DEF DirectInv
  <2> QED BY <2>1, <2>2, <2>3, CalmStep, SameCalm
<1>2. ASSUME NodeRestarts PROVE DirectInv'
  <2>1. StreamsCalm
    BY <1>2 DEF NodeRestarts, StreamsCalm, NoStream
  <2>2. [NotSending EXCEPT !.at = "failed"] = [at |-> "failed", mutex |-> NoMutex, id |-> 0]
    BY DEF NotSending
  <2>3. \A s \in Sendings : sending'[s] \in {sending[s], [at |-> "failed", mutex |-> NoMutex, id |-> 0]}
    BY <1>2, <2>2, Zenon DEF NodeRestarts
  <2>4. sending' = [s \in Sendings |-> sending'[s]]
    BY <1>2, Zenon DEF NodeRestarts
  <2>5. CallsCalm
    BY <2>3, <2>4 DEF CallsCalm, Writing, DirectInv
  <2>6. counter' = now /\ now > counter /\ UNCHANGED <<seenMsgs, refusedIds, now>>
    BY <1>2, Zenon DEF NodeRestarts, NewDirectSender
  <2> QED BY <2>1, <2>5, <2>6, CalmStep DEF DirectInv
<1>3. ASSUME (\E p \in DirectPeers : LinkMade(p)) \/ ClockAdvances \/ UNCHANGED directVars PROVE DirectInv'
  <2>1. UNCHANGED <<sending, stream, counter, seenMsgs, refusedIds>> /\ now' \in Nat
    <3>1. now \in Nat
      BY Zenon DEF DirectInv
    <3>2. UNCHANGED <<sending, stream, counter, seenMsgs, refusedIds>> /\ (now' = now \/ now' = now + 1)
      BY <1>3, Zenon DEF LinkMade, ClockAdvances, directVars
    <3> QED BY <3>1, <3>2
  <2> QED BY <2>1, CalmStep, SameCalm DEF DirectInv
<1> QED BY <1>1, <1>2, <1>3

\* createMessage gives the call a number that nothing else has.
LEMMA NumberStep ==
  ASSUME DirectInv, NEW s \in Sendings, createMessage(s)
  PROVE  DirectInv'
<1>1. /\ counter' = counter + 1 /\ UNCHANGED <<stream, seenMsgs, refusedIds, now>>
      /\ sending' = [sending EXCEPT ![s] = [sending[s] EXCEPT !.at = "write", !.id = counter + 1]]
  BY Zenon DEF createMessage, NextSeqno
<1>2. sending[s] = [at |-> sending[s].at, mutex |-> sending[s].mutex, id |-> sending[s].id]
  BY Zenon DEF DirectInv
<1>3. /\ \A u \in Sendings : u # s => sending'[u] = sending[u]
      /\ sending'[s] = [at |-> "write", mutex |-> sending[s].mutex, id |-> counter + 1]
      /\ sending' = [u \in Sendings |-> sending'[u]]
  BY <1>1, <1>2, Zenon DEF DirectInv
<1>4. counter \in Nat /\ counter' \in Nat /\ (1 .. counter) \subseteq 1 .. counter'
      /\ counter + 1 \notin 1 .. counter /\ counter + 1 \in 1 .. counter'
  BY <1>1 DEF DirectInv
<1>5. \A p \in DirectPeers : OnTheWay(p)' = OnTheWay(p)
  BY <1>1, Zenon DEF OnTheWay
<1>6. \A u \in Sendings : PeerOf[u] \in DirectPeers
  BY DirectAssumption, Zenon
<1>7. \A u \in Sendings : u # s /\ Writing(u)' => Writing(u)
  BY <1>3, Zenon DEF Writing
<1>8. counter + 1 \notin seenMsgs[PeerOf[s]] \cup OnTheWay(PeerOf[s])
  BY <1>4, <1>6, Zenon DEF DirectInv
<1>9. \A u \in Sendings : Writing(u)' => /\ sending'[u].id \in 1 .. counter'
                                         /\ sending'[u].id \notin seenMsgs'[PeerOf[u]] \cup OnTheWay(PeerOf[u])'
  <2> TAKE u \in Sendings
  <2>1. CASE u = s
    BY <2>1, <1>1, <1>3, <1>4, <1>5, <1>6, <1>8
  <2>2. CASE u # s
    BY <2>2, <1>1, <1>3, <1>4, <1>5, <1>6, <1>7 DEF DirectInv
  <2> QED BY <2>1, <2>2, Zenon
<1>10. \A u, v \in Sendings : Writing(u)' /\ Writing(v)' /\ sending'[u].id = sending'[v].id => u = v
  <2> TAKE u, v \in Sendings
  <2>1. \A x \in Sendings : x # s /\ Writing(x)' => sending'[x].id = sending[x].id /\ sending[x].id # counter + 1
    BY <1>3, <1>4, <1>7 DEF DirectInv
  <2>2. sending'[s].id = counter + 1
    BY <1>3
  <2>3. CASE u # s /\ v # s
    BY <2>1, <2>3, <1>7, Zenon DEF DirectInv
  <2> QED BY <2>1, <2>2, <2>3
<1>11. \A u \in Sendings : sending'[u] = [at |-> sending'[u].at, mutex |-> sending'[u].mutex, id |-> sending'[u].id]
  BY <1>3, Zenon DEF DirectInv
<1>12. seenMsgs' \in [DirectPeers -> SUBSET (1 .. counter')]
  BY <1>1, <1>4, Zenon DEF DirectInv
<1>13. \A p \in DirectPeers : OnTheWay(p)' \subseteq (1 .. counter') \ seenMsgs'[p]
  BY <1>1, <1>4, <1>5, Zenon DEF DirectInv
<1> QED BY <1>1, <1>3, <1>4, <1>9, <1>10, <1>11, <1>12, <1>13, Zenon DEF DirectInv

\* Appending to the messages on their way, and taking the first of them.
LEMMA MsgsGrow ==
  ASSUME NEW q \in Seq(Nat), NEW n \in Nat, Distinct(q), n \notin In(q)
  PROVE  Append(q, n) \in Seq(Nat) /\ Distinct(Append(q, n)) /\ In(Append(q, n)) = In(q) \cup {n}
<1>1. /\ Append(q, n) \in Seq(Nat) /\ Len(Append(q, n)) = Len(q) + 1 /\ Len(q) \in Nat
      /\ \A i \in 1 .. Len(q) : Append(q, n)[i] = q[i]
      /\ Append(q, n)[Len(q) + 1] = n
  OBVIOUS
<1>2. 1 .. Len(q) + 1 = (1 .. Len(q)) \cup {Len(q) + 1}
  BY <1>1
<1>3. In(Append(q, n)) = In(q) \cup {n}
  BY <1>1, <1>2 DEF In
<1>4. \A i \in 1 .. Len(q) : q[i] # n
  BY Zenon DEF In
<1>5. Distinct(Append(q, n))
  <2> SUFFICES ASSUME NEW i \in 1 .. Len(q) + 1, NEW j \in 1 .. Len(q) + 1, Append(q, n)[i] = Append(q, n)[j]
               PROVE  i = j
    BY <1>1, Zenon DEF Distinct
  <2>1. CASE i = Len(q) + 1
    BY <2>1, <1>1, <1>4
  <2>2. CASE j = Len(q) + 1
    BY <2>2, <1>1, <1>4
  <2>3. CASE i \in 1 .. Len(q) /\ j \in 1 .. Len(q)
    <3>1. q[i] = q[j]
      BY <1>1, <2>3
    <3> QED BY <3>1, <2>3 DEF Distinct
  <2> QED BY <2>1, <2>2, <2>3, <1>2, Zenon
<1> QED BY <1>1, <1>3, <1>5

LEMMA MsgsShrink ==
  ASSUME NEW q \in Seq(Nat), q # <<>>, Distinct(q)
  PROVE  /\ Tail(q) \in Seq(Nat) /\ Distinct(Tail(q))
         /\ Head(q) \in In(q) \ In(Tail(q)) /\ In(Tail(q)) \subseteq In(q)
<1>1. /\ Tail(q) \in Seq(Nat) /\ Len(Tail(q)) = Len(q) - 1 /\ Len(q) \in Nat \ {0}
      /\ Head(q) = q[1] /\ \A i \in 1 .. Len(q) - 1 : Tail(q)[i] = q[i + 1]
  OBVIOUS
<1>2. \A i \in 1 .. Len(q) - 1 : i + 1 \in 1 .. Len(q) /\ i + 1 # 1
  BY <1>1
<1>3. 1 \in 1 .. Len(q)
  BY <1>1
<1>4. Distinct(Tail(q))
  <2> SUFFICES ASSUME NEW i \in 1 .. Len(q) - 1, NEW j \in 1 .. Len(q) - 1, Tail(q)[i] = Tail(q)[j]
               PROVE  i = j
    BY <1>1, Zenon DEF Distinct
  <2>1. q[i + 1] = q[j + 1]
    BY <1>1, Zenon
  <2>2. i + 1 = j + 1
    BY <2>1, <1>2, Zenon DEF Distinct
  <2> QED BY <2>2, <1>1
<1>5. \A i \in 1 .. Len(q) - 1 : Tail(q)[i] # Head(q) /\ Tail(q)[i] \in In(q)
  <2> SUFFICES ASSUME NEW i \in 1 .. Len(q) - 1 PROVE Tail(q)[i] # Head(q) /\ Tail(q)[i] \in In(q)
    BY Zenon
  <2>1. Tail(q)[i] = q[i + 1] /\ i + 1 \in 1 .. Len(q) /\ i + 1 # 1
    BY <1>1, <1>2
  <2> QED BY <2>1, <1>1, <1>3 DEF Distinct, In
<1>6. Head(q) \in In(q)
  BY <1>1, <1>3 DEF In
<1>7. In(Tail(q)) \subseteq In(q) /\ Head(q) \notin In(Tail(q))
  BY <1>1, <1>5 DEF In
<1> QED BY <1>1, <1>4, <1>6, <1>7

\* WriteMsg puts the number on its way, as the last of its stream, and the call
\* is over; or it fails and the number is given up.
LEMMA WriteStep ==
  ASSUME DirectInv, NEW s \in Sendings, Writes(s)
  PROVE  DirectInv'
<1>1. UNCHANGED <<counter, seenMsgs, refusedIds, now>> /\ Writing(s)
  BY Zenon DEF Writes, Writing
<1>2. [NotSending EXCEPT !.at = "failed"] = [at |-> "failed", mutex |-> NoMutex, id |-> 0]
      /\ [NotSending EXCEPT !.at = "sent"] = [at |-> "sent", mutex |-> NoMutex, id |-> 0]
  BY DEF NotSending
<1>3. CallsCalm /\ ~Writing(s)'
  <2>1. \/ sending' = [sending EXCEPT ![s] = [at |-> "failed", mutex |-> NoMutex, id |-> 0]]
        \/ sending' = [sending EXCEPT ![s] = [at |-> "sent", mutex |-> NoMutex, id |-> 0]]
    BY <1>2, Zenon DEF Writes
  <2>2. CallsCalm
    BY <2>1, CallCalm, Zenon
  <2>3. sending'[s].at \in {"failed", "sent"}
    BY <2>1 DEF DirectInv
  <2> QED BY <2>2, <2>3 DEF Writing
<1>4. counter' \in Nat /\ counter' >= counter /\ now' \in Nat
  BY <1>1 DEF DirectInv
<1>5. CASE stream' = stream
  BY <1>1, <1>3, <1>4, <1>5, CalmStep, SameCalm, Zenon
<1>6. CASE stream' = [stream EXCEPT ![PeerOf[s]].msgs = Append(@, sending[s].id)]
  <2> PICK p \in DirectPeers : p = PeerOf[s]
    BY DirectAssumption, Zenon
  <2> PICK n \in Nat : n = sending[s].id
    BY <1>1 DEF DirectInv
  <2> PICK q \in Seq(Nat) : q = stream[p].msgs
    BY Zenon DEF DirectInv
  <2>1. n \in 1 .. counter /\ n \notin seenMsgs[p] \cup OnTheWay(p)
    BY <1>1, Zenon DEF DirectInv
  <2>4. Distinct(q) /\ n \notin In(q)
    BY <2>1, Zenon DEF DirectInv, OnTheWay
  <2>5. Append(q, n) \in Seq(Nat) /\ Distinct(Append(q, n)) /\ In(Append(q, n)) = In(q) \cup {n}
    BY <2>4, MsgsGrow, Zenon
  <2>2. /\ stream' \in [DirectPeers -> [open : BOOLEAN, msgs : Seq(Nat)]]
        /\ stream'[p].msgs = Append(q, n)
        /\ \A r \in DirectPeers : r # p => stream'[r] = stream[r]
    <3> PICK x \in Seq(Nat) : x = Append(q, n)
      BY <2>5, Zenon
    <3>1. stream' = [stream EXCEPT ![p].msgs = x]
      BY <1>6, Zenon
    <3>2. stream \in [DirectPeers -> [open : BOOLEAN, msgs : Seq(Nat)]]
      BY Zenon DEF DirectInv
    <3>3. /\ stream' \in [DirectPeers -> [open : BOOLEAN, msgs : Seq(Nat)]] /\ stream'[p].msgs = x
          /\ \A r \in DirectPeers : r # p => stream'[r] = stream[r]
      BY <3>1, <3>2, Zenon
    <3> QED BY <3>3, Zenon
  <2>3. \A r \in DirectPeers : r # p => OnTheWay(r)' = OnTheWay(r)
    BY <2>2, Zenon DEF OnTheWay
  <2>6. OnTheWay(p)' = OnTheWay(p) \cup {n}
    BY <2>2, <2>5, Zenon DEF OnTheWay
  <2>7. Distinct(stream'[p].msgs)
    BY <2>2, <2>5, Zenon
  <2>8. \A u \in Sendings : Writing(u)' => u # s /\ Writing(u) /\ sending'[u] = sending[u]
    BY <1>3, Zenon DEF CallsCalm
  <2>9. \A u \in Sendings : Writing(u)' => sending[u].id # n
    BY <1>1, <2>8 DEF DirectInv
  <2>10. \A u \in Sendings : PeerOf[u] \in DirectPeers
    BY DirectAssumption, Zenon
  <2>11. \A u \in Sendings : Writing(u)' => /\ sending'[u].id \in 1 .. counter'
                                            /\ sending'[u].id \notin seenMsgs'[PeerOf[u]] \cup OnTheWay(PeerOf[u])'
    <3> TAKE u \in Sendings
    <3> HAVE Writing(u)'
    <3>1. /\ sending[u].id \in 1 .. counter /\ sending[u].id # n /\ sending'[u].id = sending[u].id
          /\ sending[u].id \notin seenMsgs[PeerOf[u]] \cup OnTheWay(PeerOf[u])
      BY <2>8, <2>9 DEF DirectInv
    <3> QED BY <3>1, <1>1, <2>3, <2>6, <2>10, Zenon
  <2>12. \A u, v \in Sendings : Writing(u)' /\ Writing(v)' /\ sending'[u].id = sending'[v].id => u = v
    BY <2>8, Zenon DEF DirectInv
  <2>13. \A r \in DirectPeers :
           /\ OnTheWay(r)' \subseteq (1 .. counter') \ seenMsgs'[r]
           /\ Distinct(stream'[r].msgs)
    <3> SUFFICES ASSUME NEW r \in DirectPeers
                 PROVE  /\ OnTheWay(r)' \subseteq (1 .. counter') \ seenMsgs'[r]
                        /\ Distinct(stream'[r].msgs)
      BY Zenon
    <3>1. CASE r = p
      <4>1. OnTheWay(p) \subseteq (1 .. counter) \ seenMsgs[p]
        BY Zenon DEF DirectInv
      <4>2. OnTheWay(p)' \subseteq (1 .. counter') \ seenMsgs'[p]
        BY <1>1, <2>1, <2>6, <4>1, Zenon
      <4> QED BY <3>1, <4>2, <2>2, <2>7, Zenon
    <3>2. CASE r # p
      BY <3>2, <1>1, <2>2, <2>3, Zenon DEF DirectInv
    <3> QED BY <3>1, <3>2, Zenon
  <2>14. /\ seenMsgs' \in [DirectPeers -> SUBSET (1 .. counter')] /\ refusedIds' = [r \in DirectPeers |-> {}]
    BY <1>1, Zenon DEF DirectInv
  <2> QED BY <1>3, <1>4, <2>2, <2>11, <2>12, <2>13, <2>14, Zenon DEF DirectInv, CallsCalm
<1> QED BY <1>5, <1>6 DEF Writes

\* directStreamHandler takes the first message of a stream: it was not seen.
LEMMA ReceiveStep ==
  ASSUME DirectInv, NEW p \in DirectPeers, directStreamHandler(p)
  PROVE  DirectInv'
<1> PICK q \in Seq(Nat) : q = stream[p].msgs
  BY Zenon DEF DirectInv
<1>1. q # <<>> /\ UNCHANGED <<sending, counter, now>>
      /\ stream' = [stream EXCEPT ![p].msgs = Tail(@)]
  BY Zenon DEF directStreamHandler
<1>2. Distinct(q) /\ In(q) = OnTheWay(p) /\ In(q) \subseteq (1 .. counter) \ seenMsgs[p]
  BY Zenon DEF DirectInv, OnTheWay
<1>3. /\ Tail(q) \in Seq(Nat) /\ Distinct(Tail(q))
      /\ Head(q) \in In(q) \ In(Tail(q)) /\ In(Tail(q)) \subseteq In(q)
  BY <1>1, <1>2, MsgsShrink, Zenon
<1> PICK h : h = Head(q)
  BY Zenon
<1>4. h \notin seenMsgs[p] /\ h \in 1 .. counter /\ h \in OnTheWay(p)
  BY <1>2, <1>3, Zenon
<1>5. seenMsgs' = [seenMsgs EXCEPT ![p] = @ \cup {h}] /\ refusedIds' = refusedIds
  BY <1>4, Zenon DEF directStreamHandler, checkAndSetSeenMessage
<1>6. /\ stream' \in [DirectPeers -> [open : BOOLEAN, msgs : Seq(Nat)]] /\ stream'[p].msgs = Tail(q)
      /\ \A r \in DirectPeers : r # p => stream'[r] = stream[r]
  <2> PICK x \in Seq(Nat) : x = Tail(q)
    BY <1>3, Zenon
  <2>1. stream' = [stream EXCEPT ![p].msgs = x]
    BY <1>1, Zenon
  <2>2. stream \in [DirectPeers -> [open : BOOLEAN, msgs : Seq(Nat)]]
    BY Zenon DEF DirectInv
  <2>3. /\ stream' \in [DirectPeers -> [open : BOOLEAN, msgs : Seq(Nat)]] /\ stream'[p].msgs = x
        /\ \A r \in DirectPeers : r # p => stream'[r] = stream[r]
    BY <2>1, <2>2, Zenon
  <2> QED BY <2>3, Zenon
<1>7. /\ seenMsgs' \in [DirectPeers -> SUBSET (1 .. counter)] /\ seenMsgs'[p] = seenMsgs[p] \cup {h}
      /\ \A r \in DirectPeers : r # p => seenMsgs'[r] = seenMsgs[r]
  BY <1>4, <1>5 DEF DirectInv
<1>8. /\ OnTheWay(p)' \subseteq OnTheWay(p) \ {h}
      /\ \A r \in DirectPeers : r # p => OnTheWay(r)' = OnTheWay(r)
  BY <1>2, <1>3, <1>6, Zenon DEF OnTheWay
<1>9. \A r \in DirectPeers : seenMsgs'[r] \cup OnTheWay(r)' \subseteq seenMsgs[r] \cup OnTheWay(r)
  BY <1>4, <1>7, <1>8
<1>10. \A u \in Sendings : PeerOf[u] \in DirectPeers /\ (Writing(u)' <=> Writing(u))
  BY <1>1, DirectAssumption DEF Writing
<1>11. \A r \in DirectPeers : OnTheWay(r)' \subseteq (1 .. counter) \ seenMsgs'[r] /\ Distinct(stream'[r].msgs)
  <2> SUFFICES ASSUME NEW r \in DirectPeers
               PROVE  OnTheWay(r)' \subseteq (1 .. counter) \ seenMsgs'[r] /\ Distinct(stream'[r].msgs)
    BY Zenon
  <2>1. CASE r = p
    BY <2>1, <1>2, <1>3, <1>6, <1>7, <1>8
  <2>2. CASE r # p
    BY <2>2, <1>6, <1>7, <1>8 DEF DirectInv
  <2> QED BY <2>1, <2>2
<1>12. \A u \in Sendings :
         /\ sending[u] = [at |-> sending[u].at, mutex |-> sending[u].mutex, id |-> sending[u].id]
         /\ Writing(u)' => /\ sending[u].id \in 1 .. counter
                           /\ sending[u].id \notin seenMsgs'[PeerOf[u]] \cup OnTheWay(PeerOf[u])'
  BY <1>9, <1>10, Zenon DEF DirectInv
<1>13. \A u, v \in Sendings : Writing(u)' /\ Writing(v)' /\ sending[u].id = sending[v].id => u = v
  BY <1>10, Zenon DEF DirectInv
<1> QED BY <1>1, <1>5, <1>6, <1>7, <1>11, <1>12, <1>13, Zenon DEF DirectInv

\* checkAndSetSeenMessage never refuses a message: the numbers of NextSeqno are
\* never used twice, by concurrent calls, to several peers or after a restart, as
\* long as the clock is not set back while the node is down.
THEOREM SeenOnce ==
  ASSUME ~ClockSetBack
  PROVE  DirectSpec => []NothingTakenForSeen
<1>1. DirectInv /\ [DirectNext]_directVars => DirectInv'
  BY CallSteps, NumberStep, WriteStep, ReceiveStep, SurroundingsStep DEF DirectNext
<1>2. DirectInv => NothingTakenForSeen
  BY Zenon DEF DirectInv, NothingTakenForSeen
<1> QED BY <1>1, <1>2, DirectInitInv, PTL DEF DirectSpec

=============================================================================
