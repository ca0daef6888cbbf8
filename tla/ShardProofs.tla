----------------------------- MODULE ShardProofs -----------------------------
(***************************************************************************)
(* TLAPS proofs about ShardProcessor, for any meta blocks, mini blocks,    *)
(* rounds and bounds: as long as the node does not restart, no mini block  *)
(* is executed twice or skipped, and what the node remembers of the chain  *)
(* (processedMiniBlocks, notarizedHdrs, the MetaBlockUnit storage) is what *)
(* the chain says, whatever was committed, abandoned or rolled back.       *)
(***************************************************************************)
EXTENDS ShardProcessor, TLAPS

\* K is the last meta block the chain c has executed completely: it has executed
\* everything up to K, a part of K + 1 at most, and nothing else.
Summary(c, K) ==
  /\ c \in Seq(Block) /\ K \in 0 .. MaxMeta
  /\ \A m \in ListedIn(c) : m \in Metas /\ m <= K + 1
  /\ K = 0 \/ K \in ListedIn(c)
  /\ \A x \in ExecutedIn(c) : \E m \in ListedIn(c) : x \in MbsOf[m]
  /\ \A m \in 1 .. K : MbsOf[m] \subseteq ExecutedIn(c)
  /\ K + 1 \in ListedIn(c) => ~(MbsOf[K + 1] \subseteq ExecutedIn(c))

-----------------------------------------------------------------------------
(* Sequences and maxima                                                    *)

LEMMA MaxIs ==
  ASSUME NEW S \in SUBSET Nat, NEW x \in S, \A y \in S : y <= x
  PROVE  Max(S) = x
<1>1. \A y \in S : (\A z \in S : y >= z) <=> y = x
  OBVIOUS
<1> QED BY <1>1, Zenon DEF Max

LEMMA ChainFacts ==
  ASSUME NEW c \in Seq(Block), NEW b \in Block
  PROVE  /\ Append(c, b) \in Seq(Block)
         /\ ExecutedIn(Append(c, b)) = ExecutedIn(c) \cup b.mbs
         /\ ListedIn(Append(c, b)) = ListedIn(c) \cup b.metas
<1>1. /\ Append(c, b) \in Seq(Block) /\ DOMAIN Append(c, b) = DOMAIN c \cup {Len(c) + 1}
      /\ Append(c, b)[Len(c) + 1] = b /\ \A i \in DOMAIN c : Append(c, b)[i] = c[i]
  OBVIOUS
<1>2. /\ \A x : x \in ExecutedIn(Append(c, b)) <=> x \in ExecutedIn(c) \cup b.mbs
      /\ \A x : x \in ListedIn(Append(c, b)) <=> x \in ListedIn(c) \cup b.metas
  BY <1>1 DEF ExecutedIn, ListedIn
<1> QED BY <1>1, <1>2, Zenon

LEMMA EmptyChain == Summary(<<>>, 0)
<1>1. ExecutedIn(<<>>) = {} /\ ListedIn(<<>>) = {}
  BY DEF ExecutedIn, ListedIn
<1> QED BY <1>1, BoundsAssumption DEF Summary

-----------------------------------------------------------------------------
(* What a chain has executed                                               *)

LEMMA MbsApart ==
  ASSUME NEW m \in Metas, NEW n \in Metas, NEW x \in MbsOf[m], x \in MbsOf[n]
  PROVE  m = n
BY MbsAssumption, Zenon

LEMMA CompleteIs ==
  ASSUME NEW c, NEW K, Summary(c, K)
  PROVE  CompleteIn(c) = K
<1> DEFINE S == {Genesis} \cup {m \in ListedIn(c) : MbsOf[m] \subseteq ExecutedIn(c)}
<1>1. S \in SUBSET Nat /\ K \in S
  BY BoundsAssumption DEF Summary, Metas, Genesis
<1>2. \A y \in S : y <= K
  BY <1>1, BoundsAssumption DEF Summary, Metas, Genesis
<1> HIDE DEF S
<1>3. Max(S) = K
  BY <1>1, <1>2, MaxIs
<1> QED BY <1>3, Zenon DEF CompleteIn, S

\* Beyond the last complete meta block only the next one has executed parts.
LEMMA NoneBeyond ==
  ASSUME NEW c, NEW K, Summary(c, K), NEW m \in Metas, m > K + 1
  PROVE  MbsOf[m] \cap ExecutedIn(c) = {}
<1> SUFFICES ASSUME NEW x \in MbsOf[m], x \in ExecutedIn(c) PROVE FALSE
  BY Zenon
<1>1. PICK n \in ListedIn(c) : x \in MbsOf[n]
  BY Zenon DEF Summary
<1>2. n \in Metas /\ n <= K + 1 /\ K \in Nat
  BY <1>1, BoundsAssumption DEF Summary
<1>3. m = n
  BY <1>1, <1>2, MbsApart, Zenon
<1> QED BY <1>2, <1>3 DEF Metas

LEMMA NextIncomplete ==
  ASSUME NEW c, NEW K, Summary(c, K), K + 1 \in Metas, MbsOf[K + 1] \subseteq ExecutedIn(c)
  PROVE  MbsOf[K + 1] = {}
<1> SUFFICES ASSUME NEW x \in MbsOf[K + 1] PROVE FALSE
  BY Zenon
<1>1. PICK n \in ListedIn(c) : x \in MbsOf[n]
  BY Zenon DEF Summary
<1>2. n = K + 1
  BY <1>1, MbsApart, Zenon DEF Summary
<1> QED BY <1>1, <1>2, Zenon DEF Summary

-----------------------------------------------------------------------------
(* One more block                                                          *)

\* Of the meta blocks after the last complete one a block gets what the chain
\* has not executed.
LEMMA RestIs ==
  ASSUME NEW c, NEW K, Summary(c, K), NEW m \in Metas, m > K
  PROVE  /\ PartlyIn(c)[m] = MbsOf[m] \cap ExecutedIn(c)
         /\ MbsOf[m] \ PartlyIn(c)[m] = MbsOf[m] \ ExecutedIn(c)
<1>1. CompleteIn(c) = K
  BY CompleteIs, Zenon
<1>2. PartlyIn(c)[m] = MbsOf[m] \cap ExecutedIn(c)
  BY <1>1, Zenon DEF PartlyIn
<1> QED BY <1>2, Zenon

\* The block takes the meta blocks K + 1 .. k, all but k completely.
Takes(c, b, K, k) ==
  /\ k \in (K + 1) .. (MaxMeta - 1)
  /\ b.metas = (K + 1) .. k
  /\ \A x : x \in b.mbs => x \notin ExecutedIn(c) /\ \E m \in (K + 1) .. k : x \in MbsOf[m]
  /\ \A m \in (K + 1) .. (k - 1) : MbsOf[m] \subseteq ExecutedIn(c) \cup b.mbs
  /\ MbsOf[k] \cap b.mbs = {} => MbsOf[k] = {}

LEMMA ContentsTake ==
  ASSUME NEW c, NEW K, Summary(c, K), NEW b \in Contents(K, PartlyIn(c))
  PROVE  \/ b.metas = {} /\ b.mbs = {}
         \/ \E k \in (K + 1) .. (MaxMeta - 1) : Takes(c, b, K, k)
<1> DEFINE done == PartlyIn(c)
           Rest(m) == MbsOf[m] \ done[m]
           Full(k) == UNION {Rest(m) : m \in (K + 1)..(k - 1)}
           Used(k) == {m \in (K + 1)..k : MbsOf[m] = {} \/ Rest(m) # {}}
           Parts(k) == {p \in SUBSET Rest(k) : p = {} => Rest(k) = {}}
<1> USE BoundsAssumption
<1>1. K \in Nat /\ MaxMeta \in Nat
  BY DEF Summary
<1>2. ASSUME NEW m \in Metas, m > K
      PROVE  Rest(m) = MbsOf[m] \ ExecutedIn(c)
  BY <1>2, RestIs, Zenon
<1>3. ASSUME NEW m \in Metas, m > K, MbsOf[m] \subseteq ExecutedIn(c)
      PROVE  MbsOf[m] = {}
  <2>1. CASE m = K + 1
    BY <1>3, <2>1, NextIncomplete, Zenon
  <2>2. CASE m # K + 1
    <3>1. m > K + 1
      BY <1>1, <1>3, <2>2 DEF Metas
    <3> QED BY <1>3, <3>1, NoneBeyond, Zenon
  <2> QED BY <2>1, <2>2, Zenon
<1>4. ASSUME NEW m \in Metas, m > K
      PROVE  MbsOf[m] = {} \/ Rest(m) # {}
  BY <1>2, <1>3, <1>4, Zenon
<1>5. \A k \in (K + 1) .. (MaxMeta - 1) : \A m \in (K + 1) .. k : m \in Metas /\ m > K
  BY <1>1 DEF Metas
<1>6. \/ b = [metas |-> {}, mbs |-> {}]
      \/ \E k \in (K + 1) .. (MaxMeta - 1) : \E p \in Parts(k) :
           b = [metas |-> Used(k), mbs |-> Full(k) \cup p]
  <2>1. Contents(K, PartlyIn(c)) =
          {[metas |-> {}, mbs |-> {}]}
          \cup UNION {{[metas |-> Used(k), mbs |-> Full(k) \cup p] : p \in Parts(k)}
                        : k \in (K + 1) .. (MaxMeta - 1)}
    BY Zenon DEF Contents
  <2> HIDE DEF Rest, Full, Used, Parts
  <2>2. b \in Contents(K, PartlyIn(c))
    OBVIOUS
  <2>3. CASE b \in UNION {{[metas |-> Used(k), mbs |-> Full(k) \cup p] : p \in Parts(k)}
                            : k \in (K + 1) .. (MaxMeta - 1)}
    <3>1. PICK k \in (K + 1) .. (MaxMeta - 1) :
            b \in {[metas |-> Used(k), mbs |-> Full(k) \cup p] : p \in Parts(k)}
      BY <2>3, Zenon
    <3> QED BY <3>1, Zenon
  <2> QED BY <2>1, <2>2, <2>3, Zenon
<1>7. CASE b = [metas |-> {}, mbs |-> {}]
  BY <1>7
<1>8. ASSUME NEW k \in (K + 1) .. (MaxMeta - 1), NEW p \in Parts(k),
             b = [metas |-> Used(k), mbs |-> Full(k) \cup p]
      PROVE  Takes(c, b, K, k)
  <2>1. b.metas = Used(k) /\ b.mbs = Full(k) \cup p
    BY <1>8
  <2>2. Used(k) = (K + 1) .. k
    BY <1>4, <1>5, Zenon
  <2>3. k \in Metas /\ k > K /\ k \in (K + 1) .. k
    BY <1>1 DEF Metas
  <2>4. \A m \in (K + 1) .. (k - 1) : m \in (K + 1) .. k /\ m \in Metas /\ m > K
    BY <1>1 DEF Metas
  <2> HIDE DEF Used
  <2>5. \A m \in (K + 1) .. k : Rest(m) = MbsOf[m] \ ExecutedIn(c)
    BY <1>2, <1>5
  <2>6. ASSUME NEW x \in b.mbs
        PROVE  x \notin ExecutedIn(c) /\ \E m \in (K + 1) .. k : x \in MbsOf[m]
    <3>1. PICK m \in (K + 1) .. k : x \in Rest(m)
      <4>1. CASE x \in p
        BY <2>3, <4>1, Zenon
      <4>2. CASE x \in Full(k)
        <5>1. PICK m \in (K + 1) .. (k - 1) : x \in Rest(m)
          BY <4>2, Zenon
        <5> QED BY <2>4, <5>1, Zenon
      <4> HIDE DEF Rest, Full, Parts
      <4> QED BY <2>1, <2>6, <4>1, <4>2, Zenon
    <3> HIDE DEF Rest
    <3> QED BY <2>5, <3>1, Zenon
  <2>7. ASSUME NEW m \in (K + 1) .. (k - 1)
        PROVE  MbsOf[m] \subseteq ExecutedIn(c) \cup b.mbs
    <3>1. Rest(m) \subseteq Full(k)
      BY <2>7, Zenon
    <3>2. Rest(m) = MbsOf[m] \ ExecutedIn(c) /\ Full(k) \subseteq b.mbs
      BY <2>1, <2>4, <2>5, <2>7, Zenon
    <3> HIDE DEF Rest, Full
    <3> QED BY <3>1, <3>2, Zenon
  <2>8. ASSUME MbsOf[k] \cap b.mbs = {}
        PROVE  MbsOf[k] = {}
    <3>1. p = {}
      BY <2>1, <2>3, <2>5, <2>8, Zenon
    <3>2. Rest(k) = {}
      BY <3>1, Zenon
    <3> QED BY <1>4, <2>3, <3>2, Zenon
  <2> QED BY <2>1, <2>2, <2>6, <2>7, <2>8, Zenon DEF Takes
<1> QED BY <1>6, <1>7, <1>8, Zenon

\* The block b takes the chain c from the last complete meta block K to K2.
Grows(c, b, K, K2) ==
  /\ Summary(Append(c, b), K2) /\ K <= K2
  /\ \A m \in (K + 1) .. K2 : m \in b.metas
  /\ \A m \in b.metas : m \in Metas /\ m > K /\ (MbsOf[m] \subseteq PartlyIn(c)[m] \cup b.mbs <=> m <= K2)
  /\ \A y \in b.mbs : y \notin ExecutedIn(c) /\ \E m \in b.metas : y \in MbsOf[m]

LEMMA BlockGrows ==
  ASSUME NEW c, NEW K, Summary(c, K), NEW b \in Block,
         NEW x \in Contents(K, PartlyIn(c)), x.metas = b.metas, x.mbs = b.mbs
  PROVE  \E K2 \in 0 .. MaxMeta : Grows(c, b, K, K2)
<1> DEFINE E == ExecutedIn(c)
           L == ListedIn(c)
           d == Append(c, b)
<1> USE BoundsAssumption
<1>1. /\ K \in Nat /\ K \in 0 .. MaxMeta /\ MaxMeta \in Nat /\ c \in Seq(Block)
      /\ \A m \in L : m \in Metas /\ m <= K + 1
      /\ K = 0 \/ K \in L
      /\ \A y \in E : \E m \in L : y \in MbsOf[m]
      /\ \A m \in 1 .. K : MbsOf[m] \subseteq E
      /\ K + 1 \in L => ~(MbsOf[K + 1] \subseteq E)
  BY DEF Summary
<1>2. d \in Seq(Block) /\ ExecutedIn(d) = E \cup b.mbs /\ ListedIn(d) = L \cup b.metas
  BY <1>1, ChainFacts
<1> HIDE DEF E, L, d
<1>3. CASE b.metas = {} /\ b.mbs = {}
  <2>1. ExecutedIn(d) = E /\ ListedIn(d) = L
    BY <1>2, <1>3, Zenon
  <2>2. Summary(d, K)
    BY <1>1, <1>2, <2>1, Zenon DEF Summary
  <2>3. (K + 1) .. K = {} /\ K <= K
    BY <1>1
  <2>4. Grows(c, b, K, K)
    BY <1>3, <2>2, <2>3, Zenon DEF Grows, d
  <2> QED BY <1>1, <2>4, Zenon
<1>4. ASSUME NEW k \in (K + 1) .. (MaxMeta - 1), Takes(c, b, K, k)
      PROVE  \E K2 \in 0 .. MaxMeta : Grows(c, b, K, K2)
  <2>1. /\ b.metas = (K + 1) .. k
        /\ \A y \in b.mbs : y \notin E /\ \E m \in (K + 1) .. k : y \in MbsOf[m]
        /\ \A m \in (K + 1) .. (k - 1) : MbsOf[m] \subseteq E \cup b.mbs
        /\ k \in Nat /\ k > K /\ k < MaxMeta
    BY <1>1, <1>4 DEF Takes, E
  <2>2. PICK K2 : K2 = IF MbsOf[k] \subseteq E \cup b.mbs THEN k ELSE k - 1
    OBVIOUS
  <2>3. /\ K2 \in 0 .. MaxMeta /\ K <= K2 /\ K2 \in {k - 1, k}
        /\ K2 = k <=> MbsOf[k] \subseteq E \cup b.mbs
    BY <1>1, <2>1, <2>2
  <2>4. \A m \in 1 .. K2 : m \in 1 .. K \/ m \in (K + 1) .. (k - 1) \/ (m = k /\ K2 = k)
    <3>1. K \in Nat /\ k \in Nat /\ k > K /\ (K2 = k \/ K2 = k - 1)
      BY <1>1, <2>1, <2>3, Zenon
    <3> SUFFICES ASSUME NEW m \in 1 .. K2
                 PROVE  m \in 1 .. K \/ m \in (K + 1) .. (k - 1) \/ (m = k /\ K2 = k)
      BY Zenon
    <3> QED BY <3>1
  <2>5. \A m \in 1 .. K2 : MbsOf[m] \subseteq E \cup b.mbs
    BY <1>1, <2>1, <2>3, <2>4, Zenon
  <2>6. \A m \in L \cup b.metas : m \in Metas /\ m <= K2 + 1
    BY <1>1, <2>1, <2>3 DEF Metas
  <2>7. K2 = 0 \/ K2 \in L \cup b.metas
    <3>1. K2 = K \/ K2 \in (K + 1) .. k
      <4>1. K \in Nat /\ k \in Nat /\ k > K
        BY <1>1, <2>1, Zenon
      <4> QED BY <2>3, <4>1
    <3> QED BY <1>1, <2>1, <3>1, Zenon
  <2>8. \A y \in E \cup b.mbs : \E m \in L \cup b.metas : y \in MbsOf[m]
    BY <1>1, <2>1, Zenon
  <2>9. K2 + 1 \in L \cup b.metas => ~(MbsOf[K2 + 1] \subseteq E \cup b.mbs)
    <3>1. CASE K2 = k
      BY <1>1, <2>1, <3>1
    <3>2. CASE K2 = k - 1
      BY <2>1, <2>3, <3>2
    <3> QED BY <2>3, <3>1, <3>2
  <2>10. Summary(d, K2)
    BY <1>2, <2>3, <2>5, <2>6, <2>7, <2>8, <2>9, Zenon DEF Summary
  <2>11. \A m \in (K + 1) .. K2 : m \in b.metas
    BY <1>1, <2>1, <2>3
  <2>12. ASSUME NEW m \in b.metas
         PROVE  m \in Metas /\ m > K /\ (MbsOf[m] \subseteq PartlyIn(c)[m] \cup b.mbs <=> m <= K2)
    <3>1. m \in Metas /\ m > K /\ m <= k /\ m \in Nat
      BY <1>1, <2>1, <2>12 DEF Metas
    <3>2. MbsOf[m] \subseteq PartlyIn(c)[m] \cup b.mbs <=> MbsOf[m] \subseteq E \cup b.mbs
      <4>1. PartlyIn(c)[m] = MbsOf[m] \cap E
        BY <3>1, RestIs, Zenon DEF E
      <4> QED BY <4>1, Zenon
    <3>3. m <= K2 => m \in 1 .. K2
      BY <2>3, <3>1 DEF Metas
    <3>4. m > K2 => m = k /\ K2 # k
      BY <2>1, <2>3, <3>1
    <3>5. ~(m <= K2) => m > K2
      BY <2>1, <2>3, <3>1
    <3> QED BY <2>3, <2>5, <3>1, <3>2, <3>3, <3>4, <3>5, Zenon
  <2>13. \A y \in b.mbs : y \notin E /\ \E m \in b.metas : y \in MbsOf[m]
    BY <2>1, Zenon
  <2>14. Grows(c, b, K, K2)
    BY <2>3, <2>10, <2>11, <2>12, <2>13, Zenon DEF Grows, d, E
  <2> QED BY <2>3, <2>14, Zenon
<1>5. \/ x.metas = {} /\ x.mbs = {}
      \/ \E k \in (K + 1) .. (MaxMeta - 1) : Takes(c, x, K, k)
  BY ContentsTake, Zenon
<1>6. ASSUME NEW k, Takes(c, x, K, k) PROVE Takes(c, b, K, k)
  BY <1>6, Zenon DEF Takes
<1> QED BY <1>3, <1>4, <1>5, <1>6, Zenon

-----------------------------------------------------------------------------
(* The chain of a node and what it remembers of it                         *)

Before(c, n) == SubSeq(c, 1, n)

\* Every block of the chain was made or checked by the rules.
Good(c) ==
  /\ c \in Seq(Block)
  /\ \A n \in 0 .. Len(c) : Summary(Before(c, n), CompleteIn(Before(c, n)))
  /\ \A n \in 1 .. Len(c) :
       Grows(Before(c, n - 1), c[n], CompleteIn(Before(c, n - 1)), CompleteIn(Before(c, n)))

Remembers ==
  /\ processed = PartlyIn(chain)
  /\ stored = 1 .. CompleteIn(chain)
  /\ notarized \in Seq(0 .. MaxMeta)
  /\ final \in 0 .. Len(chain) /\ Len(notarized) > Len(chain) - final
  /\ \A n \in final .. Len(chain) : notarized[Len(notarized) - (Len(chain) - n)] = CompleteIn(Before(chain, n))

\* What the node is doing: the block it has processed follows the rules.
Working ==
  /\ clock \in Nat
  /\ work.stage \in {"idle", "processed", "rollback"}
  /\ work.stage = "processed" =>
       /\ work.block \in Block /\ cur = work.block.metas
       /\ \E x \in Contents(CompleteIn(chain), PartlyIn(chain)) :
            x.metas = work.block.metas /\ x.mbs = work.block.mbs

ShardInv == crashes \in Nat /\ (crashes = 0 => Good(chain) /\ Remembers /\ Working)

LEMMA BeforeAll ==
  ASSUME NEW c \in Seq(Block)
  PROVE  /\ Before(c, Len(c)) = c /\ Before(c, 0) = <<>>
         /\ \A n \in 1 .. Len(c) : Before(c, n) = Append(Before(c, n - 1), c[n])
         /\ \A n \in 0 .. Len(c) : Before(c, n) \in Seq(Block) /\ Len(Before(c, n)) = n
         /\ \A n \in 0 .. Len(c) : \A i \in 0 .. n : Before(Before(c, n), i) = Before(c, i)
         /\ \A n \in 0 .. Len(c) : \A i \in 1 .. n : Before(c, n)[i] = c[i]
<1>1. Before(c, Len(c)) = c /\ Before(c, 0) = <<>>
  BY DEF Before
<1>2. \A n \in 0 .. Len(c) : Before(c, n) \in Seq(Block) /\ Len(Before(c, n)) = n
  BY DEF Before
<1>3. \A n \in 0 .. Len(c) : \A i \in 1 .. n : Before(c, n)[i] = c[i]
  BY DEF Before
<1>4. ASSUME NEW n \in 0 .. Len(c), NEW i \in 0 .. n PROVE Before(Before(c, n), i) = Before(c, i)
  BY <1>2 DEF Before
<1>5. ASSUME NEW n \in 1 .. Len(c) PROVE Before(c, n) = Append(Before(c, n - 1), c[n])
  BY DEF Before
<1> QED BY <1>1, <1>2, <1>3, <1>4, <1>5, Zenon

\* A block appended, and a block taken away, leave a good chain.
LEMMA GoodAppend ==
  ASSUME NEW c, Good(c), NEW b \in Block,
         NEW K2, Grows(c, b, CompleteIn(c), K2)
  PROVE  Good(Append(c, b)) /\ CompleteIn(Append(c, b)) = K2
<1>1. c \in Seq(Block) /\ Append(c, b) \in Seq(Block) /\ Len(Append(c, b)) = Len(c) + 1 /\ Len(c) \in Nat
  BY DEF Good
<1>2. Summary(Append(c, b), K2) /\ CompleteIn(Append(c, b)) = K2
  BY CompleteIs, Zenon DEF Grows
<1> DEFINE d == Append(c, b)
<1>3. \A n \in 0 .. Len(c) : Before(d, n) = Before(c, n)
  BY <1>1 DEF Before
<1>4. Before(d, Len(c) + 1) = d /\ d[Len(c) + 1] = b /\ Before(c, Len(c)) = c
  BY <1>1 DEF Before
<1>5. \A n \in 1 .. Len(c) : d[n] = c[n] /\ n - 1 \in 0 .. Len(c) /\ n \in 0 .. Len(c)
  BY <1>1
<1> HIDE DEF d
<1>6. \A n \in 0 .. Len(d) : n \in 0 .. Len(c) \/ n = Len(c) + 1
  BY <1>1 DEF d
<1>7. \A n \in 1 .. Len(d) : n \in 1 .. Len(c) \/ n = Len(c) + 1
  BY <1>1 DEF d
<1>8. \A n \in 0 .. Len(d) : Summary(Before(d, n), CompleteIn(Before(d, n)))
  BY <1>2, <1>3, <1>4, <1>6, Zenon DEF Good, d
<1>9. ASSUME NEW n \in 1 .. Len(d)
      PROVE  Grows(Before(d, n - 1), d[n], CompleteIn(Before(d, n - 1)), CompleteIn(Before(d, n)))
  <2>1. CASE n \in 1 .. Len(c)
    BY <1>3, <1>5, <2>1, Zenon DEF Good
  <2>2. CASE n = Len(c) + 1
    <3>1. n - 1 = Len(c) /\ Len(c) \in 0 .. Len(c)
      BY <1>1, <2>2
    <3>2. Before(d, n - 1) = c /\ Before(d, n) = d /\ d[n] = b
      BY <1>3, <1>4, <2>2, <3>1, Zenon
    <3> QED BY <1>2, <3>2, Zenon DEF d
  <2> QED BY <1>7, <2>1, <2>2, Zenon
<1> QED BY <1>1, <1>2, <1>8, <1>9, Zenon DEF Good, d

LEMMA GoodFront ==
  ASSUME NEW c, Good(c), c # <<>>
  PROVE  /\ Good(Before(c, Len(c) - 1)) /\ Len(c) \in Nat \ {0} /\ c[Len(c)] \in Block
         /\ c = Append(Before(c, Len(c) - 1), c[Len(c)])
         /\ Summary(Before(c, Len(c) - 1), CompleteIn(Before(c, Len(c) - 1)))
         /\ Grows(Before(c, Len(c) - 1), c[Len(c)], CompleteIn(Before(c, Len(c) - 1)), CompleteIn(c))
<1>1. c \in Seq(Block) /\ Len(c) \in Nat \ {0} /\ c[Len(c)] \in Block
  BY DEF Good
<1> DEFINE k == Len(c) - 1
           d == Before(c, k)
<1>2. k \in 0 .. Len(c) /\ Len(c) \in 1 .. Len(c)
  BY <1>1
<1>3. d \in Seq(Block) /\ Len(d) = k /\ c = Append(d, c[Len(c)]) /\ Before(c, Len(c)) = c
  BY <1>1, <1>2, BeforeAll, Zenon
<1>4. Summary(d, CompleteIn(d)) /\ Grows(d, c[Len(c)], CompleteIn(d), CompleteIn(c))
  BY <1>2, <1>3, Zenon DEF Good
<1>5. \A i \in 0 .. k : i \in 0 .. Len(c) /\ Before(d, i) = Before(c, i)
  <2>1. \A i \in 0 .. k : i \in 0 .. Len(c)
    BY <1>2
  <2> QED BY <1>1, <1>2, <2>1, BeforeAll, Zenon
<1>6. \A i \in 1 .. k : i \in 1 .. Len(c) /\ i \in 0 .. k /\ i - 1 \in 0 .. k /\ d[i] = c[i]
  <2>1. \A i \in 1 .. k : i \in 1 .. Len(c) /\ i \in 0 .. k /\ i - 1 \in 0 .. k
    BY <1>2
  <2> QED BY <1>1, <1>2, <2>1, BeforeAll, Zenon
<1> HIDE DEF d
<1>7. \A n \in 0 .. Len(d) : Summary(Before(d, n), CompleteIn(Before(d, n)))
  BY <1>3, <1>5, Zenon DEF Good
<1>8. \A n \in 1 .. Len(d) :
        Grows(Before(d, n - 1), d[n], CompleteIn(Before(d, n - 1)), CompleteIn(Before(d, n)))
  BY <1>3, <1>5, <1>6, Zenon DEF Good
<1>9. Good(d)
  BY <1>3, <1>7, <1>8, Zenon DEF Good
<1> QED BY <1>1, <1>3, <1>4, <1>9, Zenon DEF d

LEMMA GoodComplete ==
  ASSUME NEW c, Good(c)
  PROVE  Summary(c, CompleteIn(c)) /\ c \in Seq(Block) /\ CompleteIn(c) \in 0 .. MaxMeta
<1>1. c \in Seq(Block) /\ Len(c) \in 0 .. Len(c) /\ Before(c, Len(c)) = c
  BY DEF Good, Before
<1> QED BY <1>1, Zenon DEF Good, Summary

\* No block of a good chain executes what another one has executed.
LEMMA GoodApart ==
  ASSUME NEW c, Good(c), NEW i \in DOMAIN c, NEW j \in DOMAIN c, i # j
  PROVE  c[i].mbs \cap c[j].mbs = {}
<1>1. ASSUME NEW k \in DOMAIN c, NEW n \in DOMAIN c, k < n
      PROVE  c[k].mbs \cap c[n].mbs = {}
  <2>1. c \in Seq(Block) /\ n \in 1 .. Len(c) /\ n - 1 \in 0 .. Len(c) /\ k \in 1 .. (n - 1)
    BY <1>1 DEF Good
  <2>2. k \in DOMAIN Before(c, n - 1) /\ Before(c, n - 1)[k] = c[k]
    BY <2>1 DEF Before
  <2>3. c[k].mbs \subseteq ExecutedIn(Before(c, n - 1))
    BY <2>2, Zenon DEF ExecutedIn
  <2> QED BY <2>1, <2>3, Zenon DEF Good, Grows
<1>2. i < j \/ j < i
  BY DEF Good
<1> QED BY <1>1, <1>2, Zenon

-----------------------------------------------------------------------------
(* processedMiniBlocks after a commit and after a roll back                *)

LEMMA PartlyAfterCommit ==
  ASSUME NEW c, NEW b \in Block, NEW K, NEW K2, Summary(c, K), Grows(c, b, K, K2)
  PROVE  PartlyIn(Append(c, b)) =
           [m \in Metas |-> IF m \in (K + 1) .. K2 THEN {}
                            ELSE IF m \in b.metas THEN PartlyIn(c)[m] \cup (b.mbs \cap MbsOf[m])
                                                  ELSE PartlyIn(c)[m]]
<1> DEFINE d == Append(c, b)
           New(m) == IF m \in (K + 1) .. K2 THEN {}
                     ELSE IF m \in b.metas THEN PartlyIn(c)[m] \cup (b.mbs \cap MbsOf[m]) ELSE PartlyIn(c)[m]
<1>1. CompleteIn(c) = K /\ CompleteIn(d) = K2 /\ c \in Seq(Block)
  BY CompleteIs, Zenon DEF Grows, Summary
<1>2. ExecutedIn(d) = ExecutedIn(c) \cup b.mbs
  BY <1>1, ChainFacts
<1>3. K \in Nat /\ K2 \in Nat /\ K <= K2
  BY BoundsAssumption DEF Summary, Grows
<1> HIDE DEF d
<1>4. ASSUME NEW m \in Metas PROVE (IF m > K2 THEN MbsOf[m] \cap ExecutedIn(d) ELSE {}) = New(m)
  <2>1. CASE ~(m > K)
    <3>1. ~(m > K2) /\ m \notin (K + 1) .. K2
      BY <1>3, <2>1 DEF Metas
    <3>2. m \notin b.metas /\ PartlyIn(c)[m] = {}
      BY <1>1, <2>1, Zenon DEF Grows, PartlyIn
    <3> QED BY <3>1, <3>2, Zenon
  <2>2. CASE m > K /\ ~(m > K2)
    <3>1. m \in (K + 1) .. K2
      BY <1>3, <2>2 DEF Metas
    <3> QED BY <2>2, <3>1, Zenon
  <2>3. CASE m > K /\ m > K2
    <3>1. m \notin (K + 1) .. K2
      BY <1>3, <2>3 DEF Metas
    <3>2. PartlyIn(c)[m] = MbsOf[m] \cap ExecutedIn(c)
      BY <2>3, RestIs, Zenon
    <3>3. CASE m \in b.metas
      BY <1>2, <2>3, <3>1, <3>2, <3>3, Zenon
    <3>4. CASE m \notin b.metas
      <4>1. MbsOf[m] \cap b.mbs = {}
        BY <3>4, MbsApart, ZenonT(30) DEF Grows
      <4> QED BY <1>2, <2>3, <3>1, <3>2, <3>4, <4>1, Zenon
    <3> QED BY <3>3, <3>4, Zenon
  <2> QED BY <2>1, <2>2, <2>3, Zenon
<1>5. PartlyIn(d) = [m \in Metas |-> IF m > K2 THEN MbsOf[m] \cap ExecutedIn(d) ELSE {}]
  BY <1>1, Zenon DEF PartlyIn, d
<1> HIDE DEF New
<1>6. PartlyIn(d) = [m \in Metas |-> New(m)]
  BY <1>4, <1>5, Zenon
<1> QED BY <1>6, Zenon DEF New, d

LEMMA PartlyAfterRollBack ==
  ASSUME NEW c, NEW b \in Block, NEW K, NEW K2, Summary(c, K), Grows(c, b, K, K2)
  PROVE  PartlyIn(c) =
           [m \in Metas |->
              (IF m \in b.metas \cap (1 .. K2) THEN PartlyIn(Append(c, b))[m] \cup MbsOf[m]
                                               ELSE PartlyIn(Append(c, b))[m]) \ b.mbs]
<1> DEFINE d == Append(c, b)
           New(m) == (IF m \in b.metas \cap (1 .. K2) THEN PartlyIn(d)[m] \cup MbsOf[m] ELSE PartlyIn(d)[m]) \ b.mbs
<1>1. CompleteIn(c) = K /\ CompleteIn(d) = K2 /\ c \in Seq(Block)
  BY CompleteIs, Zenon DEF Grows, Summary
<1>2. ExecutedIn(d) = ExecutedIn(c) \cup b.mbs
  BY <1>1, ChainFacts
<1>3. K \in Nat /\ K2 \in Nat /\ K <= K2 /\ b.mbs \cap ExecutedIn(c) = {}
  BY BoundsAssumption DEF Summary, Grows
<1>4. \A m \in Metas : PartlyIn(d)[m] = IF m > K2 THEN MbsOf[m] \cap ExecutedIn(d) ELSE {}
  BY <1>1, Zenon DEF PartlyIn
<1>5. Summary(d, K2)
  BY Zenon DEF Grows
<1> HIDE DEF d
<1>6. ASSUME NEW m \in Metas PROVE (IF m > K THEN MbsOf[m] \cap ExecutedIn(c) ELSE {}) = New(m)
  <2>1. CASE ~(m > K)
    <3>1. ~(m > K2)
      BY <1>3, <2>1 DEF Metas
    <3>2. m \notin b.metas /\ PartlyIn(d)[m] = {}
      BY <1>4, <2>1, <3>1, Zenon DEF Grows
    <3> QED BY <2>1, <3>2, Zenon
  <2>2. CASE m > K /\ ~(m > K2)
    <3>1. m \in (K + 1) .. K2 /\ m \in 1 .. K2
      BY <1>3, <2>2 DEF Metas
    <3>2. m \in b.metas /\ MbsOf[m] \subseteq ExecutedIn(d) /\ PartlyIn(d)[m] = {}
      BY <1>4, <1>5, <2>2, <3>1, Zenon DEF Grows, Summary
    <3>3. New(m) = MbsOf[m] \ b.mbs
      BY <3>1, <3>2, Zenon
    <3>4. MbsOf[m] \cap ExecutedIn(c) = MbsOf[m] \ b.mbs
      BY <1>2, <1>3, <3>2, Zenon
    <3> QED BY <2>2, <3>3, <3>4, Zenon
  <2>3. CASE m > K /\ m > K2
    <3>1. m \notin 1 .. K2
      BY <1>3, <2>3 DEF Metas
    <3>2. New(m) = (MbsOf[m] \cap ExecutedIn(d)) \ b.mbs
      BY <1>4, <2>3, <3>1, Zenon
    <3>3. (MbsOf[m] \cap ExecutedIn(d)) \ b.mbs = MbsOf[m] \cap ExecutedIn(c)
      BY <1>2, <1>3, Zenon
    <3> QED BY <2>3, <3>2, <3>3, Zenon
  <2> QED BY <2>1, <2>2, <2>3, Zenon
<1>7. PartlyIn(c) = [m \in Metas |-> IF m > K THEN MbsOf[m] \cap ExecutedIn(c) ELSE {}]
  BY <1>1, Zenon DEF PartlyIn
<1> HIDE DEF New
<1>8. PartlyIn(c) = [m \in Metas |-> New(m)]
  BY <1>6, <1>7, Zenon
<1> QED BY <1>8, Zenon DEF New, d

-----------------------------------------------------------------------------
(* The steps of the node                                                   *)

\* Mini blocks and meta blocks of a block that follows the rules.
LEMMA ContentsTyped ==
  ASSUME NEW c, Good(c), NEW x \in Contents(CompleteIn(c), PartlyIn(c)), NEW r \in Rounds
  PROVE  [round |-> r, metas |-> x.metas, mbs |-> x.mbs] \in Block
<1> DEFINE K == CompleteIn(c)
<1>1. Summary(c, K) /\ K \in Nat
  BY GoodComplete, BoundsAssumption DEF Summary
<1> HIDE DEF K
<1>2. ASSUME NEW k \in (K + 1) .. (MaxMeta - 1), Takes(c, x, K, k)
      PROVE  x.metas \subseteq Metas /\ x.mbs \subseteq Mbs
  <2>1. \A m \in (K + 1) .. k : m \in Metas
    BY <1>1, BoundsAssumption DEF Metas
  <2>2. \A m \in Metas : MbsOf[m] \subseteq Mbs
    BY MbsAssumption, Zenon
  <2> QED BY <1>2, <2>1, <2>2, Zenon DEF Takes
<1>3. x.metas \subseteq Metas /\ x.mbs \subseteq Mbs
  BY <1>1, <1>2, ContentsTake, Zenon DEF K
<1> QED BY <1>3, Zenon DEF Block

LEMMA LastFollows ==
  ASSUME Good(chain), Remembers
  PROVE  LastNotarized = CompleteIn(chain)
<1>1. chain \in Seq(Block) /\ Len(chain) \in final .. Len(chain) /\ Before(chain, Len(chain)) = chain
  BY DEF Good, Remembers, Before
<1>2. Len(notarized) - (Len(chain) - Len(chain)) = Len(notarized)
  BY <1>1 DEF Remembers
<1> QED BY <1>1, <1>2 DEF Remembers, LastNotarized, Newest

\* A block is started on.
LEMMA StartStep ==
  ASSUME Good(chain), Remembers, Working, clock < MaxRound,
         NEW x \in Contents(CompleteIn(chain), PartlyIn(chain)), Start(x)
  PROVE  Good(chain)' /\ Remembers' /\ Working'
<1>1. UNCHANGED <<chain, processed, stored, notarized, final>>
  BY Zenon DEF Start, disk
<1>2. Good(chain)' /\ Remembers'
  BY <1>1, Zenon DEF Good, Remembers
<1>3. clock \in Nat /\ clock + 1 \in Rounds /\ clock + 1 \in Nat
  BY BoundsAssumption DEF Working, Rounds
<1>4. PICK b : b = [round |-> clock + 1, metas |-> x.metas, mbs |-> x.mbs]
  BY Zenon
<1>5. b \in Block
  BY <1>3, <1>4, ContentsTyped, Zenon
<1>6. b.metas = x.metas /\ b.mbs = x.mbs
  BY <1>4
<1>7. work' = [stage |-> "processed", block |-> b] /\ cur' = b.metas /\ clock' = clock + 1
  BY <1>4, <1>6, Zenon DEF Start
<1>8. work'.stage = "processed" /\ work'.block = b
  BY <1>7
<1>9. Working'
  BY <1>1, <1>3, <1>5, <1>6, <1>7, <1>8, Zenon DEF Working
<1> QED BY <1>2, <1>9, Zenon

\* removeNotarizedHdrsBehindPreviousFinal keeps the end of the list.
LEMMA KeepsEnd ==
  ASSUME NEW T, NEW s \in Seq(T), NEW keep \in Nat
  PROVE  /\ RemoveBehindFinal(s, keep) \in Seq(T)
         /\ Len(s) > keep => Len(RemoveBehindFinal(s, keep)) = keep + 1
         /\ Len(s) <= keep => RemoveBehindFinal(s, keep) = s
         /\ \A i \in 0 .. keep : i < Len(s) =>
              RemoveBehindFinal(s, keep)[Len(RemoveBehindFinal(s, keep)) - i] = s[Len(s) - i]
<1>1. CASE Len(s) > keep
  <2>1. RemoveBehindFinal(s, keep) = SubSeq(s, Len(s) - keep, Len(s))
    BY <1>1, Zenon DEF RemoveBehindFinal
  <2> QED BY <1>1, <2>1
<1>2. CASE ~(Len(s) > keep)
  <2>1. RemoveBehindFinal(s, keep) = s
    BY <1>2, Zenon DEF RemoveBehindFinal
  <2> QED BY <1>2, <2>1
<1> QED BY <1>1, <1>2, Zenon

\* The meta blocks a processed block completes are the next ones.
LEMMA Completes ==
  ASSUME NEW b \in Block, NEW K \in Nat, NEW K2 \in 0 .. MaxMeta, Grows(chain, b, K, K2),
         cur = b.metas, processed = PartlyIn(chain)
  PROVE  ProcessedMetas(b) = (K + 1) .. K2
<1>0. K2 \in Nat /\ K <= K2
  BY BoundsAssumption DEF Grows
<1>1. \A m : m \in ProcessedMetas(b) <=> m \in b.metas /\ MbsOf[m] \subseteq PartlyIn(chain)[m] \cup b.mbs
  BY Zenon DEF ProcessedMetas
<1>2. \A m : m \in ProcessedMetas(b) <=> m \in b.metas /\ m <= K2
  BY <1>1, Zenon DEF Grows
<1>3. \A m \in (K + 1) .. K2 : m \in b.metas /\ m <= K2
  BY <1>0 DEF Grows
<1>4. \A m \in b.metas : m <= K2 => m \in (K + 1) .. K2
  <2>1. \A m \in b.metas : m \in Nat /\ m > K
    BY DEF Grows, Metas
  <2> QED BY <1>0, <2>1
<1> QED BY <1>2, <1>3, <1>4, Zenon

LEMMA CommitStep ==
  ASSUME Good(chain), Remembers, Working, NEW fin, CommitBlock(fin)
  PROVE  Good(chain)' /\ Remembers' /\ Working'
<1>1. /\ work.stage = "processed" /\ fin \in final .. Len(chain) /\ work' = Idle /\ UNCHANGED clock
      /\ Committed(work.block, fin)
  BY Zenon DEF CommitBlock
<1>2. PICK b, K : b = work.block /\ K = CompleteIn(chain)
  BY Zenon
<1>3. b \in Block /\ cur = b.metas /\ Summary(chain, K) /\ chain \in Seq(Block) /\ K \in Nat
  BY <1>1, <1>2, GoodComplete, BoundsAssumption DEF Working
<1>4. PICK K2 \in 0 .. MaxMeta : Grows(chain, b, K, K2)
  BY <1>1, <1>2, <1>3, BlockGrows, Zenon DEF Working
<1>5. K2 \in Nat /\ K <= K2
  BY <1>4, BoundsAssumption DEF Grows
<1>6. Good(Append(chain, b)) /\ CompleteIn(Append(chain, b)) = K2
  BY <1>2, <1>3, <1>4, GoodAppend, Zenon
<1>7. LastNotarized = K /\ processed = PartlyIn(chain)
  BY <1>2, LastFollows, Zenon DEF Remembers
\* The meta blocks the block completes.
<1>8. ProcessedMetas(b) = (K + 1) .. K2
  BY <1>3, <1>4, <1>7, Completes, Zenon
<1>9. SaveLastNotarized(ProcessedMetas(b)) = Append(notarized, K2)
  <2>1. CASE K2 = K
    <3>1. (K + 1) .. K2 = {}
      BY <1>3, <2>1
    <3> QED BY <1>7, <1>8, <2>1, <3>1, Zenon DEF SaveLastNotarized
  <2>2. CASE K2 # K
    <3>1. K2 \in (K + 1) .. K2 /\ (K + 1) .. K2 \in SUBSET Nat /\ \A y \in (K + 1) .. K2 : y <= K2
      BY <1>3, <1>5, <2>2
    <3>2. Max((K + 1) .. K2) = K2
      BY <3>1, MaxIs, Zenon
    <3> QED BY <1>8, <3>1, <3>2, Zenon DEF SaveLastNotarized
  <2> QED BY <2>1, <2>2, Zenon
<1>10. PICK saved : saved = Append(notarized, K2)
  BY Zenon
<1>11. /\ saved \in Seq(0 .. MaxMeta) /\ Len(saved) = Len(notarized) + 1 /\ Newest(saved) = K2
       /\ \A i \in 1 .. Len(notarized) : saved[i] = notarized[i]
       /\ Len(notarized) \in Nat
  BY <1>4, <1>10 DEF Remembers, Newest
<1>12. {m \in ProcessedMetas(b) : m <= Newest(saved)} = (K + 1) .. K2
  BY <1>3, <1>5, <1>8, <1>11
<1>13. /\ stored' = stored \cup (K + 1) .. K2
       /\ processed' = [m \in Metas |-> IF m \in (K + 1) .. K2 THEN {} ELSE AddProcessed(b)[m]]
       /\ notarized' = RemoveBehindFinal(saved, (Len(Append(chain, b)) - fin) + 1)
       /\ final' = fin /\ chain' = Append(chain, b)
  BY <1>1, <1>2, <1>9, <1>10, <1>12, Zenon DEF Committed
<1>14. Good(chain)' /\ CompleteIn(chain)' = K2
  <2>1. Good(chain') /\ CompleteIn(chain') = K2
    BY <1>6, <1>13, Zenon
  <2> QED BY <2>1, Zenon
<1>15. (processed = PartlyIn(chain))'
  <2>1. KnownMetas(b) = b.metas
    BY <1>3, Zenon DEF KnownMetas
  <2>2. \A m \in Metas : AddProcessed(b)[m] =
          IF m \in b.metas THEN PartlyIn(chain)[m] \cup (b.mbs \cap MbsOf[m]) ELSE PartlyIn(chain)[m]
    BY <1>7, <2>1, Zenon DEF AddProcessed
  <2>3. processed' = [m \in Metas |-> IF m \in (K + 1) .. K2 THEN {}
                        ELSE IF m \in b.metas THEN PartlyIn(chain)[m] \cup (b.mbs \cap MbsOf[m])
                                              ELSE PartlyIn(chain)[m]]
    BY <1>13, <2>2, Zenon
  <2>4. PartlyIn(Append(chain, b)) = processed'
    <3>1. PICK c : c = chain
      BY Zenon
    <3>2. PartlyIn(Append(c, b)) =
            [m \in Metas |-> IF m \in (K + 1) .. K2 THEN {}
                             ELSE IF m \in b.metas THEN PartlyIn(c)[m] \cup (b.mbs \cap MbsOf[m])
                                                   ELSE PartlyIn(c)[m]]
      BY <1>3, <1>4, <3>1, PartlyAfterCommit
    <3> QED BY <2>3, <3>1, <3>2, Zenon
  <2>5. processed' = PartlyIn(chain')
    BY <1>13, <2>4, Zenon
  <2> QED BY <2>5, Zenon
<1>16. (stored = 1 .. CompleteIn(chain))'
  <2>1. stored = 1 .. K
    BY <1>2, Zenon DEF Remembers
  <2>2. (1 .. K) \cup (K + 1) .. K2 = 1 .. K2
    BY <1>3, <1>5
  <2> QED BY <1>13, <1>14, <2>1, <2>2, Zenon
<1>17. /\ (notarized \in Seq(0 .. MaxMeta))' /\ (final \in 0 .. Len(chain))'
       /\ (Len(notarized) > Len(chain) - final)'
       /\ (\A n \in final .. Len(chain) : notarized[Len(notarized) - (Len(chain) - n)] = CompleteIn(Before(chain, n)))'
  <2>1. PICK keep : keep = (Len(Append(chain, b)) - fin) + 1
    BY Zenon
  <2>2. /\ keep \in Nat /\ keep = Len(chain) + 2 - fin /\ Len(chain') = Len(chain) + 1 /\ Len(chain) \in Nat
        /\ fin \in Nat /\ fin <= Len(chain) /\ final \in Nat /\ final <= fin
    <3>1. chain \in Seq(Block) /\ Len(chain) \in Nat /\ Len(Append(chain, b)) = Len(chain) + 1
      BY <1>1, <1>3
    <3>2. final \in 0 .. Len(chain)
      BY <1>1, Zenon DEF Remembers
    <3>3. Len(chain') = Len(chain) + 1
      BY <1>13, <3>1, Zenon
    <3>4. fin \in final .. Len(chain)
      BY <1>1, Zenon
    <3> QED BY <2>1, <3>1, <3>2, <3>3, <3>4
  <2>3. PICK t : t = RemoveBehindFinal(saved, keep)
    BY Zenon
  <2>4. /\ t \in Seq(0 .. MaxMeta)
        /\ Len(saved) > keep => Len(t) = keep + 1
        /\ Len(saved) <= keep => t = saved
        /\ \A i \in 0 .. keep : i < Len(saved) => t[Len(t) - i] = saved[Len(saved) - i]
    BY <1>11, <2>2, <2>3, KeepsEnd, ZenonT(30)
  <2>5. notarized' = t /\ final' = fin
    BY <1>13, <2>1, <2>3, Zenon
  <2>6. Len(notarized) > Len(chain) - final
    BY Zenon DEF Remembers
  <2>7. Len(t) > Len(chain') - fin
    <3>1. /\ Len(saved) = Len(notarized) + 1 /\ Len(notarized) \in Nat
          /\ Len(saved) > keep => Len(t) = keep + 1
          /\ Len(saved) <= keep => Len(t) = Len(saved)
      BY <1>11, <2>4, Zenon
    <3> QED BY <2>2, <2>6, <3>1
  <2>8. ASSUME NEW n \in fin .. Len(chain')
        PROVE  t[Len(t) - (Len(chain') - n)] = CompleteIn(Before(chain', n))
    <3>1. PICK i : i = Len(chain') - n
      BY Zenon
    <3>2. i \in 0 .. keep /\ i < Len(saved) /\ n \in Nat
      BY <1>11, <2>2, <2>6, <2>8, <3>1
    <3>3. t[Len(t) - i] = saved[Len(saved) - i]
      BY <2>4, <3>2, Zenon
    <3>4. CASE n = Len(chain')
      <4>1. i = 0 /\ Len(saved) - i = Len(saved)
        BY <1>11, <2>2, <3>1, <3>4
      <4>2. Before(chain', n) = chain'
        BY <1>3, <1>13, <3>4 DEF Before
      <4> QED BY <1>11, <1>14, <3>1, <3>3, <4>1, <4>2, Zenon DEF Newest
    <3>5. CASE n # Len(chain')
      <4>1. /\ n \in final .. Len(chain) /\ Len(saved) - i = Len(notarized) - (Len(chain) - n)
            /\ Len(notarized) - (Len(chain) - n) \in 1 .. Len(notarized)
        <5>1. n \in Nat /\ n >= fin /\ n <= Len(chain)
          BY <2>2, <2>8, <3>2, <3>5
        <5>2. Len(saved) - i = Len(notarized) - (Len(chain) - n)
          BY <1>11, <2>2, <3>1, <5>1
        <5> QED BY <1>11, <2>2, <2>6, <5>1, <5>2
      <4>2. Before(chain', n) = Before(chain, n)
        BY <1>3, <1>13, <2>2, <4>1 DEF Before
      <4>3. notarized[Len(notarized) - (Len(chain) - n)] = CompleteIn(Before(chain, n))
        BY <4>1, Zenon DEF Remembers
      <4> QED BY <1>11, <3>1, <3>3, <4>1, <4>2, <4>3, Zenon
    <3> QED BY <3>4, <3>5, Zenon
  <2>9. fin \in 0 .. Len(chain')
    BY <2>2
  <2> QED BY <2>4, <2>5, <2>7, <2>8, <2>9, Zenon
<1>18. Remembers'
  BY <1>15, <1>16, <1>17, Zenon DEF Remembers
<1>19. Working'
  <2>1. work'.stage = "idle"
    BY <1>1 DEF Idle
  <2> QED BY <1>1, <2>1 DEF Working
<1> QED BY <1>14, <1>18, <1>19, Zenon

LEMMA DropsLast ==
  ASSUME NEW T, NEW s \in Seq(T), Len(s) > 1
  PROVE  /\ SubSeq(s, 1, Len(s) - 1) \in Seq(T) /\ Len(SubSeq(s, 1, Len(s) - 1)) = Len(s) - 1
         /\ \A j \in 1 .. (Len(s) - 1) : SubSeq(s, 1, Len(s) - 1)[j] = s[j]
OBVIOUS

LEMMA RollBackStep ==
  ASSUME Good(chain), Remembers, Working, RollBack
  PROVE  Good(chain)' /\ Remembers' /\ Working'
<1>1. chain \in Seq(Block) /\ final \in Nat /\ Len(chain) > final /\ chain # <<>> /\ UNCHANGED <<final, clock>>
  BY DEF Good, Remembers, RollBack
<1>2. PICK b, c, K, K2, n : /\ b = chain[Len(chain)] /\ n = Len(chain) - 1 /\ c = Before(chain, n)
                            /\ K = CompleteIn(c) /\ K2 = CompleteIn(chain)
  BY Zenon
<1>3. /\ Good(c) /\ Len(chain) \in Nat \ {0} /\ b \in Block /\ chain = Append(c, b)
      /\ Summary(c, K) /\ Grows(c, b, K, K2)
  BY <1>1, <1>2, GoodFront, Zenon
<1>4. n \in Nat /\ n + 1 = Len(chain) /\ n >= final /\ c \in Seq(Block) /\ Len(c) = n
  BY <1>1, <1>2, <1>3 DEF Before
<1>5. K \in Nat /\ K2 \in Nat /\ K <= K2
  BY <1>3, BoundsAssumption DEF Grows, Summary
<1>6. /\ chain' = c /\ processed' = RestoredProcessed(b) /\ stored' = stored \ b.metas
      /\ notarized' = RemoveLastNotarized /\ work' = [stage |-> "rollback"]
  BY <1>2, Zenon DEF RollBack, Newest, Earlier, Before
<1>7. Good(chain)' /\ CompleteIn(chain)' = K
  <2>1. Good(chain') /\ CompleteIn(chain') = K
    BY <1>2, <1>3, <1>6, Zenon
  <2> QED BY <2>1, Zenon
<1>8. stored = 1 .. K2 /\ processed = PartlyIn(Append(c, b))
  BY <1>2, <1>3, Zenon DEF Remembers
<1>9. (processed = PartlyIn(chain))'
  <2>1. PartlyIn(c) =
          [m \in Metas |->
             (IF m \in b.metas \cap (1 .. K2) THEN PartlyIn(Append(c, b))[m] \cup MbsOf[m]
                                              ELSE PartlyIn(Append(c, b))[m]) \ b.mbs]
    BY <1>3, PartlyAfterRollBack
  <2>2. processed' = PartlyIn(c)
    BY <1>6, <1>8, <2>1, Zenon DEF RestoredProcessed
  <2>3. processed' = PartlyIn(chain')
    BY <1>6, <2>2, Zenon
  <2> QED BY <2>3, Zenon
<1>10. (stored = 1 .. CompleteIn(chain))'
  <2>1. \A m \in 1 .. K2 : m \in b.metas <=> m \in (K + 1) .. K2
    <3>1. \A m \in (K + 1) .. K2 : m \in b.metas
      BY <1>3, Zenon DEF Grows
    <3>2. \A m \in b.metas : m \in Nat /\ m > K
      BY <1>3 DEF Grows, Metas
    <3> QED BY <1>5, <3>1, <3>2
  <2>2. (1 .. K2) \ b.metas = 1 .. K
    BY <1>5, <2>1
  <2> QED BY <1>6, <1>7, <1>8, <2>2, Zenon
<1>11. /\ (notarized \in Seq(0 .. MaxMeta))' /\ (final \in 0 .. Len(chain))'
       /\ (Len(notarized) > Len(chain) - final)'
       /\ (\A i \in final .. Len(chain) : notarized[Len(notarized) - (Len(chain) - i)] = CompleteIn(Before(chain, i)))'
  <2>1. notarized \in Seq(0 .. MaxMeta) /\ Len(notarized) \in Nat /\ Len(notarized) > Len(chain) - final
    BY DEF Remembers
  <2>2. Len(notarized) > 1
    BY <1>1, <1>3, <2>1
  <2>3. notarized' = SubSeq(notarized, 1, Len(notarized) - 1)
    BY <1>6, <2>2, Zenon DEF RemoveLastNotarized, Earlier
  <2>4. /\ notarized' \in Seq(0 .. MaxMeta) /\ Len(notarized') = Len(notarized) - 1
        /\ \A j \in 1 .. (Len(notarized) - 1) : notarized'[j] = notarized[j]
    BY <2>1, <2>2, <2>3, DropsLast, Zenon
  <2>5. ASSUME NEW i \in final .. n
        PROVE  notarized'[Len(notarized') - (n - i)] = CompleteIn(Before(c, i))
    <3>1. /\ i \in final .. Len(chain) /\ i \in 0 .. n /\ n \in 0 .. Len(chain)
          /\ Len(notarized') - (n - i) = Len(notarized) - (Len(chain) - i)
          /\ Len(notarized) - (Len(chain) - i) \in 1 .. (Len(notarized) - 1)
      <4>1. final \in Nat /\ i \in final .. n /\ n \in Nat /\ n + 1 = Len(chain) /\ Len(chain) \in Nat
        BY <1>1, <1>3, <1>4, <2>5, Zenon
      <4>2. Len(notarized) \in Nat /\ Len(notarized) > Len(chain) - final /\ Len(notarized') = Len(notarized) - 1
        BY <2>1, <2>4, Zenon
      <4> QED BY <4>1, <4>2
    <3>2. Before(c, i) = Before(chain, i)
      BY <1>1, <1>2, <3>1, BeforeAll, Zenon
    <3>3. notarized[Len(notarized) - (Len(chain) - i)] = CompleteIn(Before(chain, i))
      BY <3>1, Zenon DEF Remembers
    <3> QED BY <2>4, <3>1, <3>2, <3>3, Zenon
  <2>6. final \in 0 .. n /\ Len(notarized') > n - final
    BY <1>1, <1>4, <2>1, <2>4
  <2>7. Len(chain') = n /\ final' = final
    BY <1>1, <1>4, <1>6, Zenon
  <2> QED BY <1>6, <2>4, <2>5, <2>6, <2>7, Zenon
<1>12. Remembers'
  BY <1>9, <1>10, <1>11, Zenon DEF Remembers
<1>13. Working'
  <2>1. work'.stage = "rollback"
    BY <1>6
  <2> QED BY <1>1, <2>1 DEF Working
<1> QED BY <1>7, <1>12, <1>13, Zenon

\* Steps that leave the chain and what the node remembers of it alone.
LEMMA OtherStep ==
  ASSUME Good(chain), Remembers, Working, UNCHANGED <<chain, processed, stored, notarized, final, cur, clock>>,
         work' = work \/ work' = Idle
  PROVE  Good(chain)' /\ Remembers' /\ Working'
<1>1. Good(chain)' /\ Remembers'
  BY Zenon DEF Good, Remembers
<1>2. CASE work' = work
  BY <1>1, <1>2, Zenon DEF Working
<1>3. CASE work' = Idle
  BY <1>1, <1>3 DEF Working, Idle
<1> QED BY <1>1, <1>2, <1>3, Zenon

LEMMA ShardInitInv == Init => ShardInv
<1> SUFFICES ASSUME Init PROVE ShardInv
  BY Zenon
<1>1. /\ chain = <<>> /\ notarized = <<0>> /\ processed = NoneProcessed /\ stored = {} /\ final = 0
      /\ work = Idle /\ clock = 0 /\ crashes = 0
  BY Zenon DEF Init, Genesis
<1>2. Summary(<<>>, 0) /\ CompleteIn(<<>>) = 0
  BY EmptyChain, CompleteIs, Zenon
<1>3. Good(<<>>)
  <2>1. Before(<<>>, 0) = <<>> /\ <<>> \in Seq(Block) /\ Len(<<>>) = 0
    BY DEF Before
  <2> QED BY <1>2, <2>1 DEF Good
<1>4. PartlyIn(<<>>) = NoneProcessed
  <2>1. ExecutedIn(<<>>) = {}
    BY DEF ExecutedIn
  <2> QED BY <2>1, Zenon DEF PartlyIn, NoneProcessed
<1>5. Before(<<>>, 0) = <<>> /\ 1 .. 0 = {} /\ 0 .. 0 = {0} /\ Len(<<>>) = 0
  BY DEF Before
<1>6. Remembers
  <2>1. \A n \in final .. Len(chain) : notarized[Len(notarized) - (Len(chain) - n)] = CompleteIn(Before(chain, n))
    BY <1>1, <1>2, <1>5
  <2>2. notarized \in Seq(0 .. MaxMeta) /\ final \in 0 .. Len(chain) /\ Len(notarized) > Len(chain) - final
    BY <1>1, <1>5, BoundsAssumption
  <2> QED BY <1>1, <1>2, <1>4, <1>5, <2>1, <2>2, Zenon DEF Remembers
<1>7. Working
  BY <1>1 DEF Working, Idle
<1> QED BY <1>1, <1>3, <1>6, <1>7 DEF ShardInv

LEMMA ShardNextInv == ShardInv /\ [Next]_vars => ShardInv'
<1> SUFFICES ASSUME ShardInv, [Next]_vars PROVE ShardInv'
  BY Zenon
<1>1. crashes \in Nat /\ (crashes' = crashes \/ crashes' = crashes + 1)
  BY Zenon DEF ShardInv, Next, vars, ReceiveMeta, CreateBlock, ProcessBlock, Start, CommitBlock, Abandon,
               PutBootData, RollBack, SaveLastRound, Restart, SkipRound, LoadRoundFails, LoadRound, LoadNothing
<1>2. crashes' \in Nat /\ (crashes' = 0 => crashes = 0)
  BY <1>1
<1> SUFFICES ASSUME crashes = 0, crashes' = 0 PROVE Good(chain)' /\ Remembers' /\ Working'
  BY <1>2, Zenon DEF ShardInv
<1>3. Good(chain) /\ Remembers /\ Working
  BY Zenon DEF ShardInv
<1>4. work.stage # "loading"
  BY <1>3 DEF Working
<1>5. ASSUME NEW m \in Metas, ReceiveMeta(m) PROVE Good(chain)' /\ Remembers' /\ Working'
  BY <1>3, <1>5, OtherStep, Zenon DEF ReceiveMeta, disk
<1>6. LastNotarized = CompleteIn(chain) /\ processed = PartlyIn(chain)
  BY <1>3, LastFollows, Zenon DEF Remembers
<1>7. ASSUME NEW b \in Contents(LastNotarized, processed), CreateBlock(b)
      PROVE  Good(chain)' /\ Remembers' /\ Working'
  BY <1>3, <1>6, <1>7, StartStep, Zenon DEF CreateBlock
<1>8. ASSUME NEW b \in Contents(CompleteIn(chain), PartlyIn(chain)), ProcessBlock(b)
      PROVE  Good(chain)' /\ Remembers' /\ Working'
  BY <1>3, <1>8, StartStep, Zenon DEF ProcessBlock
<1>9. ASSUME NEW fin, CommitBlock(fin) PROVE Good(chain)' /\ Remembers' /\ Working'
  BY <1>3, <1>9, CommitStep, Zenon
<1>10. CASE Abandon
  BY <1>3, <1>10, OtherStep, Zenon DEF Abandon, memory, disk
<1>11. ASSUME NEW p \in pending, PutBootData(p) PROVE Good(chain)' /\ Remembers' /\ Working'
  BY <1>3, <1>11, OtherStep, Zenon DEF PutBootData
<1>12. CASE RollBack
  BY <1>3, <1>12, RollBackStep, Zenon
<1>13. CASE SaveLastRound
  BY <1>3, <1>13, OtherStep, Zenon DEF SaveLastRound
<1>14. ASSUME NEW limit, Restart(limit) PROVE FALSE
  BY <1>14 DEF Restart
<1>15. CASE SkipRound \/ LoadRoundFails \/ LoadRound \/ LoadNothing
  BY <1>4, <1>15, Zenon DEF SkipRound, LoadRoundFails, LoadRound, LoadNothing
<1>16. CASE UNCHANGED vars
  BY <1>3, <1>16, OtherStep, Zenon DEF vars
<1> QED BY <1>5, <1>7, <1>8, <1>9, <1>10, <1>11, <1>12, <1>13, <1>14, <1>15, <1>16, Zenon DEF Next

-----------------------------------------------------------------------------
(* Theorems                                                                *)

\* Until the first restart, the chain follows the rules and what the node
\* remembers follows the chain, whatever it committed, gave up or rolled back.
THEOREM ShardInvariance == Spec => []ShardInv
<1>1. Init => ShardInv
  BY ShardInitInv
<1>2. ShardInv /\ [Next]_vars => ShardInv'
  BY ShardNextInv
<1> QED BY <1>1, <1>2, PTL DEF Spec

\* No mini block is executed by two blocks of the chain and none up to the last
\* notarized meta block is skipped, for any number of meta blocks, mini blocks
\* and rounds, with commits, abandoned blocks and roll backs in any order.
THEOREM NoneTwiceNoneSkipped == Spec => [](crashes = 0 => ExecutedOnce)
<1>1. ShardInv => (crashes = 0 => ExecutedOnce)
  <2> SUFFICES ASSUME ShardInv, crashes = 0 PROVE ExecutedOnce
    BY Zenon
  <2>1. Good(chain) /\ Remembers
    BY Zenon DEF ShardInv
  <2>2. \A i, j \in DOMAIN chain : i # j => chain[i].mbs \cap chain[j].mbs = {}
    BY <2>1, GoodApart, Zenon
  <2>3. LastNotarized = CompleteIn(chain)
    BY <2>1, LastFollows, Zenon
  <2>4. Summary(chain, CompleteIn(chain))
    BY <2>1, GoodComplete, Zenon
  <2> QED BY <2>2, <2>3, <2>4, Zenon DEF ExecutedOnce, Summary
<1> QED BY <1>1, ShardInvariance, PTL

\* notarizedHdrs holds, for the current block and for every block a roll back
\* may go back to, the last meta block complete there.
THEOREM NotarizedFollows == Spec => [](crashes = 0 => NotarizedFollowsChain)
<1>1. ShardInv => (crashes = 0 => NotarizedFollowsChain)
  <2> SUFFICES ASSUME ShardInv, crashes = 0, NEW n \in final .. Len(chain)
               PROVE  (IF Len(chain) - n < Len(notarized) THEN notarized[Len(notarized) - (Len(chain) - n)]
                                                          ELSE notarized[1]) = CompleteIn(SubSeq(chain, 1, n))
    BY Zenon DEF NotarizedFollowsChain
  <2>1. Remembers /\ chain \in Seq(Block)
    BY Zenon DEF ShardInv, Good
  <2>2. final \in Nat /\ Len(chain) \in Nat /\ Len(notarized) \in Nat /\ Len(notarized) > Len(chain) - final
    BY <2>1 DEF Remembers
  <2>3. Len(chain) - n < Len(notarized)
    BY <2>2
  <2>4. notarized[Len(notarized) - (Len(chain) - n)] = CompleteIn(SubSeq(chain, 1, n))
    BY <2>1, Zenon DEF Remembers, Before
  <2> QED BY <2>3, <2>4, Zenon
<1> QED BY <1>1, ShardInvariance, PTL

\* processedMiniBlocks is exactly what the chain has executed of the meta blocks
\* that are not complete, and the MetaBlockUnit storage holds complete ones only,
\* which is what the roll back takes it for.
THEOREM MemoryFollows == Spec => [](crashes = 0 => ProcessedFollowsChain /\ OnlyCompleteStored)
<1>1. ShardInv => (crashes = 0 => ProcessedFollowsChain /\ OnlyCompleteStored)
  <2> SUFFICES ASSUME ShardInv, crashes = 0 PROVE ProcessedFollowsChain /\ OnlyCompleteStored
    BY Zenon
  <2>1. Good(chain) /\ processed = PartlyIn(chain) /\ stored = 1 .. CompleteIn(chain)
    BY Zenon DEF ShardInv, Remembers
  <2> QED BY <2>1 DEF ProcessedFollowsChain, OnlyCompleteStored
<1> QED BY <1>1, ShardInvariance, PTL

\* A block that was processed can be committed: the meta blocks it lists are at
\* hand and the ones it completes follow the last notarized one without a gap, so
\* CommitBlock does not stop halfway with processedMiniBlocks already changed.
THEOREM CommitsGoThrough ==
  Spec => [](crashes = 0 /\ work.stage = "processed" =>
               work.block.metas \subseteq cur /\ Consecutive(ProcessedMetas(work.block), LastNotarized))
<1>1. ShardInv => (crashes = 0 /\ work.stage = "processed" =>
               work.block.metas \subseteq cur /\ Consecutive(ProcessedMetas(work.block), LastNotarized))
  <2> SUFFICES ASSUME ShardInv, crashes = 0, work.stage = "processed"
               PROVE  work.block.metas \subseteq cur /\ Consecutive(ProcessedMetas(work.block), LastNotarized)
    BY Zenon
  <2>1. PICK b, K : b = work.block /\ K = CompleteIn(chain)
    BY Zenon
  <2>2. b \in Block /\ cur = b.metas /\ Summary(chain, K) /\ chain \in Seq(Block) /\ K \in Nat
    BY <2>1, GoodComplete, BoundsAssumption DEF ShardInv, Working
  <2>3. PICK K2 \in 0 .. MaxMeta : Grows(chain, b, K, K2)
    BY <2>1, <2>2, BlockGrows, Zenon DEF ShardInv, Working
  <2>4. LastNotarized = K /\ processed = PartlyIn(chain)
    BY <2>1, LastFollows, Zenon DEF ShardInv, Remembers
  <2>5. ProcessedMetas(b) = (K + 1) .. K2
    BY <2>2, <2>3, <2>4, Completes, Zenon
  <2>6. K2 \in Nat
    BY <2>3, BoundsAssumption
  <2>7. \A m \in (K + 1) .. K2 : m > K /\ (K + 1) .. m \subseteq (K + 1) .. K2
    BY <2>2, <2>6
  <2> QED BY <2>1, <2>2, <2>4, <2>5, <2>7, Zenon DEF Consecutive
<1> QED BY <1>1, ShardInvariance, PTL
=============================================================================
