-------------------------- MODULE RoundCertificates --------------------------
(***************************************************************************)
(* What a consensus of the chain promises, whatever its subrounds and      *)
(* messages (consensus/spos): in a round a validator signs one thing at    *)
(* most, and a block is committed only when enough validators have already *)
(* signed it in its round.                                                 *)
(***************************************************************************)
EXTENDS Integers, FiniteSets

VARIABLES shares,         \* [who, round, hash]: what was signed
          certificates,   \* [round, hash, signers]: what was committed
          quorum          \* how many signers a commit needs

certVars == <<shares, certificates, quorum>>

CertInit == shares = {} /\ certificates = {} /\ quorum \in Nat

SignOnce ==
  /\ \E s \in shares' :
       /\ shares' = shares \cup {s}
       /\ \A t \in shares : ~ (t.who = s.who /\ t.round = s.round)
  /\ UNCHANGED <<certificates, quorum>>

Backed(c) ==
  /\ Cardinality(c.signers) >= quorum
  /\ \A v \in c.signers : [who |-> v, round |-> c.round, hash |-> c.hash] \in shares

Certify ==
  /\ \E c \in certificates' : certificates' = certificates \cup {c} /\ Backed(c)
  /\ UNCHANGED <<shares, quorum>>

CertSpec == CertInit /\ [][SignOnce \/ Certify]_certVars
=============================================================================
