----------------------------- MODULE PeerAccounts -----------------------------
(***************************************************************************)
(* The accounts of the validators and their journal.  Every setter writes  *)
(* the old value of one field to the journal, changes the account object   *)
(* and saves the whole object to the trie; Revert puts the old value back  *)
(* into the object it came from and saves that object.  A caller loads an  *)
(* account, works on that object and drops it, and the journal may hold    *)
(* entries of several objects of one account.                              *)
(*                                                                         *)
(* The fields that are set together are one field: the address and keys,   *)
(* the stake and the jail time, the shards and the waiting list.           *)
(***************************************************************************)
EXTENDS Integers, Sequences, SequencesExt, FiniteSetsExt, Functions

CONSTANTS PeerAddresses, PeerValues, MaxPeerJournal, MaxPeerObjects

ASSUME PeerAssumption == 0 \in PeerValues /\ PeerValues \subseteq Nat

VARIABLES peerTrie,    \* the accounts that are in the trie
          objects,     \* the account objects: [addr, acc]
          atHand,      \* the object the caller works on, 0 for none
          peerJournal, \* entries: [obj, field, old]
          peerHist     \* history: peerHist[n + 1] is the trie when the journal had n entries

peerVars == <<peerTrie, objects, atHand, peerJournal, peerHist>>

NewPeerAccount == [nonce |-> 0, keys |-> 0, stake |-> 0, unStaked |-> 0, place |-> 0,
                   signs |-> <<0, 0>>, leads |-> <<0, 0>>, rating |-> 0]
InPeerTrie(a) == a \in DOMAIN peerTrie
Saved(trie, o) == [a \in DOMAIN trie \cup {o.addr} |-> IF a = o.addr THEN o.acc ELSE trie[a]]

\* After a commit: an empty journal.
PeerInit ==
  /\ \E there \in SUBSET PeerAddresses : peerTrie = [a \in there |-> NewPeerAccount]
  /\ objects = <<>> /\ atHand = 0 /\ peerJournal = <<>>
  /\ peerHist = <<peerTrie>>

-----------------------------------------------------------------------------
(* GetAccountWithJournal: a new object, and an entry when it is created.   *)
LoadPeer(a) ==
  /\ Len(objects) < MaxPeerObjects /\ Len(peerJournal) < MaxPeerJournal
  /\ objects' = Append(objects, [addr |-> a, acc |-> IF InPeerTrie(a) THEN peerTrie[a] ELSE NewPeerAccount])
  /\ atHand' = Len(objects')
  /\ peerTrie' = Saved(peerTrie, Last(objects'))
  /\ peerJournal' = IF InPeerTrie(a) THEN peerJournal
                    ELSE Append(peerJournal, [obj |-> atHand', field |-> "created", old |-> 0])
  /\ peerHist' = IF InPeerTrie(a) THEN peerHist ELSE Append(peerHist, peerTrie')

(* What every setter does: the entry first, then the object, then the trie. *)
Entry(field) == [obj |-> atHand, field |-> field, old |-> objects[atHand].acc[field]]
SetWithJournal(field, value) ==
  /\ atHand # 0 /\ Len(peerJournal) < MaxPeerJournal
  /\ peerJournal' = Append(peerJournal, Entry(field))
  /\ objects' = [objects EXCEPT ![atHand].acc[field] = value]
  /\ peerTrie' = Saved(peerTrie, objects'[atHand])
  /\ peerHist' = Append(peerHist, peerTrie')
  /\ atHand' = atHand

SetNonceWithJournal == \E v \in PeerValues : SetWithJournal("nonce", v)
\* Empty addresses and keys are refused, so that none is set back to nothing.
SetKeysWithJournal == \E v \in PeerValues \ {0} : SetWithJournal("keys", v)
SetStakeWithJournal == \E v \in PeerValues : SetWithJournal("stake", v)
SetUnStakedNonceWithJournal == \E v \in PeerValues : SetWithJournal("unStaked", v)
SetPlaceWithJournal == \E v \in PeerValues : SetWithJournal("place", v)
Rates(r) == {<<r[1] + 1, r[2]>>, <<r[1], r[2] + 1>>}
ValidatorSuccessRateWithJournal ==
  atHand # 0 /\ \E r \in Rates(objects[atHand].acc.signs) : SetWithJournal("signs", r)
LeaderSuccessRateWithJournal ==
  atHand # 0 /\ \E r \in Rates(objects[atHand].acc.leads) : SetWithJournal("leads", r)
SetRatingWithJournal == \E v \in PeerValues : SetWithJournal("rating", v)

-----------------------------------------------------------------------------
(* The entries' Revert, one for each kind, on the heap of objects.          *)
RevertKeys(os, e) == [os EXCEPT ![e.obj].acc.keys = e.old]
RevertStake(os, e) == [os EXCEPT ![e.obj].acc.stake = e.old]
RevertPlace(os, e) == [os EXCEPT ![e.obj].acc.place = e.old]
RevertRates(os, e) == [os EXCEPT ![e.obj].acc[e.field] = e.old]
RevertRatingOrUnStaked(os, e) == [os EXCEPT ![e.obj].acc[e.field] = e.old]
RevertNonce(os, e) == [os EXCEPT ![e.obj].acc.nonce = e.old]

RevertEntry(os, e) ==
  CASE e.field = "keys"  -> RevertKeys(os, e)
    [] e.field = "stake" -> RevertStake(os, e)
    [] e.field = "place" -> RevertPlace(os, e)
    [] e.field \in {"signs", "leads"} -> RevertRates(os, e)
    [] e.field \in {"rating", "unStaked"} -> RevertRatingOrUnStaked(os, e)
    [] e.field = "nonce" -> RevertNonce(os, e)
    [] OTHER -> os

(* RevertToSnapshot undoes the entries from the last one back.  Objects no  *)
(* entry refers to are forgotten.                                           *)
Mut_EntriesBack(n) == [i \in 1 .. Len(peerJournal) - n |-> peerJournal[n + i]]
EntriesBack(n) == Reverse([i \in 1 .. Len(peerJournal) - n |-> peerJournal[n + i]])
UndoOne(s, e) ==
  LET os == RevertEntry(s.objects, e)
      addr == os[e.obj].addr
  IN [objects |-> os,
      trie |-> IF e.field = "created" THEN Restrict(s.trie, DOMAIN s.trie \ {addr}) ELSE Saved(s.trie, os[e.obj])]
RevertPeerStateToSnapshot(n) ==
  /\ n < Len(peerJournal)
  /\ \E s \in {FoldLeft(UndoOne, [objects |-> objects, trie |-> peerTrie], EntriesBack(n))} :
       /\ peerTrie' = s.trie
       /\ objects' = SubSeq(s.objects, 1, Max({0} \cup {peerJournal[i].obj : i \in 1 .. n}))
  /\ peerJournal' = SubSeq(peerJournal, 1, n)
  /\ peerHist' = SubSeq(peerHist, 1, n + 1)
  /\ atHand' = 0

PeerNext ==
  \/ \E a \in PeerAddresses : LoadPeer(a)
  \/ SetNonceWithJournal \/ SetKeysWithJournal \/ SetStakeWithJournal \/ SetUnStakedNonceWithJournal
  \/ SetPlaceWithJournal \/ ValidatorSuccessRateWithJournal \/ LeaderSuccessRateWithJournal \/ SetRatingWithJournal
  \/ \E n \in 0 .. MaxPeerJournal : RevertPeerStateToSnapshot(n)

PeerSpec == PeerInit /\ [][PeerNext]_peerVars

-----------------------------------------------------------------------------
(* Reverting to a snapshot restores every account as it was when the       *)
(* snapshot was taken, for every mix of setters and objects; accounts that *)
(* were created since are gone.                                            *)
RevertRestoresPeers == peerTrie = Last(peerHist)

=============================================================================
