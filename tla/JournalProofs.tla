--------------------------- MODULE JournalProofs ----------------------------
(***************************************************************************)
(* TLAPS proofs about AccountsDB, first part: the invariant of the journal *)
(* and of the account objects, and the steps that add to the journal.      *)
(*                                                                         *)
(* The journal does not say which state an entry goes back to: Revert      *)
(* changes one field of an account object and saves the object whole.      *)
(* This is right only if the object has not missed a change made through   *)
(* another object of the same account.  The invariant says why it has not: *)
(* along the journal the objects of one account are used one after the     *)
(* other.  An account that had no data comes back with an empty data trie  *)
(* in place of none, so states are compared by Covers and not by equality. *)
(***************************************************************************)
EXTENDS MCAccounts, TLAPS

-----------------------------------------------------------------------------
(* What the invariant speaks of                                            *)

RootOf(acc) == IF acc = Absent \/ acc.root = NilRoot THEN EmptyMap ELSE acc.root

\* x is y, but for an empty data trie in place of none.
Covers(x, y) ==
  \/ x = y
  \/ y # Absent /\ y.root = NilRoot /\ x = [y EXCEPT !.root = EmptyMap]

ByHandle(e) == e.kind \in {"balance", "codeHash", "data"}

Touches(e, hs, a) ==
  \/ e.kind = "account" /\ e.addr = a
  \/ ByHandle(e) /\ hs[e.h].addr = a

Merged(old, data) == [k \in Keys |-> IF old[k] # NotSet THEN old[k] ELSE data[k]]

\* What Revert of an entry makes of an account.
Undone(e, acc) ==
  CASE e.kind = "balance"  -> [acc EXCEPT !.balance = e.old]
    [] e.kind = "codeHash" -> [acc EXCEPT !.codeHash = e.old]
    [] e.kind = "data"     -> [acc EXCEPT !.root = Merged(e.old, acc.root)]

\* Entry e takes the main trie from m1 back to m0.
LinkAccount(e, x0, x1) ==
  /\ x0 # Absent /\ x1 # Absent
  /\ Covers(Undone(e, x1), x0)
  /\ x0.root # NilRoot => x1.root # NilRoot
  /\ e.kind = "data" => x1.root # NilRoot

Link(e, hs, m0, m1) ==
  /\ \A a \in Addresses : ~Touches(e, hs, a) => Covers(m1.acc[a], m0.acc[a])
  /\ m0.codes = IF e.kind = "code" THEN m1.codes \ {e.code} ELSE m1.codes
  /\ e.kind = "account" => m0.acc[e.addr] = Absent /\ m1.acc[e.addr] = NewAccount
  /\ ByHandle(e) => LinkAccount(e, m0.acc[hs[e.h].addr], m1.acc[hs[e.h].addr])

CodesIn(m) == \A a \in Addresses : m.acc[a] # Absent => m.acc[a].codeHash \in m.codes \cup {NoCode}

\* An account that exists goes on existing along the journal, and keeps having a
\* data root.
Lasts(x, y) == x # Absent => y # Absent /\ (x.root # NilRoot => y.root # NilRoot)

\* The first p entries of the journal and the states before and after them.
Journal(es, hs, hi, p) ==
  /\ \A n \in 1..p : Link(es[n], hs, hi[n], hi[n + 1])
  /\ \A i, j \in 1..(p + 1), a \in Addresses :
       i <= j /\ (\A n \in i..(j - 1) : ~Touches(es[n], hs, a))
         => Covers(hi[j].acc[a], hi[i].acc[a])
  /\ \A i, j \in 1..(p + 1), a \in Addresses :
       i <= j => Lasts(hi[i].acc[a], hi[j].acc[a])
  /\ \A i, j \in 1..p :
       i < j /\ ByHandle(es[i]) /\ ByHandle(es[j]) /\ hs[es[i].h].addr = hs[es[j].h].addr
         => es[i].h <= es[j].h
  /\ \A n \in 1..(p + 1) : CodesIn(hi[n])

\* How much of the journal has not been reverted.
Pos == IF reverting = NotReverting THEN Len(entries) ELSE reverting.pos

\* An entry is the last one that was made through its account object.
LastUse(es, n, p) ==
  ByHandle(es[n]) /\ \A m \in (n + 1)..p : ByHandle(es[m]) => es[m].h # es[n].h

MainFollows(main, m) == main.codes = m.codes /\ \A a \in Addresses : Covers(main.acc[a], m.acc[a])

\* An object is what its account was after the object's last entry.
HandlesFollow(es, hs, hi, p) ==
  \A n \in 1..p : LastUse(es, n, p) => Covers(hs[es[n].h].acc, hi[n + 1].acc[hs[es[n].h].addr])

EntriesOfHandles(es, hs) == \A n \in 1..Len(es) : ByHandle(es[n]) => es[n].h \in 1..Len(hs)

\* The data trie of the holder has the data of the account; without one the
\* data are in the database.
HolderFollows ==
  \A a \in Addresses :
    IF dataTries[a] = 0 THEN RootOf(mainTrie.acc[a]) \in db.data \cup {EmptyMap}
    ELSE tries[dataTries[a]] = RootOf(mainTrie.acc[a])

HolderApart == \A a, b \in Addresses : dataTries[a] # 0 /\ dataTries[a] = dataTries[b] => a = b

\* The data entries of an account were made on the data trie of the holder.
DataEntries(es, hs, p) ==
  \A n \in 1..p : es[n].kind = "data" =>
    hs[es[n].h].tr # 0 /\ hs[es[n].h].tr = dataTries[hs[es[n].h].addr]

\* A caller works with the newest object of an account.
LiveIsNewest ==
  \A h \in live :
    /\ \A g \in 1..Len(handles) : handles[g].addr = handles[h].addr => g <= h
    /\ IF handles[h].tr = 0 THEN handles[h].acc.root = NilRoot
       ELSE handles[h].tr = dataTries[handles[h].addr]

LoadingFollows ==
  LET l == loading[Processor] IN
  l # NotLoading => /\ reverting = NotReverting
                    /\ l.acc = mainTrie.acc[l.addr] /\ l.acc.root # NilRoot
                    /\ dataTries[l.addr] = 0

AccInv ==
  /\ TypeOK
  /\ EntriesOfHandles(entries, handles)
  /\ Journal(entries, handles, hist, Pos)
  /\ MainFollows(mainTrie, hist[Pos + 1])
  /\ HandlesFollow(entries, handles, hist, Pos)
  /\ HolderFollows /\ HolderApart
  /\ DataEntries(entries, handles, Pos)
  /\ LiveIsNewest /\ LoadingFollows
  /\ CommittedIsComplete
-----------------------------------------------------------------------------
(* Facts about accounts                                                    *)

MaybeAccounts == Accounts \cup {Absent}

LEMMA Values0 ==
  /\ EmptyMap \in DataMaps /\ NewAccount \in Accounts
  /\ Absent \notin Accounts /\ EmptyMap # NilRoot
<1>1. EmptyMap \in DataMaps
  BY DataAssumption, Zenon DEF EmptyMap, DataMaps
<1> QED BY <1>1, DataAssumption, MissingAssumption, Zenon DEF NewAccount, Accounts

LEMMA AccountFields ==
  ASSUME NEW x \in Accounts
  PROVE  /\ x = [balance |-> x.balance, codeHash |-> x.codeHash, root |-> x.root]
         /\ x.balance \in Balances /\ x.codeHash \in Codes \cup {NoCode}
         /\ x.root \in DataMaps \cup {NilRoot}
         /\ x # Absent
BY MissingAssumption, Zenon DEF Accounts

LEMMA WithFields ==
  ASSUME NEW x \in Accounts, NEW b \in Balances, NEW c \in Codes \cup {NoCode},
         NEW d \in DataMaps \cup {NilRoot}
  PROVE  /\ [x EXCEPT !.balance = b] = [balance |-> b, codeHash |-> x.codeHash, root |-> x.root]
         /\ [x EXCEPT !.codeHash = c] = [balance |-> x.balance, codeHash |-> c, root |-> x.root]
         /\ [x EXCEPT !.root = d] = [balance |-> x.balance, codeHash |-> x.codeHash, root |-> d]
         /\ [x EXCEPT !.balance = b] \in Accounts /\ [x EXCEPT !.codeHash = c] \in Accounts
         /\ [x EXCEPT !.root = d] \in Accounts
BY DEF Accounts

LEMMA CoversRefl == ASSUME NEW x PROVE Covers(x, x)
BY Zenon DEF Covers

\* What two accounts have in common of which one covers the other.
LEMMA CoversFields ==
  ASSUME NEW x, NEW y \in MaybeAccounts, Covers(x, y)
  PROVE  /\ x \in MaybeAccounts
         /\ x = Absent <=> y = Absent
         /\ RootOf(x) = RootOf(y)
         /\ y # Absent => /\ x.balance = y.balance /\ x.codeHash = y.codeHash
                          /\ y.root # NilRoot => x = y
                          /\ x.root = y.root \/ (y.root = NilRoot /\ x.root = EmptyMap)
<1>1. CASE x = y
  BY <1>1, Zenon DEF RootOf
<1>2. CASE y # Absent /\ y.root = NilRoot /\ x = [y EXCEPT !.root = EmptyMap]
  <2>1. y \in Accounts
    BY <1>2, Zenon DEF MaybeAccounts
  <2>2. x \in Accounts /\ x = [balance |-> y.balance, codeHash |-> y.codeHash, root |-> EmptyMap]
    <3>1. EmptyMap \in DataMaps \cup {NilRoot}
      BY Values0, Zenon
    <3>2. [y EXCEPT !.root = EmptyMap] = [balance |-> y.balance, codeHash |-> y.codeHash, root |-> EmptyMap]
      BY <2>1 DEF Accounts
    <3> QED BY <1>2, <2>1, <3>1, <3>2, AccountFields, Zenon DEF Accounts
  <2>3. x # Absent
    BY <2>2, AccountFields, Zenon
  <2>4. x.balance = y.balance /\ x.codeHash = y.codeHash /\ x.root = EmptyMap
    BY <2>2, Zenon
  <2> QED BY <1>2, <2>2, <2>3, <2>4, Zenon DEF RootOf, MaybeAccounts
<1> QED BY <1>1, <1>2, Zenon DEF Covers

LEMMA CoversTrans ==
  ASSUME NEW x, NEW y, NEW z \in MaybeAccounts, Covers(x, y), Covers(y, z)
  PROVE  Covers(x, z)
<1>1. CASE y = z
  BY <1>1, Zenon
<1>2. CASE y # z
  <2>1. z # Absent /\ z.root = NilRoot /\ y = [z EXCEPT !.root = EmptyMap]
    BY <1>2, Zenon DEF Covers
  <2>2. y # Absent /\ y.root # NilRoot /\ y \in MaybeAccounts
    <3>1. y.root = EmptyMap
      BY <2>1, Zenon DEF MaybeAccounts, Accounts
    <3> QED BY <2>1, <3>1, CoversFields, Values0, Zenon
  <2>3. x = y
    BY <2>2, CoversFields, Zenon
  <2> QED BY <2>1, <2>3, Zenon DEF Covers
<1> QED BY <1>1, <1>2, Zenon
LEMMA EntryFields ==
  ASSUME NEW e \in Entries
  PROVE  /\ e.kind \in {"account", "code", "balance", "codeHash", "data"}
         /\ e.kind = "account" => e.addr \in Addresses
         /\ e.kind = "code" => e.code \in Codes
         /\ ByHandle(e) => e.h \in 1..MaxHandles
         /\ e.kind = "balance" => e.old \in Balances
         /\ e.kind = "codeHash" => e.old \in Codes \cup {NoCode}
         /\ e.kind = "data" => e.old \in Updates
         /\ ByHandle(e) <=> "h" \in DOMAIN e
BY Zenon DEF Entries, ByHandle

LEMMA MergedType ==
  ASSUME NEW old \in Updates, NEW d \in DataMaps
  PROVE  Merged(old, d) \in DataMaps
BY Zenon DEF Merged, Updates, DataMaps

LEMMA UndoneType ==
  ASSUME NEW e \in Entries, ByHandle(e), NEW x \in Accounts, e.kind = "data" => x.root # NilRoot
  PROVE  Undone(e, x) \in Accounts
<1>1. CASE e.kind = "balance"
  BY <1>1, EntryFields, AccountFields, WithFields, Zenon DEF Undone
<1>2. CASE e.kind = "codeHash"
  BY <1>2, EntryFields, AccountFields, WithFields, Zenon DEF Undone
<1>3. CASE e.kind = "data"
  <2>1. Merged(e.old, x.root) \in DataMaps
    BY <1>3, EntryFields, AccountFields, MergedType, Zenon
  <2>2. [x EXCEPT !.root = Merged(e.old, x.root)] \in Accounts
    BY <2>1, WithFields, AccountFields, Zenon
  <2> QED BY <1>3, <2>2, Zenon DEF Undone
<1> QED BY <1>1, <1>2, <1>3, Zenon DEF ByHandle

\* Revert of an entry takes an account that covers the state after the entry to
\* one that covers the state before it.
LEMMA UndoneCovers ==
  ASSUME NEW e \in Entries, ByHandle(e), NEW x, NEW y0 \in MaybeAccounts,
         NEW y1 \in MaybeAccounts, Covers(x, y1), LinkAccount(e, y0, y1)
  PROVE  x \in Accounts /\ Undone(e, x) \in Accounts /\ Covers(Undone(e, x), y0)
<1>1. y0 \in Accounts /\ y1 \in Accounts
  BY Zenon DEF LinkAccount, MaybeAccounts
<1>2. x \in Accounts /\ (e.kind = "data" => x.root # NilRoot)
  BY <1>1, CoversFields, AccountFields, Zenon DEF MaybeAccounts, LinkAccount
<1>3. Undone(e, x) \in Accounts
  BY <1>2, UndoneType, Zenon
<1>4. CASE x = y1
  BY <1>2, <1>3, <1>4, Zenon DEF LinkAccount
<1>5. CASE x # y1
  <2>1. y1.root = NilRoot /\ x = [y1 EXCEPT !.root = EmptyMap]
    BY <1>5, Zenon DEF Covers
  <2>2. e.kind # "data" /\ y0.root = NilRoot
    BY <2>1, Zenon DEF LinkAccount
  <2>3. x = [balance |-> y1.balance, codeHash |-> y1.codeHash, root |-> EmptyMap]
    BY <1>1, <2>1, WithFields, AccountFields, Values0, Zenon
  <2> DEFINE b == IF e.kind = "balance" THEN e.old ELSE y1.balance
             c == IF e.kind = "codeHash" THEN e.old ELSE y1.codeHash
  <2>4. b \in Balances /\ c \in Codes \cup {NoCode}
    BY <1>1, EntryFields, AccountFields, Zenon
  <2>5. Undone(e, y1) = [balance |-> b, codeHash |-> c, root |-> NilRoot]
    <3>1. CASE e.kind = "balance"
      BY <1>1, <2>1, <3>1, EntryFields, AccountFields, WithFields, Zenon DEF Undone
    <3>2. CASE e.kind = "codeHash"
      BY <1>1, <2>1, <3>2, EntryFields, AccountFields, WithFields DEF Undone
    <3> QED BY <2>2, <3>1, <3>2, Zenon DEF ByHandle
  <2>6. Undone(e, x) = [balance |-> b, codeHash |-> c, root |-> EmptyMap]
    <3>1. CASE e.kind = "balance"
      BY <1>2, <2>3, <3>1, EntryFields, AccountFields, WithFields, Zenon DEF Undone
    <3>2. CASE e.kind = "codeHash"
      BY <1>2, <2>3, <3>2, EntryFields, AccountFields, WithFields, Zenon DEF Undone
    <3> QED BY <2>2, <3>1, <3>2, Zenon DEF ByHandle
  <2> HIDE DEF b, c
  <2>7. y0 = [balance |-> b, codeHash |-> c, root |-> NilRoot]
    <3>1. CASE Undone(e, y1) = y0
      BY <2>5, <3>1, Zenon
    <3>2. CASE Undone(e, y1) = [y0 EXCEPT !.root = EmptyMap]
      <4>1. Undone(e, y1).root = EmptyMap
        BY <1>1, <3>2, WithFields, AccountFields, Values0, Zenon
      <4> QED BY <2>5, <4>1, Values0
    <3> QED BY <3>1, <3>2, Zenon DEF LinkAccount, Covers
  <2>8. Undone(e, x) = [y0 EXCEPT !.root = EmptyMap]
    BY <2>6, <2>7
  <2> QED BY <1>1, <1>2, <1>3, <2>2, <2>8, AccountFields, Zenon DEF Covers
<1> QED BY <1>4, <1>5, Zenon

-----------------------------------------------------------------------------
(* Facts about the journal                                                 *)

\* A journal says of an account object only whose account it is.
LEMMA JournalSameAddrs ==
  ASSUME NEW es, NEW hs, NEW gs, NEW hi, NEW p,
         \A n \in 1..p : ByHandle(es[n]) => gs[es[n].h].addr = hs[es[n].h].addr,
         p \in Nat, Journal(es, hs, hi, p)
  PROVE  Journal(es, gs, hi, p)
<1>1. ASSUME NEW n \in 1..p, NEW a PROVE Touches(es[n], gs, a) <=> Touches(es[n], hs, a)
  BY Zenon DEF Touches
<1>2. ASSUME NEW n \in 1..p PROVE Link(es[n], gs, hi[n], hi[n + 1])
  BY <1>1, Zenon DEF Journal, Link
<1>3. ASSUME NEW i \in 1..(p + 1), NEW j \in 1..(p + 1), NEW a \in Addresses,
             i <= j, \A n \in i..(j - 1) : ~Touches(es[n], gs, a)
      PROVE  Covers(hi[j].acc[a], hi[i].acc[a])
  <2>1. \A n \in i..(j - 1) : n \in 1..p
    OBVIOUS
  <2>2. \A n \in i..(j - 1) : ~Touches(es[n], hs, a)
    BY <1>1, <1>3, <2>1, Zenon
  <2> QED BY <1>3, <2>2, Zenon DEF Journal
<1>4. \A i, j \in 1..p :
        i < j /\ ByHandle(es[i]) /\ ByHandle(es[j]) /\ gs[es[i].h].addr = gs[es[j].h].addr
          => es[i].h <= es[j].h
  BY Zenon DEF Journal
<1> QED BY <1>2, <1>3, <1>4, Zenon DEF Journal

\* So does a shorter one.
LEMMA JournalPrefix ==
  ASSUME NEW es, NEW hs, NEW hi, NEW p \in Nat, NEW q \in Nat, q <= p, Journal(es, hs, hi, p)
  PROVE  Journal(es, hs, hi, q)
<1>1. \A n \in 1..q : n \in 1..p
  OBVIOUS
<1>2. \A n \in 1..(q + 1) : n \in 1..(p + 1)
  OBVIOUS
<1> QED BY <1>1, <1>2, Zenon DEF Journal

\* And another sequence with the same beginning.
LEMMA JournalSame ==
  ASSUME NEW es, NEW hs, NEW hi, NEW fs, NEW gi, NEW p \in Nat,
         \A n \in 1..p : fs[n] = es[n], \A n \in 1..(p + 1) : gi[n] = hi[n],
         Journal(es, hs, hi, p)
  PROVE  Journal(fs, hs, gi, p)
<1>1. ASSUME NEW n \in 1..p PROVE Link(fs[n], hs, gi[n], gi[n + 1])
  BY DEF Journal
<1>2. ASSUME NEW i \in 1..(p + 1), NEW j \in 1..(p + 1), NEW a \in Addresses,
             i <= j, \A n \in i..(j - 1) : ~Touches(fs[n], hs, a)
      PROVE  Covers(gi[j].acc[a], gi[i].acc[a])
  <2>1. \A n \in i..(j - 1) : n \in 1..p
    OBVIOUS
  <2>2. \A n \in i..(j - 1) : ~Touches(es[n], hs, a)
    BY <1>2, <2>1, ZenonT(30)
  <2> QED BY <1>2, <2>2, Zenon DEF Journal
<1>3. \A i, j \in 1..(p + 1), a \in Addresses : i <= j => Lasts(gi[i].acc[a], gi[j].acc[a])
  BY Zenon DEF Journal
<1>4. \A i, j \in 1..p :
        i < j /\ ByHandle(fs[i]) /\ ByHandle(fs[j]) /\ hs[fs[i].h].addr = hs[fs[j].h].addr
          => fs[i].h <= fs[j].h
  BY Zenon DEF Journal
<1>5. \A n \in 1..(p + 1) : CodesIn(gi[n])
  BY Zenon DEF Journal
<1> QED BY <1>1, <1>2, <1>3, <1>4, <1>5, Zenon DEF Journal
LEMMA MainTrieFields ==
  ASSUME NEW m \in MainTries
  PROVE  /\ m = [acc |-> m.acc, codes |-> m.codes]
         /\ m.acc \in [Addresses -> MaybeAccounts] /\ m.codes \subseteq Codes
         /\ \A a \in Addresses : m.acc[a] \in MaybeAccounts
BY Zenon DEF MainTries, MaybeAccounts

LEMMA LinkLasts ==
  ASSUME NEW e, NEW hs, NEW m0 \in MainTries, NEW m1 \in MainTries, Link(e, hs, m0, m1),
         NEW a \in Addresses
  PROVE  Lasts(m0.acc[a], m1.acc[a])
<1>1. CASE ~Touches(e, hs, a)
  <2>1. Covers(m1.acc[a], m0.acc[a]) /\ m0.acc[a] \in MaybeAccounts
    BY <1>1, MainTrieFields, Zenon DEF Link
  <2> QED BY <2>1, CoversFields, Zenon DEF Lasts
<1>2. CASE e.kind = "account" /\ e.addr = a
  BY <1>2, Zenon DEF Link, Lasts
<1>3. CASE ByHandle(e) /\ hs[e.h].addr = a
  BY <1>3, Zenon DEF Link, LinkAccount, Lasts
<1> QED BY <1>1, <1>2, <1>3, Zenon DEF Touches

LEMMA LastsTrans ==
  ASSUME NEW x, NEW y, NEW z, Lasts(x, y), Lasts(y, z)
  PROVE  Lasts(x, z)
BY Zenon DEF Lasts

\* An entry of a new change is put at the end of the journal.
LEMMA JournalAppend ==
  ASSUME NEW es \in Seq(Entries), NEW hs, NEW hi \in Seq(MainTries), Len(hi) = Len(es) + 1,
         Journal(es, hs, hi, Len(es)),
         NEW e \in Entries, NEW m \in MainTries, Link(e, hs, hi[Len(es) + 1], m), CodesIn(m),
         ByHandle(e) => \A n \in 1..Len(es) : ByHandle(es[n]) /\ hs[es[n].h].addr = hs[e.h].addr
                                                => es[n].h <= e.h
  PROVE  Journal(Append(es, e), hs, Append(hi, m), Len(es) + 1)
<1> DEFINE p == Len(es)
           fs == Append(es, e)
           gi == Append(hi, m)
<1>1. p \in Nat /\ (\A n \in 1..p : fs[n] = es[n]) /\ fs[p + 1] = e
  OBVIOUS
<1>2. (\A n \in 1..(p + 1) : gi[n] = hi[n] /\ hi[n] \in MainTries) /\ gi[p + 2] = m
  OBVIOUS
<1>3. Journal(fs, hs, gi, p)
  BY <1>1, <1>2, JournalSame, Zenon
<1> HIDE DEF fs, gi, p
<1>4. Link(fs[p + 1], hs, gi[p + 1], gi[p + 2])
  BY <1>1, <1>2 DEF p
<1>5. \A n \in 1..(p + 2) : gi[n] \in MainTries
  BY <1>1, <1>2
<1>6. ASSUME NEW n \in 1..(p + 1) PROVE Link(fs[n], hs, gi[n], gi[n + 1])
  <2>1. CASE n = p + 1
    BY <1>1, <1>4, <2>1
  <2>2. CASE n # p + 1
    <3>1. n \in 1..p
      BY <1>1, <2>2
    <3> QED BY <1>3, <3>1, Zenon DEF Journal
  <2> QED BY <2>1, <2>2, Zenon
<1>7. ASSUME NEW i \in 1..(p + 2), NEW j \in 1..(p + 2), NEW a \in Addresses,
             i <= j, \A n \in i..(j - 1) : ~Touches(fs[n], hs, a)
      PROVE  Covers(gi[j].acc[a], gi[i].acc[a])
  <2>1. CASE j # p + 2
    <3>1. i \in 1..(p + 1) /\ j \in 1..(p + 1)
      BY <1>1, <1>7, <2>1
    <3> QED BY <1>3, <1>7, <3>1, Zenon DEF Journal
  <2>2. CASE j = p + 2 /\ i = j
    BY <2>2, CoversRefl, Zenon
  <2>3. CASE j = p + 2 /\ i # j
    <3>1. i \in 1..(p + 1) /\ p + 1 \in 1..(p + 1) /\ i <= p + 1 /\ p + 1 \in i..(j - 1)
      BY <1>1, <1>7, <2>3
    <3>2. \A n \in i..(p + 1 - 1) : n \in i..(j - 1)
      BY <1>1, <2>3, <3>1
    <3>3. Covers(gi[p + 1].acc[a], gi[i].acc[a])
      BY <1>3, <1>7, <3>1, <3>2 DEF Journal
    <3>4. Covers(gi[p + 2].acc[a], gi[p + 1].acc[a])
      BY <1>4, <1>7, <3>1, Zenon DEF Link
    <3>5. gi[i].acc[a] \in MaybeAccounts
      BY <1>5, MainTrieFields, Zenon
    <3> QED BY <2>3, <3>3, <3>4, <3>5, CoversTrans, Zenon
  <2> QED BY <2>1, <2>2, <2>3, Zenon
<1>8. ASSUME NEW i \in 1..(p + 2), NEW j \in 1..(p + 2), NEW a \in Addresses, i <= j
      PROVE  Lasts(gi[i].acc[a], gi[j].acc[a])
  <2>1. CASE j # p + 2
    <3>1. i \in 1..(p + 1) /\ j \in 1..(p + 1)
      BY <1>1, <1>8, <2>1
    <3> QED BY <1>3, <1>8, <3>1, Zenon DEF Journal
  <2>2. CASE j = p + 2 /\ i = j
    BY <2>2, Zenon DEF Lasts
  <2>3. CASE j = p + 2 /\ i # j
    <3>1. i \in 1..(p + 1) /\ p + 1 \in 1..(p + 1) /\ i <= p + 1
      BY <1>1, <1>8, <2>3
    <3>2. Lasts(gi[i].acc[a], gi[p + 1].acc[a])
      BY <1>3, <3>1, Zenon DEF Journal
    <3>3. gi[p + 1] \in MainTries /\ gi[p + 2] \in MainTries
      BY <1>1, <1>5
    <3>4. Lasts(gi[p + 1].acc[a], gi[p + 2].acc[a])
      BY <1>4, <3>3, LinkLasts, Zenon
    <3> QED BY <2>3, <3>2, <3>4, LastsTrans, Zenon
  <2> QED BY <2>1, <2>2, <2>3, Zenon
<1>9. ASSUME NEW i \in 1..(p + 1), NEW j \in 1..(p + 1), i < j,
             ByHandle(fs[i]), ByHandle(fs[j]), hs[fs[i].h].addr = hs[fs[j].h].addr
      PROVE  fs[i].h <= fs[j].h
  <2>1. i \in 1..p
    BY <1>1, <1>9
  <2>2. CASE j = p + 1
    <3>1. fs[i] = es[i] /\ fs[j] = e
      BY <1>1, <2>1, <2>2, Zenon
    <3> QED BY <1>9, <2>1, <3>1, Zenon DEF p
  <2>3. CASE j # p + 1
    <3>1. j \in 1..p
      BY <1>1, <2>3
    <3> QED BY <1>3, <1>9, <2>1, <3>1, Zenon DEF Journal
  <2> QED BY <2>2, <2>3, Zenon
<1>10. ASSUME NEW n \in 1..(p + 2) PROVE CodesIn(gi[n])
  <2>1. CASE n = p + 2
    BY <1>2, <2>1, Zenon
  <2>2. CASE n # p + 2
    <3>1. n \in 1..(p + 1)
      BY <1>1, <2>2
    <3> QED BY <1>3, <3>1, Zenon DEF Journal
  <2> QED BY <2>1, <2>2, Zenon
<1>11. (p + 1) + 1 = p + 2
  BY <1>1
<1>12. Journal(fs, hs, gi, p + 1)
  BY <1>6, <1>7, <1>8, <1>9, <1>10, <1>11, Zenon DEF Journal
<1> QED BY <1>12, Zenon DEF p, fs, gi
LEMMA HandleFields ==
  ASSUME NEW hd \in Handles
  PROVE  /\ hd = [addr |-> hd.addr, acc |-> hd.acc, tr |-> hd.tr]
         /\ hd.addr \in Addresses /\ hd.acc \in Accounts /\ hd.tr \in 0..MaxTries
BY Zenon DEF Handles

LEMMA SaveAccountFields ==
  ASSUME NEW m \in MainTries, NEW hd, hd.addr \in Addresses, hd.acc \in Accounts
  PROVE  /\ SaveAccount(m, hd) \in MainTries
         /\ SaveAccount(m, hd).codes = m.codes
         /\ SaveAccount(m, hd).acc[hd.addr] = hd.acc
         /\ \A a \in Addresses : a # hd.addr => SaveAccount(m, hd).acc[a] = m.acc[a]
<1> DEFINE f == [m.acc EXCEPT ![hd.addr] = hd.acc]
<1>1. m.acc \in [Addresses -> MaybeAccounts] /\ m.codes \subseteq Codes
  BY MainTrieFields, Zenon
<1>2. /\ f \in [Addresses -> MaybeAccounts] /\ f[hd.addr] = hd.acc
      /\ \A a \in Addresses : a # hd.addr => f[a] = m.acc[a]
  BY <1>1, Zenon DEF MaybeAccounts
<1>3. SaveAccount(m, hd) = [acc |-> f, codes |-> m.codes]
  BY <1>1 DEF SaveAccount, MainTries
<1> HIDE DEF f
<1> QED BY <1>1, <1>2, <1>3 DEF MainTries, MaybeAccounts

\* What the journal, the account objects and the main trie have in common when
\* nothing is reverted.
Recorded(es, hs, hi, main) ==
  /\ es \in Seq(Entries) /\ hs \in Seq(Handles) /\ hi \in Seq(MainTries)
  /\ Len(hi) = Len(es) + 1
  /\ EntriesOfHandles(es, hs)
  /\ Journal(es, hs, hi, Len(es))
  /\ HandlesFollow(es, hs, hi, Len(es))
  /\ main \in MainTries /\ MainFollows(main, hi[Len(es) + 1])

LEMMA RecordedCodes ==
  ASSUME NEW es, NEW hs, NEW hi, NEW main, Recorded(es, hs, hi, main)
  PROVE  CodesIn(main)
<1>1. Len(es) \in Nat /\ hi[Len(es) + 1] \in MainTries /\ CodesIn(hi[Len(es) + 1])
  BY DEF Recorded, Journal
<1>2. ASSUME NEW a \in Addresses, main.acc[a] # Absent
      PROVE  main.acc[a].codeHash \in main.codes \cup {NoCode}
  <2> DEFINE y == hi[Len(es) + 1].acc[a]
  <2>1. Covers(main.acc[a], y) /\ y \in MaybeAccounts /\ main.codes = hi[Len(es) + 1].codes
    BY <1>1, MainTrieFields, Zenon DEF Recorded, MainFollows
  <2>2. y # Absent /\ main.acc[a].codeHash = y.codeHash
    BY <1>2, <2>1, CoversFields, Zenon
  <2> QED BY <1>1, <2>1, <2>2, Zenon DEF CodesIn
<1> QED BY <1>2, Zenon DEF CodesIn

LEMMA HandlesAppend ==
  ASSUME NEW es \in Seq(Entries), NEW hs, NEW gs, NEW hi \in Seq(MainTries),
         Len(hi) = Len(es) + 1, HandlesFollow(es, hs, hi, Len(es)),
         NEW e \in Entries, NEW m \in MainTries,
         \A n \in 1..Len(es) : ByHandle(es[n]) /\ (ByHandle(e) => es[n].h # e.h)
                                 => gs[es[n].h] = hs[es[n].h],
         ByHandle(e) => Covers(gs[e.h].acc, m.acc[gs[e.h].addr])
  PROVE  HandlesFollow(Append(es, e), gs, Append(hi, m), Len(es) + 1)
<1> DEFINE p == Len(es)
           fs == Append(es, e)
           gi == Append(hi, m)
<1>1. p \in Nat /\ (\A n \in 1..p : fs[n] = es[n]) /\ fs[p + 1] = e
  OBVIOUS
<1>2. (\A n \in 1..(p + 1) : gi[n] = hi[n]) /\ gi[(p + 1) + 1] = m
  OBVIOUS
<1> HIDE DEF fs, gi, p
<1>3. ASSUME NEW n \in 1..(p + 1), LastUse(fs, n, p + 1)
      PROVE  Covers(gs[fs[n].h].acc, gi[n + 1].acc[gs[fs[n].h].addr])
  <2>1. CASE n = p + 1
    BY <1>1, <1>2, <1>3, <2>1, Zenon DEF LastUse
  <2>2. CASE n # p + 1
    <3>1. n \in 1..p /\ n + 1 \in 1..(p + 1) /\ fs[n] = es[n] /\ p + 1 \in (n + 1)..(p + 1)
      BY <1>1, <2>2
    <3>2. ByHandle(es[n]) /\ (ByHandle(e) => es[n].h # e.h)
      BY <1>1, <1>3, <3>1, Zenon DEF LastUse
    <3>3. \A k \in (n + 1)..p : k \in (n + 1)..(p + 1) /\ fs[k] = es[k]
      BY <1>1
    <3>4. LastUse(es, n, p)
      BY <1>3, <3>1, <3>3, Zenon DEF LastUse
    <3>5. Covers(hs[es[n].h].acc, hi[n + 1].acc[hs[es[n].h].addr])
      BY <3>1, <3>4, Zenon DEF HandlesFollow, p
    <3>6. gs[es[n].h] = hs[es[n].h]
      BY <3>1, <3>2, Zenon DEF p
    <3> QED BY <1>2, <3>1, <3>5, <3>6, Zenon
  <2> QED BY <2>1, <2>2, Zenon
<1> QED BY <1>3, Zenon DEF HandlesFollow, p, fs, gi
\* A new account object leaves the entries of the others alone.
LEMMA RecordLoad ==
  ASSUME NEW es, NEW hs, NEW hi, NEW main, Recorded(es, hs, hi, main), NEW hd \in Handles
  PROVE  Recorded(es, Append(hs, hd), hi, main)
<1> DEFINE gs == Append(hs, hd)
<1>1. /\ es \in Seq(Entries) /\ hs \in Seq(Handles) /\ Len(es) \in Nat
      /\ EntriesOfHandles(es, hs)
  BY DEF Recorded
<1>2. gs \in Seq(Handles) /\ Len(gs) = Len(hs) + 1 /\ \A g \in 1..Len(hs) : gs[g] = hs[g]
  BY <1>1
<1> HIDE DEF gs
<1>3. \A n \in 1..Len(es) : ByHandle(es[n]) => gs[es[n].h] = hs[es[n].h]
  BY <1>1, <1>2, Zenon DEF EntriesOfHandles
<1>4. EntriesOfHandles(es, gs)
  BY <1>1, <1>2 DEF EntriesOfHandles
<1>5. Journal(es, gs, hi, Len(es))
  BY <1>1, <1>3, JournalSameAddrs, Zenon DEF Recorded
<1>6. HandlesFollow(es, gs, hi, Len(es))
  BY <1>3, Zenon DEF Recorded, HandlesFollow, LastUse
<1> QED BY <1>2, <1>4, <1>5, <1>6, Zenon DEF Recorded, gs

LEMMA RecordAccount ==
  ASSUME NEW es, NEW hs, NEW hi, NEW main, Recorded(es, hs, hi, main),
         NEW a \in Addresses, main.acc[a] = Absent,
         NEW hd, hd.addr = a, hd.acc = NewAccount,
         NEW e, e = [kind |-> "account", addr |-> a]
  PROVE  Recorded(Append(es, e), hs, Append(hi, SaveAccount(main, hd)), SaveAccount(main, hd))
<1> DEFINE m == SaveAccount(main, hd)
           y == hi[Len(es) + 1]
<1>1. /\ es \in Seq(Entries) /\ hs \in Seq(Handles) /\ hi \in Seq(MainTries)
      /\ Len(hi) = Len(es) + 1 /\ Len(es) \in Nat /\ main \in MainTries /\ y \in MainTries
      /\ MainFollows(main, y)
  BY DEF Recorded
<1>2. e \in Entries /\ e.kind = "account" /\ e.addr = a /\ ~ByHandle(e)
  BY Zenon DEF Entries, ByHandle
<1>3. /\ m \in MainTries /\ m.codes = main.codes /\ m.acc[a] = NewAccount
      /\ \A b \in Addresses : b # a => m.acc[b] = main.acc[b]
  BY <1>1, SaveAccountFields, Values0
<1> HIDE DEF m, y
<1>4. Link(e, hs, y, m)
  <2>1. y.acc[a] = Absent
    BY <1>1, CoversFields, MainTrieFields, Zenon DEF MainFollows
  <2>2. \A b \in Addresses : b # a => Covers(m.acc[b], y.acc[b])
    BY <1>1, <1>3, Zenon DEF MainFollows
  <2>3. \A b \in Addresses : ~Touches(e, hs, b) => b # a
    BY <1>2, Zenon DEF Touches
  <2> QED BY <1>1, <1>2, <1>3, <2>1, <2>2, <2>3, Zenon DEF Link, MainFollows
<1>5. CodesIn(m)
  BY <1>3, RecordedCodes DEF CodesIn, NewAccount
<1>6. Journal(Append(es, e), hs, Append(hi, m), Len(es) + 1)
  BY <1>1, <1>2, <1>3, <1>4, <1>5, JournalAppend, Zenon DEF Recorded, y
<1>7. HandlesFollow(Append(es, e), hs, Append(hi, m), Len(es) + 1)
  BY <1>1, <1>2, <1>3, HandlesAppend, Zenon DEF Recorded
<1>8. /\ Append(es, e) \in Seq(Entries) /\ Len(Append(es, e)) = Len(es) + 1
      /\ Append(hi, m) \in Seq(MainTries) /\ Len(Append(hi, m)) = Len(hi) + 1
      /\ Append(hi, m)[Len(hi) + 1] = m
  BY <1>1, <1>2, <1>3
<1>9. EntriesOfHandles(Append(es, e), hs)
  BY <1>1, <1>2 DEF Recorded, EntriesOfHandles
<1>10. MainFollows(m, m)
  BY CoversRefl, Zenon DEF MainFollows
<1> QED BY <1>1, <1>3, <1>6, <1>7, <1>8, <1>9, <1>10, Zenon DEF Recorded, m

LEMMA RecordCode ==
  ASSUME NEW es, NEW hs, NEW hi, NEW main, Recorded(es, hs, hi, main),
         NEW c \in Codes, c \notin main.codes,
         NEW m, m = [main EXCEPT !.codes = @ \cup {c}],
         NEW e, e = [kind |-> "code", code |-> c]
  PROVE  Recorded(Append(es, e), hs, Append(hi, m), m)
<1> DEFINE y == hi[Len(es) + 1]
<1>1. /\ es \in Seq(Entries) /\ hs \in Seq(Handles) /\ hi \in Seq(MainTries)
      /\ Len(hi) = Len(es) + 1 /\ Len(es) \in Nat /\ main \in MainTries /\ y \in MainTries
      /\ MainFollows(main, y)
  BY DEF Recorded
<1>2. e \in Entries /\ e.kind = "code" /\ e.code = c /\ ~ByHandle(e)
  BY Zenon DEF Entries, ByHandle
<1>3. m \in MainTries /\ m.codes = main.codes \cup {c} /\ m.acc = main.acc
  BY <1>1, Zenon DEF MainTries
<1> HIDE DEF y
<1>4. Link(e, hs, y, m)
  BY <1>1, <1>2, <1>3, Zenon DEF Link, MainFollows
<1>5. CodesIn(m)
  BY <1>3, RecordedCodes, Zenon DEF CodesIn
<1>6. Journal(Append(es, e), hs, Append(hi, m), Len(es) + 1)
  BY <1>1, <1>2, <1>3, <1>4, <1>5, JournalAppend, Zenon DEF Recorded, y
<1>7. HandlesFollow(Append(es, e), hs, Append(hi, m), Len(es) + 1)
  BY <1>1, <1>2, <1>3, HandlesAppend, Zenon DEF Recorded
<1>8. /\ Append(es, e) \in Seq(Entries) /\ Len(Append(es, e)) = Len(es) + 1
      /\ Append(hi, m) \in Seq(MainTries) /\ Len(Append(hi, m)) = Len(hi) + 1
      /\ Append(hi, m)[Len(hi) + 1] = m
  BY <1>1, <1>2, <1>3
<1>9. EntriesOfHandles(Append(es, e), hs)
  BY <1>1, <1>2 DEF Recorded, EntriesOfHandles
<1>10. MainFollows(m, m)
  BY CoversRefl, Zenon DEF MainFollows
<1> QED BY <1>1, <1>3, <1>6, <1>7, <1>8, <1>9, <1>10, Zenon DEF Recorded

\* A change through the newest object of an account, which is as the account
\* is in the main trie.
Change(hs, gs, main, e) ==
  LET x0 == hs[e.h].acc
      x1 == gs[e.h].acc
  IN /\ gs \in Seq(Handles) /\ Len(gs) = Len(hs) /\ e.h \in 1..Len(hs)
     /\ \A g \in 1..Len(hs) : g # e.h => gs[g] = hs[g]
     /\ gs[e.h].addr = hs[e.h].addr
     /\ main.acc[hs[e.h].addr] = x0
     /\ \A g \in 1..Len(hs) : hs[g].addr = hs[e.h].addr => g <= e.h
     /\ e \in Entries /\ ByHandle(e)
     /\ Covers(Undone(e, x1), x0)
     /\ x0.root # NilRoot => x1.root # NilRoot
     /\ e.kind = "data" => x1.root # NilRoot
     /\ x1.codeHash \in main.codes \cup {NoCode}

LEMMA RecordChange ==
  ASSUME NEW es, NEW hs, NEW hi, NEW main, Recorded(es, hs, hi, main),
         NEW e, NEW gs, Change(hs, gs, main, e)
  PROVE  LET m == SaveAccount(main, gs[e.h])
         IN  Recorded(Append(es, e), gs, Append(hi, m), m)
<1> DEFINE m == SaveAccount(main, gs[e.h])
           y == hi[Len(es) + 1]
           a == hs[e.h].addr
           x0 == hs[e.h].acc
           x1 == gs[e.h].acc
<1>1. /\ es \in Seq(Entries) /\ hs \in Seq(Handles) /\ hi \in Seq(MainTries)
      /\ Len(hi) = Len(es) + 1 /\ Len(es) \in Nat /\ main \in MainTries /\ y \in MainTries
      /\ MainFollows(main, y) /\ EntriesOfHandles(es, hs)
  BY DEF Recorded
<1>2. /\ e \in Entries /\ ByHandle(e) /\ e.h \in 1..Len(hs)
      /\ gs \in Seq(Handles) /\ Len(gs) = Len(hs) /\ gs[e.h].addr = a
      /\ \A g \in 1..Len(hs) : g # e.h => gs[g] = hs[g]
      /\ \A g \in 1..Len(hs) : hs[g].addr = a => g <= e.h
  BY Zenon DEF Change
<1>3. a \in Addresses /\ x0 \in Accounts /\ x1 \in Accounts
  BY <1>1, <1>2, HandleFields
<1>4. /\ m \in MainTries /\ m.codes = main.codes /\ m.acc[a] = x1
      /\ \A b \in Addresses : b # a => m.acc[b] = main.acc[b]
  <2> DEFINE hd == gs[e.h]
  <2>1. hd.addr = a /\ hd.addr \in Addresses /\ hd.acc \in Accounts /\ main \in MainTries
    BY <1>1, <1>2, <1>3, Zenon
  <2> HIDE DEF hd, a
  <2>2. /\ SaveAccount(main, hd) \in MainTries
        /\ SaveAccount(main, hd).codes = main.codes
        /\ SaveAccount(main, hd).acc[hd.addr] = hd.acc
        /\ \A b \in Addresses : b # hd.addr => SaveAccount(main, hd).acc[b] = main.acc[b]
    BY <2>1, SaveAccountFields, Zenon
  <2> QED BY <2>1, <2>2, Zenon DEF hd
<1>5. /\ main.acc[a] = x0 /\ Covers(Undone(e, x1), x0)
      /\ x0.root # NilRoot => x1.root # NilRoot
      /\ e.kind = "data" => x1.root # NilRoot
      /\ x1.codeHash \in main.codes \cup {NoCode}
  BY Zenon DEF Change
<1> HIDE DEF m, y, a, x0, x1
<1>6. \A g \in 1..Len(hs) : gs[g].addr = hs[g].addr
  BY <1>2, Zenon DEF a
<1>7. Link(e, gs, y, m)
  <2>1. Covers(x0, y.acc[a]) /\ y.acc[a] \in MaybeAccounts
    BY <1>1, <1>3, <1>5, MainTrieFields, Zenon DEF MainFollows
  <2>2. y.acc[a] # Absent /\ x1 # Absent
    BY <1>3, <2>1, CoversFields, AccountFields
  <2>3. Covers(Undone(e, x1), y.acc[a])
    BY <1>5, <2>1, CoversTrans, Zenon
  <2>4. y.acc[a].root # NilRoot => x1.root # NilRoot
    BY <1>5, <2>1, <2>2, CoversFields, Zenon
  <2>5. LinkAccount(e, y.acc[a], m.acc[a])
    BY <1>4, <1>5, <2>2, <2>3, <2>4, Zenon DEF LinkAccount
  <2>6. \A b \in Addresses : ~Touches(e, gs, b) => b # a
    BY <1>2, Zenon DEF Touches
  <2>7. \A b \in Addresses : b # a => Covers(m.acc[b], y.acc[b])
    BY <1>1, <1>4, Zenon DEF MainFollows
  <2>8. e.kind # "code" /\ e.kind # "account"
    BY <1>2, Zenon DEF ByHandle
  <2> QED BY <1>1, <1>2, <1>4, <2>5, <2>6, <2>7, <2>8, Zenon DEF Link, MainFollows
<1>8. CodesIn(m)
  <2>1. CodesIn(main)
    BY RecordedCodes, Zenon
  <2> QED BY <1>3, <1>4, <1>5, <2>1, Zenon DEF CodesIn
<1>9. Journal(es, gs, hi, Len(es))
  BY <1>1, <1>6, JournalSameAddrs, Zenon DEF Recorded, EntriesOfHandles
<1>10. \A n \in 1..Len(es) : ByHandle(es[n]) /\ gs[es[n].h].addr = gs[e.h].addr => es[n].h <= e.h
  BY <1>1, <1>2, <1>6, Zenon DEF EntriesOfHandles
<1>11. Journal(Append(es, e), gs, Append(hi, m), Len(es) + 1)
  BY <1>1, <1>2, <1>4, <1>7, <1>8, <1>9, <1>10, JournalAppend, Zenon DEF y
<1>12. Covers(gs[e.h].acc, m.acc[gs[e.h].addr])
  BY <1>2, <1>4, CoversRefl, Zenon DEF x1
<1>13. \A n \in 1..Len(es) : ByHandle(es[n]) /\ es[n].h # e.h => gs[es[n].h] = hs[es[n].h]
  BY <1>1, <1>2, Zenon DEF EntriesOfHandles
<1>14. HandlesFollow(Append(es, e), gs, Append(hi, m), Len(es) + 1)
  BY <1>1, <1>2, <1>4, <1>12, <1>13, HandlesAppend, Zenon DEF Recorded
<1>15. /\ Append(es, e) \in Seq(Entries) /\ Len(Append(es, e)) = Len(es) + 1
       /\ Append(hi, m) \in Seq(MainTries) /\ Len(Append(hi, m)) = Len(hi) + 1
       /\ Append(hi, m)[Len(hi) + 1] = m
  BY <1>1, <1>2, <1>4
<1>16. EntriesOfHandles(Append(es, e), gs)
  BY <1>1, <1>2 DEF EntriesOfHandles
<1>17. MainFollows(m, m)
  BY CoversRefl, Zenon DEF MainFollows
<1> QED BY <1>1, <1>2, <1>4, <1>11, <1>14, <1>15, <1>16, <1>17, ZenonT(30) DEF Recorded, m
-----------------------------------------------------------------------------
(* The steps of block processing, but for reverts                          *)

LEMMA NotRevertingType ==
  /\ NotReverting \in [target : Int, pos : Int] /\ NotReverting.pos = -1
BY DEF NotReverting

\* The invariant when nothing is reverted.
Resting ==
  /\ reverting = NotReverting
  /\ Recorded(entries, handles, hist, mainTrie)
  /\ dataTries \in [Addresses -> 0..Len(tries)]
  /\ tries \in Seq(DataMaps) /\ Len(tries) <= MaxTries
  /\ Len(handles) <= MaxHandles /\ live \subseteq 1..Len(handles)
  /\ Len(entries) <= MaxJournal
  /\ loading \in [Goroutines -> Loadings \cup {NotLoading}]
  /\ db \in [main : SUBSET MainTries, data : SUBSET DataMaps]
  /\ HolderFollows /\ HolderApart
  /\ DataEntries(entries, handles, Len(entries))
  /\ LiveIsNewest /\ LoadingFollows
  /\ CommittedIsComplete

LEMMA RestingOut ==
  ASSUME AccInv, reverting = NotReverting
  PROVE  Resting
BY Zenon DEF AccInv, TypeOK, Resting, Pos, Recorded

LEMMA RestingIn ==
  ASSUME Resting
  PROVE  AccInv
BY NotRevertingType, Zenon DEF AccInv, TypeOK, Resting, Pos, Recorded

LEMMA RestingTypes ==
  ASSUME Resting
  PROVE  /\ entries \in Seq(Entries) /\ handles \in Seq(Handles) /\ hist \in Seq(MainTries)
         /\ mainTrie \in MainTries /\ Len(entries) \in Nat /\ Len(handles) \in Nat
         /\ EntriesOfHandles(entries, handles) /\ Len(tries) \in Nat
         /\ \A a \in Addresses : mainTrie.acc[a] \in MaybeAccounts
BY MainTrieFields DEF Resting, Recorded

\* The processor has a new account object.
LEMMA NewHandle ==
  ASSUME Resting, NEW hd \in Handles,
         handles' = Append(handles, hd), live' = Newest(handles', hd.addr),
         \A b \in Addresses : b # hd.addr => dataTries'[b] = dataTries[b],
         IF hd.tr = 0 THEN hd.acc.root = NilRoot ELSE hd.tr = dataTries'[hd.addr]
  PROVE  /\ LiveIsNewest' /\ live' \subseteq 1..Len(handles')
         /\ Len(handles') = Len(handles) + 1
         /\ \A g \in 1..Len(handles) : handles'[g] = handles[g]
<1>1. handles \in Seq(Handles) /\ Len(handles) \in Nat /\ live \subseteq 1..Len(handles) /\ LiveIsNewest
  BY RestingTypes, Zenon DEF Resting
<1>2. /\ Len(handles') = Len(handles) + 1 /\ handles'[Len(handles) + 1] = hd
      /\ \A g \in 1..Len(handles) : handles'[g] = handles[g] /\ handles[g] \in Handles
  BY <1>1
<1>3. live' = {h \in live : handles'[h].addr # hd.addr} \cup {Len(handles) + 1}
  BY <1>2, Zenon DEF Newest
<1>4. ASSUME NEW h \in live'
      PROVE  /\ \A g \in 1..Len(handles') : handles'[g].addr = handles'[h].addr => g <= h
             /\ IF handles'[h].tr = 0 THEN handles'[h].acc.root = NilRoot
                ELSE handles'[h].tr = dataTries'[handles'[h].addr]
  <2>1. CASE h = Len(handles) + 1
    BY <1>1, <1>2, <2>1
  <2>2. CASE h # Len(handles) + 1
    <3>1. h \in live /\ h \in 1..Len(handles) /\ handles'[h] = handles[h] /\ handles[h].addr # hd.addr
          /\ handles[h].addr \in Addresses
      BY <1>1, <1>2, <1>3, <2>2, HandleFields, Zenon
    <3>2. \A g \in 1..Len(handles') : handles'[g].addr = handles[h].addr => g <= h
      BY <1>1, <1>2, <3>1, SMTT(20) DEF LiveIsNewest
    <3>3. IF handles[h].tr = 0 THEN handles[h].acc.root = NilRoot
          ELSE handles[h].tr = dataTries[handles[h].addr]
      BY <1>1, <3>1, Zenon DEF LiveIsNewest
    <3>4. dataTries'[handles[h].addr] = dataTries[handles[h].addr]
      BY <3>1, Zenon
    <3> QED BY <3>1, <3>2, <3>3, <3>4, Zenon
  <2> QED BY <2>1, <2>2, Zenon
<1>5. live' \subseteq 1..Len(handles')
  <2>1. \A h \in live' : h \in 1..Len(handles) \/ h = Len(handles) + 1
    BY <1>1, <1>3, Zenon
  <2>2. /\ Len(handles) + 1 \in 1..(Len(handles) + 1)
        /\ \A h \in 1..Len(handles) : h \in 1..(Len(handles) + 1)
    BY <1>1
  <2> QED BY <1>2, <2>1, <2>2, Zenon
<1> QED BY <1>2, <1>4, <1>5, Zenon DEF LiveIsNewest

\* The entries of data are about the account objects of before.
LEMMA SameDataEntries ==
  ASSUME Resting, NEW n \in Nat, n <= Len(entries'),
         n = Len(entries) \/ n = Len(entries) + 1,
         Len(entries') = n,
         \A k \in 1..Len(entries) : entries'[k] = entries[k],
         n = Len(entries) + 1 => entries'[n].kind # "data",
         \A g \in 1..Len(handles) : handles'[g].addr = handles[g].addr /\ handles'[g].tr = handles[g].tr,
         \A k \in 1..Len(entries) : entries[k].kind = "data" =>
            dataTries'[handles[entries[k].h].addr] = dataTries[handles[entries[k].h].addr]
  PROVE  DataEntries(entries, handles, Len(entries))'
<1>1. /\ entries \in Seq(Entries) /\ Len(entries) \in Nat /\ Len(handles) \in Nat
      /\ EntriesOfHandles(entries, handles) /\ DataEntries(entries, handles, Len(entries))
  BY RestingTypes, Zenon DEF Resting
<1>2. ASSUME NEW k \in 1..Len(entries'), entries'[k].kind = "data"
      PROVE  /\ handles'[entries'[k].h].tr # 0
             /\ handles'[entries'[k].h].tr = dataTries'[handles'[entries'[k].h].addr]
  <2>1. k \in 1..Len(entries) /\ entries'[k] = entries[k]
    BY <1>1, <1>2
  <2>2. entries[k].h \in 1..Len(handles)
    BY <1>1, <1>2, <2>1, Zenon DEF EntriesOfHandles, ByHandle
  <2> QED BY <1>1, <1>2, <2>1, <2>2, SMTT(20) DEF DataEntries
<1> QED BY <1>2, Zenon DEF DataEntries
LEMMA CreateAccountStep ==
  ASSUME Resting, NEW a \in Addresses, CreateAccount(a)
  PROVE  Resting'
<1> DEFINE hd == Handle(a, NewAccount, 0)
           e == [kind |-> "account", addr |-> a]
<1>1. /\ entries \in Seq(Entries) /\ handles \in Seq(Handles) /\ hist \in Seq(MainTries)
      /\ mainTrie \in MainTries /\ Len(entries) \in Nat /\ Len(handles) \in Nat
      /\ \A b \in Addresses : mainTrie.acc[b] \in MaybeAccounts
  BY RestingTypes, Zenon
<1>2. /\ mainTrie.acc[a] = Absent /\ Len(handles) < MaxHandles
      /\ Len(entries) + 1 <= MaxJournal /\ entries' = Append(entries, e)
      /\ handles' = Append(handles, hd) /\ live' = Newest(handles', a)
      /\ mainTrie' = SaveAccount(mainTrie, hd) /\ hist' = Append(hist, SaveAccount(mainTrie, hd))
      /\ dataTries' = dataTries /\ tries' = tries /\ reverting' = NotReverting
      /\ loading' = loading /\ db' = db /\ loading[Processor] = NotLoading
  BY <1>1 DEF CreateAccount, Journalize, Idle
<1>3. hd \in Handles /\ hd.addr = a /\ hd.acc = NewAccount /\ hd.tr = 0 /\ NewAccount.root = NilRoot
      /\ e.kind = "account"
  BY Values0, DataAssumption DEF Handle, Handles, NewAccount
<1>4. e = [kind |-> "account", addr |-> a]
  BY Zenon
<1> HIDE DEF hd, e
<1>5. Recorded(entries, handles, hist, mainTrie)
  BY Zenon DEF Resting
<1>6. Recorded(entries', handles, hist', mainTrie')
  <2>1. Recorded(Append(entries, e), handles, Append(hist, SaveAccount(mainTrie, hd)), SaveAccount(mainTrie, hd))
    BY <1>2, <1>3, <1>4, <1>5, RecordAccount, Zenon
  <2> QED BY <1>2, <2>1, Zenon
<1>7. Recorded(entries', handles', hist', mainTrie')
  <2>1. Recorded(entries', Append(handles, hd), hist', mainTrie')
    BY <1>3, <1>6, RecordLoad, Zenon
  <2> QED BY <1>2, <2>1, Zenon
<1>8. /\ LiveIsNewest' /\ live' \subseteq 1..Len(handles') /\ Len(handles') = Len(handles) + 1
      /\ \A g \in 1..Len(handles) : handles'[g] = handles[g]
  BY <1>2, <1>3, NewHandle, Zenon
<1>9. /\ Len(entries') = Len(entries) + 1 /\ entries'[Len(entries) + 1] = e
      /\ \A k \in 1..Len(entries) : entries'[k] = entries[k]
  BY <1>1, <1>2
<1>10. DataEntries(entries, handles, Len(entries))'
  <2>1. PICK n \in Nat : n = Len(entries) + 1
    BY <1>1
  <2>2. n <= Len(entries') /\ Len(entries') = n /\ entries'[n].kind # "data"
    BY <1>3, <1>9, <2>1
  <2> QED BY <1>2, <1>8, <1>9, <2>1, <2>2, SameDataEntries, Zenon
<1>11. HolderFollows'
  <2>1. /\ mainTrie'.acc[a] = NewAccount
        /\ \A b \in Addresses : b # a => mainTrie'.acc[b] = mainTrie.acc[b]
    BY <1>1, <1>2, <1>3, SaveAccountFields, Values0, Zenon
  <2>2. \A b \in Addresses : RootOf(mainTrie'.acc[b]) = RootOf(mainTrie.acc[b])
    BY <1>2, <1>3, <2>1, Zenon DEF RootOf
  <2> QED BY <1>2, <2>2, Zenon DEF HolderFollows, Resting
<1>12. HolderApart' /\ LoadingFollows' /\ CommittedIsComplete'
  BY <1>2, Zenon DEF Resting, HolderApart, LoadingFollows, CommittedIsComplete
<1>13. Len(handles') <= MaxHandles /\ Len(entries') <= MaxJournal
  BY <1>1, <1>2, <1>8, <1>9, DataAssumption
<1> QED BY <1>2, <1>7, <1>8, <1>10, <1>11, <1>12, <1>13, Zenon DEF Resting

LEMMA LoadAccountStep ==
  ASSUME Resting, NEW a \in Addresses, LoadAccount(Processor, a)
  PROVE  Resting'
<1> DEFINE hd == Handle(a, mainTrie.acc[a], IF mainTrie.acc[a].root = NilRoot THEN 0 ELSE dataTries[a])
<1>1. /\ entries \in Seq(Entries) /\ handles \in Seq(Handles) /\ Len(handles) \in Nat
      /\ Len(entries) \in Nat /\ mainTrie.acc[a] \in MaybeAccounts /\ Len(tries) \in Nat
      /\ dataTries[a] \in 0..Len(tries) /\ Len(tries) <= MaxTries
  BY RestingTypes, Zenon DEF Resting
<1>2. /\ mainTrie.acc[a] # Absent /\ Len(handles) < MaxHandles
      /\ mainTrie.acc[a].root = NilRoot \/ dataTries[a] # 0
      /\ handles' = Append(handles, hd) /\ live' = Newest(handles', a)
      /\ mainTrie' = mainTrie /\ dataTries' = dataTries /\ tries' = tries /\ entries' = entries
      /\ reverting' = NotReverting /\ loading' = loading /\ db' = db /\ hist' = hist
  BY Zenon DEF LoadAccount, Loaded, Resting
<1>3. mainTrie.acc[a] \in Accounts
  BY <1>1, <1>2, Zenon DEF MaybeAccounts
<1>4. hd \in Handles /\ hd.addr = a
      /\ IF hd.tr = 0 THEN hd.acc.root = NilRoot ELSE hd.tr = dataTries'[hd.addr]
  <2>1. dataTries[a] \in 0..MaxTries /\ 0 \in 0..MaxTries
    BY <1>1, DataAssumption
  <2>2. hd.addr = a /\ hd.acc = mainTrie.acc[a]
        /\ hd.tr = IF mainTrie.acc[a].root = NilRoot THEN 0 ELSE dataTries[a]
    BY Zenon DEF Handle
  <2>3. hd \in Handles
    BY <1>3, <2>1, Zenon DEF Handle, Handles
  <2> QED BY <1>2, <2>2, <2>3, Zenon
<1> HIDE DEF hd
<1>5. Recorded(entries, Append(handles, hd), hist, mainTrie)
  BY <1>4, RecordLoad, Zenon DEF Resting
<1>6. /\ LiveIsNewest' /\ live' \subseteq 1..Len(handles') /\ Len(handles') = Len(handles) + 1
      /\ \A g \in 1..Len(handles) : handles'[g] = handles[g]
  BY <1>2, <1>4, NewHandle, Zenon
<1>7. DataEntries(entries, handles, Len(entries))'
  <2>1. PICK n \in Nat : n = Len(entries)
    BY <1>1, Zenon
  <2>2. n <= Len(entries') /\ Len(entries') = n /\ ~(n = Len(entries) + 1)
    BY <1>2, <2>1
  <2> QED BY <1>2, <1>6, <2>1, <2>2, SameDataEntries, Zenon
<1>8. HolderFollows' /\ HolderApart' /\ LoadingFollows' /\ CommittedIsComplete'
  BY <1>2, Zenon DEF Resting, HolderFollows, HolderApart, LoadingFollows, CommittedIsComplete
<1>9. Len(handles') <= MaxHandles
  BY <1>1, <1>2, <1>6, DataAssumption
<1> QED BY <1>2, <1>5, <1>6, <1>7, <1>8, <1>9, Zenon DEF Resting

LEMMA StartLoadingStep ==
  ASSUME Resting, NEW a \in Addresses, StartLoading(Processor, a)
  PROVE  Resting'
<1>1. Processor \in Goroutines /\ mainTrie.acc[a] \in MaybeAccounts
  BY RestingTypes, Zenon DEF Goroutines
<1>2. /\ mainTrie.acc[a] # Absent /\ mainTrie.acc[a].root # NilRoot /\ dataTries[a] = 0
      /\ loading' = [loading EXCEPT ![Processor] = [addr |-> a, acc |-> mainTrie.acc[a]]]
      /\ mainTrie' = mainTrie /\ dataTries' = dataTries /\ tries' = tries /\ handles' = handles
      /\ live' = live /\ entries' = entries /\ reverting' = reverting /\ db' = db /\ hist' = hist
  BY Zenon DEF StartLoading
<1>3. [addr |-> a, acc |-> mainTrie.acc[a]] \in Loadings
  BY <1>1, <1>2, Zenon DEF Loadings, MaybeAccounts
<1>4. loading' \in [Goroutines -> Loadings \cup {NotLoading}]
      /\ loading'[Processor] = [addr |-> a, acc |-> mainTrie.acc[a]]
  BY <1>1, <1>2, <1>3, Zenon DEF Resting
<1>5. LoadingFollows'
  BY <1>2, <1>4 DEF LoadingFollows, Resting
<1>6. Recorded(entries', handles', hist', mainTrie')
  BY <1>2, Zenon DEF Resting
<1>7. DataEntries(entries, handles, Len(entries))' /\ LiveIsNewest'
  BY <1>2, Zenon DEF Resting, DataEntries, LiveIsNewest
<1>8. HolderFollows' /\ HolderApart' /\ CommittedIsComplete'
  BY <1>2, Zenon DEF Resting, HolderFollows, HolderApart, CommittedIsComplete
<1> QED BY <1>2, <1>4, <1>5, <1>6, <1>7, <1>8, Zenon DEF Resting
LEMMA FinishLoadingStep ==
  ASSUME Resting, FinishLoading(Processor)
  PROVE  Resting'
<1> DEFINE l == loading[Processor]
           hd == Handle(l.addr, l.acc, Len(tries) + 1)
<1>1. /\ entries \in Seq(Entries) /\ handles \in Seq(Handles) /\ Len(handles) \in Nat
      /\ Len(entries) \in Nat /\ Len(tries) \in Nat /\ tries \in Seq(DataMaps)
      /\ Processor \in Goroutines /\ EntriesOfHandles(entries, handles)
      /\ dataTries \in [Addresses -> 0..Len(tries)]
  BY RestingTypes, Zenon DEF Resting, Goroutines
<1>2. /\ l # NotLoading /\ Len(tries) < MaxTries /\ tries' = Append(tries, l.acc.root)
      /\ dataTries' = [dataTries EXCEPT ![l.addr] = Len(tries) + 1]
      /\ Len(handles) < MaxHandles
      /\ handles' = Append(handles, hd) /\ live' = Newest(handles', l.addr)
      /\ loading' = [loading EXCEPT ![Processor] = NotLoading]
      /\ mainTrie' = mainTrie /\ entries' = entries
      /\ reverting' = NotReverting /\ db' = db /\ hist' = hist
  BY Zenon DEF FinishLoading, Loaded, Resting
<1>3. l \in Loadings
  BY <1>1, <1>2, Zenon DEF Resting
<1>4. l.addr \in Addresses /\ l.acc \in Accounts
  BY <1>3, Zenon DEF Loadings
<1>5. l.acc = mainTrie.acc[l.addr] /\ l.acc.root # NilRoot /\ dataTries[l.addr] = 0
  BY <1>2, Zenon DEF Resting, LoadingFollows
<1>6. l.acc.root \in DataMaps /\ RootOf(mainTrie.acc[l.addr]) = l.acc.root
  BY <1>4, <1>5, AccountFields, Zenon DEF RootOf
<1>7. hd \in Handles /\ hd.addr = l.addr /\ hd.acc = l.acc /\ hd.tr = Len(tries) + 1
  <2>1. Len(tries) + 1 \in 0..MaxTries
    BY <1>1, <1>2, DataAssumption
  <2> QED BY <1>4, <2>1, Zenon DEF Handle, Handles
<1>8. /\ tries' \in Seq(DataMaps) /\ Len(tries') = Len(tries) + 1 /\ Len(tries') <= MaxTries
      /\ tries'[Len(tries) + 1] = l.acc.root /\ \A t \in 1..Len(tries) : tries'[t] = tries[t]
  BY <1>1, <1>2, <1>6, DataAssumption
<1>9. /\ dataTries'[l.addr] = Len(tries) + 1
      /\ \A b \in Addresses : b # l.addr => dataTries'[b] = dataTries[b]
      /\ \A b \in Addresses : dataTries[b] \in 0..Len(tries)
  BY <1>1, <1>2, <1>4, Zenon
<1>10. dataTries' \in [Addresses -> 0..Len(tries')]
  BY <1>1, <1>2, <1>4, <1>8
<1>11. loading' \in [Goroutines -> Loadings \cup {NotLoading}] /\ loading'[Processor] = NotLoading
  BY <1>1, <1>2, Zenon DEF Resting
<1> HIDE DEF l, hd
<1>12. Recorded(entries, Append(handles, hd), hist, mainTrie)
  BY <1>7, RecordLoad, Zenon DEF Resting
<1>13. /\ LiveIsNewest' /\ live' \subseteq 1..Len(handles') /\ Len(handles') = Len(handles) + 1
       /\ \A g \in 1..Len(handles) : handles'[g] = handles[g]
  <2>1. hd.tr # 0 /\ hd.tr = dataTries'[hd.addr]
    BY <1>1, <1>7, <1>9
  <2> QED BY <1>2, <1>7, <1>9, <2>1, NewHandle, Zenon
<1>14. \A k \in 1..Len(entries) : entries[k].kind = "data" =>
          dataTries'[handles[entries[k].h].addr] = dataTries[handles[entries[k].h].addr]
  <2> SUFFICES ASSUME NEW k \in 1..Len(entries), entries[k].kind = "data"
               PROVE  dataTries'[handles[entries[k].h].addr] = dataTries[handles[entries[k].h].addr]
    BY Zenon
  <2>1. dataTries[handles[entries[k].h].addr] # 0
    BY Zenon DEF Resting, DataEntries
  <2>2. handles[entries[k].h].addr \in Addresses
    BY <1>1, HandleFields DEF EntriesOfHandles, ByHandle
  <2> QED BY <1>5, <1>9, <2>1, <2>2, Zenon
<1>15. DataEntries(entries, handles, Len(entries))'
  <2>1. PICK n \in Nat : n = Len(entries)
    BY <1>1, Zenon
  <2>2. n <= Len(entries') /\ Len(entries') = n /\ ~(n = Len(entries) + 1)
    BY <1>2, <2>1
  <2> QED BY <1>2, <1>13, <1>14, <2>1, <2>2, SameDataEntries, Zenon
<1>16. HolderFollows'
  <2>1. ASSUME NEW b \in Addresses
        PROVE  IF dataTries'[b] = 0 THEN RootOf(mainTrie.acc[b]) \in db.data \cup {EmptyMap}
               ELSE tries'[dataTries'[b]] = RootOf(mainTrie.acc[b])
    <3>1. CASE b = l.addr
      BY <1>1, <1>6, <1>8, <1>9, <3>1
    <3>2. CASE b # l.addr
      <4>1. IF dataTries[b] = 0 THEN RootOf(mainTrie.acc[b]) \in db.data \cup {EmptyMap}
            ELSE tries[dataTries[b]] = RootOf(mainTrie.acc[b])
        BY Zenon DEF Resting, HolderFollows
      <4>2. dataTries[b] # 0 => dataTries[b] \in 1..Len(tries)
        BY <1>1, <1>9
      <4> QED BY <1>8, <1>9, <3>2, <4>1, <4>2, Zenon
    <3> QED BY <3>1, <3>2, Zenon
  <2> QED BY <1>2, <2>1, Zenon DEF HolderFollows
<1>17. HolderApart'
  <2>1. \A b \in Addresses : dataTries[b] # Len(tries) + 1
    BY <1>1, <1>9
  <2> QED BY <1>9, <2>1, Zenon DEF HolderApart, Resting
<1>18. LoadingFollows' /\ CommittedIsComplete'
  BY <1>2, <1>11, Zenon DEF Resting, LoadingFollows, CommittedIsComplete
<1>19. Len(handles') <= MaxHandles
  BY <1>1, <1>2, <1>13, DataAssumption
<1> QED BY <1>2, <1>8, <1>10, <1>11, <1>12, <1>13, <1>15, <1>16, <1>17, <1>18, <1>19, Zenon DEF Resting

\* A field of an account changes, and neither its data nor the tries.
PlainChange(h) ==
  /\ Len(handles') = Len(handles)
  /\ \A g \in 1..Len(handles) : /\ handles'[g].addr = handles[g].addr
                                /\ handles'[g].tr = handles[g].tr
                                /\ handles'[g].acc.root = handles[g].acc.root
  /\ mainTrie'.acc[handles[h].addr].root = mainTrie.acc[handles[h].addr].root
  /\ mainTrie.acc[handles[h].addr] \in Accounts /\ mainTrie'.acc[handles[h].addr] \in Accounts
  /\ \A b \in Addresses : b # handles[h].addr => mainTrie'.acc[b] = mainTrie.acc[b]
  /\ Idle
  /\ UNCHANGED <<dataTries, tries, live, reverting, loading, db>>

LEMMA PlainChangeStep ==
  ASSUME Resting, NEW h \in 1..Len(handles), PlainChange(h),
         Recorded(entries', handles', hist', mainTrie'), Len(entries') <= MaxJournal,
         \A k \in 1..Len(entries) : entries'[k] = entries[k],
         \A k \in 1..Len(entries') : k \in 1..Len(entries) \/ entries'[k].kind # "data"
  PROVE  Resting'
<1>1. /\ entries \in Seq(Entries) /\ handles \in Seq(Handles) /\ Len(entries) \in Nat
      /\ EntriesOfHandles(entries, handles)
  BY RestingTypes, Zenon
<1>2. /\ dataTries' = dataTries /\ tries' = tries /\ live' = live /\ reverting' = reverting
      /\ loading' = loading /\ db' = db /\ loading[Processor] = NotLoading
  BY Zenon DEF PlainChange, Idle
<1>3. Len(handles') = Len(handles)
      /\ \A g \in 1..Len(handles) : /\ handles'[g].addr = handles[g].addr
                                    /\ handles'[g].tr = handles[g].tr
                                    /\ handles'[g].acc.root = handles[g].acc.root
  BY Zenon DEF PlainChange
<1>4. ASSUME NEW k \in 1..Len(entries'), entries'[k].kind = "data"
      PROVE  /\ handles'[entries'[k].h].tr # 0
             /\ handles'[entries'[k].h].tr = dataTries'[handles'[entries'[k].h].addr]
  <2>1. k \in 1..Len(entries) /\ entries'[k] = entries[k]
    BY <1>4, Zenon
  <2>2. entries[k].h \in 1..Len(handles)
    BY <1>1, <1>4, <2>1, Zenon DEF EntriesOfHandles, ByHandle
  <2>3. handles[entries[k].h].tr # 0
        /\ handles[entries[k].h].tr = dataTries[handles[entries[k].h].addr]
    BY <1>4, <2>1, Zenon DEF Resting, DataEntries
  <2> QED BY <1>2, <1>3, <2>1, <2>2, <2>3, Zenon
<1>5. DataEntries(entries, handles, Len(entries))'
  BY <1>4, Zenon DEF DataEntries
<1>6. LiveIsNewest'
  <2>1. live \subseteq 1..Len(handles) /\ LiveIsNewest
    BY Zenon DEF Resting
  <2> QED BY <1>2, <1>3, <2>1, SMTT(20) DEF LiveIsNewest
<1>7. HolderFollows'
  <2>1. \A b \in Addresses : RootOf(mainTrie'.acc[b]) = RootOf(mainTrie.acc[b])
    BY AccountFields, Zenon DEF RootOf, PlainChange
  <2> QED BY <1>2, <2>1, Zenon DEF HolderFollows, Resting
<1>8. HolderApart' /\ LoadingFollows' /\ CommittedIsComplete'
  BY <1>2, Zenon DEF Resting, HolderApart, LoadingFollows, CommittedIsComplete
<1> QED BY <1>2, <1>3, <1>5, <1>6, <1>7, <1>8, Zenon DEF Resting

LEMMA SeqElement ==
  ASSUME NEW S, NEW s \in Seq(S), NEW i \in 1..Len(s)
  PROVE  s[i] \in S
OBVIOUS

LEMMA SeqExcept ==
  ASSUME NEW S, NEW s \in Seq(S), NEW i \in 1..Len(s), NEW v \in S
  PROVE  /\ [s EXCEPT ![i] = v] \in Seq(S) /\ Len([s EXCEPT ![i] = v]) = Len(s)
         /\ [s EXCEPT ![i] = v][i] = v
         /\ \A j \in 1..Len(s) : j # i => [s EXCEPT ![i] = v][j] = s[j]
OBVIOUS

LEMMA FreshHandle ==
  ASSUME Resting, NEW h, Fresh(h)
  PROVE  /\ h \in 1..Len(handles) /\ h \in 1..MaxHandles
         /\ handles[h] \in Handles /\ handles[h].addr \in Addresses /\ handles[h].acc \in Accounts
         /\ mainTrie.acc[handles[h].addr] = handles[h].acc
         /\ \A g \in 1..Len(handles) : handles[g].addr = handles[h].addr => g <= h
         /\ IF handles[h].tr = 0 THEN handles[h].acc.root = NilRoot
            ELSE handles[h].tr = dataTries[handles[h].addr]
<1>1. handles \in Seq(Handles) /\ Len(handles) \in Nat /\ Len(handles) <= MaxHandles
      /\ live \subseteq 1..Len(handles) /\ LiveIsNewest
  BY RestingTypes, Zenon DEF Resting
<1>2. h \in live /\ h \in 1..Len(handles) /\ mainTrie.acc[handles[h].addr] = handles[h].acc
  BY <1>1, Zenon DEF Fresh
<1>3. handles[h] \in Handles /\ h \in 1..MaxHandles
  BY <1>1, <1>2, DataAssumption
<1>4. handles[h].addr \in Addresses /\ handles[h].acc \in Accounts
  BY <1>3, HandleFields, Zenon
<1> QED BY <1>1, <1>2, <1>3, <1>4, Zenon DEF LiveIsNewest

\* A plain change that is journaled and saved.
LEMMA PlainRecord ==
  ASSUME Resting, NEW h, Fresh(h), NEW x \in Accounts, x.root = handles[h].acc.root,
         NEW main \in MainTries, main.acc = mainTrie.acc, x.codeHash \in main.codes \cup {NoCode},
         NEW es, NEW hi, Recorded(es, handles, hi, main),
         NEW e \in Entries, ByHandle(e), e.kind # "data", e.h = h, Undone(e, x) = handles[h].acc,
         Idle, UNCHANGED <<dataTries, tries, live, reverting, loading, db>>,
         handles' = [handles EXCEPT ![h] = [handles[h] EXCEPT !.acc = x]],
         mainTrie' = SaveAccount(main, handles'[h]),
         entries' = Append(es, e), hist' = Append(hi, mainTrie')
  PROVE  PlainChange(h) /\ Recorded(entries', handles', hist', mainTrie')
<1> DEFINE a == handles[h].addr
<1>1. /\ h \in 1..Len(handles) /\ handles[h] \in Handles /\ a \in Addresses
      /\ handles[h].acc \in Accounts /\ mainTrie.acc[a] = handles[h].acc
      /\ \A g \in 1..Len(handles) : handles[g].addr = a => g <= h
  BY FreshHandle, Zenon
<1>2. handles \in Seq(Handles)
  BY RestingTypes, Zenon
<1>3. [handles[h] EXCEPT !.acc = x] \in Handles /\ [handles[h] EXCEPT !.acc = x].addr = a
      /\ [handles[h] EXCEPT !.acc = x].acc = x /\ [handles[h] EXCEPT !.acc = x].tr = handles[h].tr
  BY <1>1, Zenon DEF Handles
<1>4. /\ handles' \in Seq(Handles) /\ Len(handles') = Len(handles)
      /\ handles'[h] = [handles[h] EXCEPT !.acc = x]
      /\ \A g \in 1..Len(handles) : g # h => handles'[g] = handles[g]
  <2>1. PICK v : v = [handles[h] EXCEPT !.acc = x]
    BY Zenon
  <2>2. v \in Handles /\ handles' = [handles EXCEPT ![h] = v]
    BY <1>3, <2>1, Zenon
  <2>3. /\ [handles EXCEPT ![h] = v] \in Seq(Handles) /\ Len([handles EXCEPT ![h] = v]) = Len(handles)
        /\ [handles EXCEPT ![h] = v][h] = v
        /\ \A j \in 1..Len(handles) : j # h => [handles EXCEPT ![h] = v][j] = handles[j]
    BY <1>1, <1>2, <2>2, SeqExcept
  <2> QED BY <2>1, <2>2, <2>3, Zenon
<1>5. handles'[h].addr = a /\ handles'[h].acc = x /\ handles'[h].tr = handles[h].tr
  BY <1>3, <1>4, Zenon
<1> HIDE DEF a
<1>6. /\ mainTrie' \in MainTries /\ mainTrie'.acc[a] = x
      /\ \A b \in Addresses : b # a => mainTrie'.acc[b] = mainTrie.acc[b]
  <2>1. PICK hd : hd = handles'[h]
    BY Zenon
  <2>2. hd.addr = a /\ hd.acc = x /\ hd.addr \in Addresses /\ hd.acc \in Accounts
    BY <1>1, <1>5, <2>1, Zenon
  <2>3. /\ SaveAccount(main, hd) \in MainTries
        /\ SaveAccount(main, hd).acc[hd.addr] = hd.acc
        /\ \A b \in Addresses : b # hd.addr => SaveAccount(main, hd).acc[b] = main.acc[b]
    BY <2>2, SaveAccountFields
  <2> QED BY <2>1, <2>2, <2>3, Zenon
<1>7. PlainChange(h)
  <2>1. \A g \in 1..Len(handles) : /\ handles'[g].addr = handles[g].addr
                                   /\ handles'[g].tr = handles[g].tr
                                   /\ handles'[g].acc.root = handles[g].acc.root
    BY <1>4, <1>5, Zenon DEF a
  <2> QED BY <1>1, <1>4, <1>6, <2>1, Zenon DEF PlainChange, a
<1>8. PICK gs : gs = handles'
  BY Zenon
<1>9. Change(handles, gs, main, e)
  <2>1. Covers(Undone(e, x), handles[h].acc)
    BY CoversRefl, Zenon
  <2> QED BY <1>1, <1>4, <1>5, <1>8, <2>1, Zenon DEF Change, a
<1>10. Recorded(Append(es, e), gs, Append(hi, SaveAccount(main, gs[e.h])), SaveAccount(main, gs[e.h]))
  BY <1>9, RecordChange, Zenon
<1>11. SaveAccount(main, gs[e.h]) = mainTrie'
  BY <1>8, Zenon
<1> QED BY <1>7, <1>8, <1>10, <1>11, Zenon

LEMMA SetBalanceStep ==
  ASSUME Resting, NEW h, NEW b \in Balances, SetBalanceWithJournal(h, b)
  PROVE  Resting'
<1> DEFINE x0 == handles[h].acc
           x == [x0 EXCEPT !.balance = b]
           e == [kind |-> "balance", h |-> h, old |-> x0.balance]
<1>1. entries \in Seq(Entries) /\ Len(entries) \in Nat /\ handles \in Seq(Handles)
      /\ mainTrie \in MainTries
  BY RestingTypes, Zenon
<1>2. /\ Idle /\ Fresh(h) /\ UNCHANGED <<dataTries, tries, live, reverting, loading, db>>
      /\ handles' = [handles EXCEPT ![h].acc.balance = b]
      /\ mainTrie' = SaveAccount(mainTrie, handles'[h]) /\ hist' = Append(hist, mainTrie')
      /\ Len(entries) + 1 <= MaxJournal /\ entries' = Append(entries, e)
  BY <1>1 DEF SetBalanceWithJournal, Journalize
<1>3. /\ h \in 1..Len(handles) /\ h \in 1..MaxHandles /\ handles[h] \in Handles /\ x0 \in Accounts
      /\ handles[h].addr \in Addresses /\ mainTrie.acc[handles[h].addr] = x0
  BY <1>2, FreshHandle, Zenon
<1>4. x0 = [balance |-> x0.balance, codeHash |-> x0.codeHash, root |-> x0.root]
      /\ x0.balance \in Balances /\ x0 # Absent
  BY <1>3, AccountFields, Zenon
<1>5. x = [balance |-> b, codeHash |-> x0.codeHash, root |-> x0.root] /\ x \in Accounts
  BY <1>3, <1>4 DEF Accounts
<1>6. handles' = [handles EXCEPT ![h] = [handles[h] EXCEPT !.acc = x]]
  BY <1>1, <1>2, <1>3, Zenon
<1>7. /\ e \in Entries /\ ByHandle(e) /\ e.kind = "balance" /\ e.h = h /\ e.old = x0.balance
  BY <1>3, <1>4, Zenon DEF Entries, ByHandle
<1>8. x.codeHash = x0.codeHash /\ x.root = x0.root
  BY <1>5, Zenon
<1>9. Undone(e, x) = x0
  <2>1. Undone(e, x) = [x EXCEPT !.balance = x0.balance]
    BY <1>7, Zenon DEF Undone
  <2>2. [x EXCEPT !.balance = x0.balance] = [balance |-> x0.balance, codeHash |-> x0.codeHash, root |-> x0.root]
    <3>1. [x EXCEPT !.balance = x0.balance] = [balance |-> x0.balance, codeHash |-> x.codeHash, root |-> x.root]
      BY <1>4, <1>5, Zenon DEF Accounts
    <3> QED BY <1>8, <3>1, Zenon
  <2> QED BY <1>4, <2>1, <2>2, Zenon
<1> HIDE DEF e, x, x0
<1>10. Recorded(entries, handles, hist, mainTrie)
  BY Zenon DEF Resting
<1>11. x.codeHash \in mainTrie.codes \cup {NoCode}
  <2>1. CodesIn(mainTrie)
    BY <1>10, RecordedCodes, Zenon
  <2> QED BY <1>3, <1>4, <1>8, <2>1, Zenon DEF CodesIn
<1>12. PlainChange(h) /\ Recorded(entries', handles', hist', mainTrie')
  BY <1>1, <1>2, <1>5, <1>6, <1>7, <1>8, <1>9, <1>10, <1>11, PlainRecord, Zenon DEF x0
<1>13. /\ Len(entries') = Len(entries) + 1 /\ entries'[Len(entries) + 1] = e
       /\ \A k \in 1..Len(entries) : entries'[k] = entries[k]
  BY <1>1, <1>2
<1>14. \A k \in 1..Len(entries') : k \in 1..Len(entries) \/ entries'[k].kind # "data"
  <2>1. \A k \in 1..Len(entries') : k \in 1..Len(entries) \/ k = Len(entries) + 1
    BY <1>1, <1>13
  <2> QED BY <1>7, <1>13, <2>1, Zenon
<1> QED BY <1>2, <1>3, <1>12, <1>13, <1>14, PlainChangeStep, Zenon
LEMMA PutCodeStep ==
  ASSUME Resting, NEW h, NEW c \in Codes, PutCode(h, c)
  PROVE  Resting'
<1> DEFINE x0 == handles[h].acc
           x == [x0 EXCEPT !.codeHash = c]
           e0 == [kind |-> "code", code |-> c]
           e == [kind |-> "codeHash", h |-> h, old |-> x0.codeHash]
           withCode == [mainTrie EXCEPT !.codes = @ \cup {c}]
           missing == c \notin mainTrie.codes
           es == IF missing THEN Append(entries, e0) ELSE entries
           hi == IF missing THEN Append(hist, withCode) ELSE hist
<1>1. entries \in Seq(Entries) /\ Len(entries) \in Nat /\ handles \in Seq(Handles)
      /\ mainTrie \in MainTries /\ hist \in Seq(MainTries)
  BY RestingTypes, Zenon
<1>2. /\ Idle /\ Fresh(h) /\ UNCHANGED <<dataTries, tries, live, reverting, loading, db>>
      /\ handles' = [handles EXCEPT ![h].acc.codeHash = c]
      /\ mainTrie' = SaveAccount(withCode, handles'[h])
      /\ hist' = hist \o (IF missing THEN <<withCode>> ELSE <<>>) \o <<mainTrie'>>
      /\ Len(entries) + Len((IF missing THEN <<e0>> ELSE <<>>) \o <<e>>) <= MaxJournal
      /\ entries' = entries \o ((IF missing THEN <<e0>> ELSE <<>>) \o <<e>>)
  BY Zenon DEF PutCode, Journalize
<1>3. /\ h \in 1..Len(handles) /\ h \in 1..MaxHandles /\ handles[h] \in Handles /\ x0 \in Accounts
  BY <1>2, FreshHandle, Zenon
<1>4. x0 = [balance |-> x0.balance, codeHash |-> x0.codeHash, root |-> x0.root]
      /\ x0.codeHash \in Codes \cup {NoCode}
  BY <1>3, AccountFields, Zenon
<1>5. x = [balance |-> x0.balance, codeHash |-> c, root |-> x0.root] /\ x \in Accounts
  BY <1>3, <1>4 DEF Accounts
<1>6. handles' = [handles EXCEPT ![h] = [handles[h] EXCEPT !.acc = x]]
  BY <1>1, <1>2, <1>3, Zenon
<1>7. e \in Entries /\ ByHandle(e) /\ e.kind = "codeHash" /\ e.h = h /\ e.old = x0.codeHash
      /\ e0 \in Entries /\ e0.kind = "code"
  BY <1>3, <1>4, Zenon DEF Entries, ByHandle
<1>8. x.codeHash = c /\ x.root = x0.root /\ x.balance = x0.balance
  BY <1>5, Zenon
<1>9. Undone(e, x) = x0
  <2>1. Undone(e, x) = [x EXCEPT !.codeHash = x0.codeHash]
    BY <1>7, Zenon DEF Undone
  <2>2. [x EXCEPT !.codeHash = x0.codeHash] = [balance |-> x.balance, codeHash |-> x0.codeHash, root |-> x.root]
    BY <1>4, <1>5, Zenon DEF Accounts
  <2> QED BY <1>4, <1>8, <2>1, <2>2, Zenon
<1>10. withCode \in MainTries /\ withCode.acc = mainTrie.acc /\ withCode.codes = mainTrie.codes \cup {c}
  BY <1>1, Zenon DEF MainTries
<1>11. ~missing => withCode = mainTrie
  BY <1>1, Zenon DEF MainTries
<1>12. Recorded(entries, handles, hist, mainTrie)
  BY Zenon DEF Resting
<1>13. Recorded(es, handles, hi, withCode)
  <2>1. CASE missing
    <3>1. PICK m, f : m = withCode /\ f = e0
      BY Zenon
    <3>2. Recorded(Append(entries, f), handles, Append(hist, m), m)
      BY <1>12, <2>1, <3>1, RecordCode, Zenon
    <3> QED BY <2>1, <3>1, <3>2, Zenon
  <2>2. CASE ~missing
    BY <1>11, <1>12, <2>2, Zenon
  <2> QED BY <2>1, <2>2, Zenon
<1> HIDE DEF e, x, x0, e0, withCode
<1>14. entries' = Append(es, e) /\ hist' = Append(hi, mainTrie') /\ Len(entries') <= MaxJournal
  <2>1. CASE missing
    <3>1. entries \o (<<e0>> \o <<e>>) = Append(Append(entries, e0), e)
          /\ Len(<<e0>> \o <<e>>) = 2 /\ Len(Append(Append(entries, e0), e)) = Len(entries) + 2
      BY <1>1, <1>7
    <3>2. hist \o <<withCode>> \o <<mainTrie'>> = Append(Append(hist, withCode), mainTrie')
      BY <1>1, <1>10
    <3> QED BY <1>2, <2>1, <3>1, <3>2, Zenon
  <2>2. CASE ~missing
    <3>1. entries \o (<<>> \o <<e>>) = Append(entries, e)
          /\ Len(<<>> \o <<e>>) = 1 /\ Len(Append(entries, e)) = Len(entries) + 1
      BY <1>1, <1>7
    <3>2. hist \o <<>> \o <<mainTrie'>> = Append(hist, mainTrie')
      BY <1>1
    <3> QED BY <1>2, <2>2, <3>1, <3>2, Zenon
  <2> QED BY <2>1, <2>2, Zenon
<1>15. /\ \A k \in 1..Len(entries) : entries'[k] = entries[k]
       /\ \A k \in 1..Len(entries') : k \in 1..Len(entries) \/ entries'[k].kind # "data"
  <2>1. CASE missing
    <3>1. /\ Len(entries') = Len(entries) + 2 /\ entries'[Len(entries) + 1] = e0
          /\ entries'[Len(entries) + 2] = e /\ \A k \in 1..Len(entries) : entries'[k] = entries[k]
      BY <1>1, <1>7, <1>14, <2>1
    <3>2. \A k \in 1..Len(entries') : k \in 1..Len(entries) \/ k = Len(entries) + 1 \/ k = Len(entries) + 2
      BY <1>1, <3>1
    <3> QED BY <1>7, <3>1, <3>2, Zenon
  <2>2. CASE ~missing
    <3>1. /\ Len(entries') = Len(entries) + 1 /\ entries'[Len(entries) + 1] = e
          /\ \A k \in 1..Len(entries) : entries'[k] = entries[k]
      BY <1>1, <1>7, <1>14, <2>2
    <3>2. \A k \in 1..Len(entries') : k \in 1..Len(entries) \/ k = Len(entries) + 1
      BY <1>1, <3>1
    <3> QED BY <1>7, <3>1, <3>2, Zenon
  <2> QED BY <2>1, <2>2, Zenon
<1> HIDE DEF es, hi
<1>16. x.codeHash \in withCode.codes \cup {NoCode}
  BY <1>8, <1>10, Zenon
<1>17. PICK main \in MainTries : main = withCode
  BY <1>10, Zenon
<1>18. PICK fs, gi : fs = es /\ gi = hi
  BY Zenon
<1>19. PlainChange(h) /\ Recorded(entries', handles', hist', mainTrie')
  <2>1. e.kind # "data" /\ main.acc = mainTrie.acc /\ x.codeHash \in main.codes \cup {NoCode}
    BY <1>7, <1>10, <1>16, <1>17, Zenon
  <2>2. Recorded(fs, handles, gi, main) /\ entries' = Append(fs, e) /\ hist' = Append(gi, mainTrie')
        /\ mainTrie' = SaveAccount(main, handles'[h])
    BY <1>2, <1>13, <1>14, <1>17, <1>18, Zenon
  <2>3. /\ x \in Accounts /\ x.root = handles[h].acc.root /\ Undone(e, x) = handles[h].acc
        /\ handles' = [handles EXCEPT ![h] = [handles[h] EXCEPT !.acc = x]]
    BY <1>5, <1>6, <1>8, <1>9, Zenon DEF x0
  <2>4. /\ Fresh(h) /\ Idle /\ UNCHANGED <<dataTries, tries, live, reverting, loading, db>>
        /\ e \in Entries /\ ByHandle(e) /\ e.h = h
    BY <1>2, <1>7, Zenon
  <2>5. PICK x1, e1 : x1 = x /\ e1 = e
    OBVIOUS
  <2> QED BY <2>1, <2>2, <2>3, <2>4, <2>5, PlainRecord, Zenon
<1> QED BY <1>3, <1>14, <1>15, <1>19, PlainChangeStep, Zenon
LEMMA RecordSame ==
  ASSUME NEW es, NEW hs, NEW hi, NEW main, Recorded(es, hs, hi, main),
         NEW gs \in Seq(Handles), Len(gs) = Len(hs),
         \A g \in 1..Len(hs) : gs[g].addr = hs[g].addr /\ gs[g].acc = hs[g].acc
  PROVE  Recorded(es, gs, hi, main)
<1>1. es \in Seq(Entries) /\ Len(es) \in Nat /\ EntriesOfHandles(es, hs)
  BY DEF Recorded
<1>2. \A n \in 1..Len(es) : ByHandle(es[n]) => /\ gs[es[n].h].addr = hs[es[n].h].addr
                                               /\ gs[es[n].h].acc = hs[es[n].h].acc
  BY <1>1, Zenon DEF EntriesOfHandles
<1>3. Journal(es, gs, hi, Len(es))
  BY <1>1, <1>2, JournalSameAddrs, Zenon DEF Recorded
<1>4. HandlesFollow(es, gs, hi, Len(es))
  BY <1>2, Zenon DEF Recorded, HandlesFollow, LastUse
<1>5. EntriesOfHandles(es, gs)
  BY <1>1, Zenon DEF EntriesOfHandles
<1> QED BY <1>3, <1>4, <1>5, Zenon DEF Recorded

\* An account without a data root has no data entry in the journal.
LEMMA NoDataEntries ==
  ASSUME Resting, NEW a \in Addresses, mainTrie.acc[a] \in Accounts,
         mainTrie.acc[a].root = NilRoot, NEW k \in 1..Len(entries), entries[k].kind = "data"
  PROVE  handles[entries[k].h].addr # a
<1> SUFFICES ASSUME handles[entries[k].h].addr = a PROVE FALSE
  BY Zenon
<1> DEFINE p == Len(entries)
<1>1. p \in Nat /\ Len(hist) = p + 1 /\ hist \in Seq(MainTries)
      /\ Journal(entries, handles, hist, p) /\ MainFollows(mainTrie, hist[p + 1])
  BY RestingTypes, Zenon DEF Resting, Recorded
<1>2. k \in 1..p /\ k + 1 \in 1..(p + 1) /\ p + 1 \in 1..(p + 1) /\ k + 1 <= p + 1
  BY <1>1
<1> HIDE DEF p
<1>3. hist[k + 1] \in MainTries /\ hist[p + 1] \in MainTries
  BY <1>1, <1>2
<1>4. Link(entries[k], handles, hist[k], hist[k + 1])
  BY <1>1, <1>2, Zenon DEF Journal
<1>5. hist[k + 1].acc[a] # Absent /\ hist[k + 1].acc[a].root # NilRoot
  BY <1>4, Zenon DEF Link, LinkAccount, ByHandle
<1>6. Lasts(hist[k + 1].acc[a], hist[p + 1].acc[a])
  BY <1>1, <1>2, Zenon DEF Journal
<1>7. hist[p + 1].acc[a] # Absent /\ hist[p + 1].acc[a].root # NilRoot
  BY <1>5, <1>6, Zenon DEF Lasts
<1>8. hist[p + 1].acc[a] \in MaybeAccounts /\ Covers(mainTrie.acc[a], hist[p + 1].acc[a])
  BY <1>1, <1>3, MainTrieFields, Zenon DEF MainFollows
<1> QED BY <1>7, <1>8, CoversFields, Zenon

\* The data of an account change: its data trie, the holder and the object.
DataChange(h, tr) ==
  LET a == handles[h].addr IN
  /\ tr \in 1..Len(tries')
  /\ dataTries' \in [Addresses -> 0..Len(tries')] /\ dataTries'[a] = tr
  /\ \A b \in Addresses : b # a => dataTries'[b] = dataTries[b] /\ dataTries[b] # tr
  /\ \A k \in 1..Len(entries) : entries[k].kind = "data" =>
       dataTries'[handles[entries[k].h].addr] = dataTries[handles[entries[k].h].addr]
  /\ tries' \in Seq(DataMaps) /\ Len(tries') <= MaxTries
  /\ \A t \in 1..Len(tries) : t # tr => tries'[t] = tries[t]
  /\ tries'[tr] = RootOf(mainTrie'.acc[a])
  /\ \A b \in Addresses : b # a => mainTrie'.acc[b] = mainTrie.acc[b]
  /\ Len(handles') = Len(handles) /\ handles'[h].addr = a /\ handles'[h].tr = tr
  /\ \A g \in 1..Len(handles) : g # h => handles'[g] = handles[g]
  /\ Idle /\ UNCHANGED <<live, reverting, loading, db>>

LEMMA DataChangeStep ==
  ASSUME Resting, NEW h, Fresh(h), NEW tr, DataChange(h, tr),
         Recorded(entries', handles', hist', mainTrie'), Len(entries') <= MaxJournal,
         \A k \in 1..Len(entries) : entries'[k] = entries[k],
         \A k \in 1..Len(entries') : k \in 1..Len(entries) \/ entries'[k].h = h
  PROVE  Resting'
<1> DEFINE a == handles[h].addr
<1>1. /\ entries \in Seq(Entries) /\ handles \in Seq(Handles) /\ Len(entries) \in Nat
      /\ EntriesOfHandles(entries, handles) /\ Len(handles) \in Nat /\ Len(tries) \in Nat
      /\ dataTries \in [Addresses -> 0..Len(tries)]
  BY RestingTypes, Zenon DEF Resting
<1>2. /\ h \in 1..Len(handles) /\ a \in Addresses
      /\ \A g \in 1..Len(handles) : handles[g].addr = a => g <= h
  BY FreshHandle, Zenon
<1>3. /\ live' = live /\ reverting' = NotReverting
      /\ loading' = loading /\ db' = db /\ loading[Processor] = NotLoading
  BY Zenon DEF DataChange, Idle
<1>4. /\ tr \in 1..Len(tries') /\ tries' \in Seq(DataMaps) /\ dataTries'[a] = tr
      /\ \A b \in Addresses : b # a => dataTries'[b] = dataTries[b] /\ dataTries[b] # tr
      /\ \A b \in Addresses : b # a => mainTrie'.acc[b] = mainTrie.acc[b]
      /\ \A t \in 1..Len(tries) : t # tr => tries'[t] = tries[t]
      /\ tries'[tr] = RootOf(mainTrie'.acc[a])
      /\ Len(handles') = Len(handles) /\ handles'[h].addr = a /\ handles'[h].tr = tr
      /\ \A g \in 1..Len(handles) : g # h => handles'[g] = handles[g]
  BY Zenon DEF DataChange
<1>5. tr # 0
  BY <1>4
<1> HIDE DEF a
<1>6. ASSUME NEW k \in 1..Len(entries'), entries'[k].kind = "data"
      PROVE  /\ handles'[entries'[k].h].tr # 0
             /\ handles'[entries'[k].h].tr = dataTries'[handles'[entries'[k].h].addr]
  <2>1. CASE entries'[k].h = h
    BY <1>4, <1>5, <2>1, Zenon
  <2>2. CASE entries'[k].h # h
    <3>1. k \in 1..Len(entries) /\ entries'[k] = entries[k]
      BY <1>6, <2>2, Zenon
    <3>2. entries[k].h \in 1..Len(handles)
      BY <1>1, <1>6, <3>1, Zenon DEF EntriesOfHandles, ByHandle
    <3>3. handles[entries[k].h].tr # 0
          /\ handles[entries[k].h].tr = dataTries[handles[entries[k].h].addr]
      BY <1>6, <3>1, Zenon DEF Resting, DataEntries
    <3>4. dataTries'[handles[entries[k].h].addr] = dataTries[handles[entries[k].h].addr]
      BY <1>6, <3>1, Zenon DEF DataChange
    <3>5. handles'[entries[k].h] = handles[entries[k].h]
      BY <1>4, <2>2, <3>1, <3>2, Zenon
    <3> QED BY <3>1, <3>3, <3>4, <3>5, Zenon
  <2> QED BY <2>1, <2>2, Zenon
<1>7. DataEntries(entries, handles, Len(entries))'
  BY <1>6, Zenon DEF DataEntries
<1>8. LiveIsNewest'
  <2>1. live \subseteq 1..Len(handles) /\ LiveIsNewest /\ h \in live
    BY Zenon DEF Resting, Fresh
  <2>2. \A g \in 1..Len(handles) : handles'[g].addr = handles[g].addr
    BY <1>4, Zenon DEF a
  <2>3. ASSUME NEW g \in live, g # h
        PROVE  handles'[g] = handles[g] /\ handles[g].addr \in Addresses /\ handles[g].addr # a
    <3>1. g \in 1..Len(handles) /\ h \in 1..Len(handles)
      BY <1>2, <2>1, Zenon
    <3>2. handles[g].addr = a => g <= h /\ h <= g
      BY <1>2, <2>1, <3>1, Zenon DEF LiveIsNewest, a
    <3>3. handles[g].addr # a
      BY <1>1, <2>3, <3>1, <3>2
    <3>4. handles[g].addr \in Addresses
      BY <1>1, <3>1, HandleFields
    <3> QED BY <1>4, <2>3, <3>1, <3>3, <3>4, Zenon
  <2>4. ASSUME NEW g \in live
        PROVE  \A f \in 1..Len(handles') : handles'[f].addr = handles'[g].addr => f <= g
    BY <1>4, <2>1, <2>2, Zenon DEF LiveIsNewest
  <2>5. ASSUME NEW g \in live
        PROVE  IF handles'[g].tr = 0 THEN handles'[g].acc.root = NilRoot
               ELSE handles'[g].tr = dataTries'[handles'[g].addr]
    <3>1. CASE g = h
      BY <1>4, <1>5, <3>1, Zenon
    <3>2. CASE g # h
      BY <1>4, <2>1, <2>3, <3>2, SMTT(20) DEF LiveIsNewest
    <3> QED BY <3>1, <3>2, Zenon
  <2> QED BY <1>3, <2>4, <2>5, Zenon DEF LiveIsNewest
<1>9. HolderFollows'
  <2>1. ASSUME NEW b \in Addresses
        PROVE  IF dataTries'[b] = 0 THEN RootOf(mainTrie'.acc[b]) \in db.data \cup {EmptyMap}
               ELSE tries'[dataTries'[b]] = RootOf(mainTrie'.acc[b])
    <3>1. CASE b = a
      BY <1>4, <1>5, <3>1, Zenon
    <3>2. CASE b # a
      <4>1. IF dataTries[b] = 0 THEN RootOf(mainTrie.acc[b]) \in db.data \cup {EmptyMap}
            ELSE tries[dataTries[b]] = RootOf(mainTrie.acc[b])
        BY Zenon DEF Resting, HolderFollows
      <4>2. dataTries[b] # 0 => dataTries[b] \in 1..Len(tries)
        BY <1>1
      <4> QED BY <1>4, <3>2, <4>1, <4>2
    <3> QED BY <3>1, <3>2, Zenon
  <2> QED BY <1>3, <2>1, Zenon DEF HolderFollows
<1>10. HolderApart'
  BY <1>4 DEF HolderApart, Resting
<1>11. LoadingFollows' /\ CommittedIsComplete'
  BY <1>3, Zenon DEF Resting, LoadingFollows, CommittedIsComplete
<1>12. dataTries' \in [Addresses -> 0..Len(tries')] /\ Len(tries') <= MaxTries
  BY Zenon DEF DataChange
<1> QED BY <1>3, <1>4, <1>7, <1>8, <1>9, <1>10, <1>11, <1>12, Zenon DEF Resting
\* The old values that SaveDataTrie journals undo what it writes.
LEMMA MergedBack ==
  ASSUME NEW dirty \in Updates, NEW d \in DataMaps,
         NEW new, new = [k \in Keys |-> IF k \in Changed(dirty) THEN dirty[k] ELSE d[k]],
         NEW old, old = [k \in Keys |-> IF k \in Changed(dirty) THEN d[k] ELSE NotSet]
  PROVE  /\ new \in DataMaps /\ old \in Updates /\ Merged(old, new) = d
<1>1. \A k \in Changed(dirty) : k \in Keys /\ dirty[k] \in Values
  BY Zenon DEF Changed, Updates
<1>2. \A k \in Keys : d[k] \in Values /\ d[k] # NotSet
  BY MissingAssumption, Zenon DEF DataMaps
<1>3. d = [k \in Keys |-> d[k]]
  BY Zenon DEF DataMaps
<1>4. new \in DataMaps
  BY <1>1, <1>2, Zenon DEF DataMaps
<1>5. old \in Updates
  BY <1>2, Zenon DEF Updates
<1>6. \A k \in Keys : (IF old[k] # NotSet THEN old[k] ELSE new[k]) = d[k]
  BY <1>2, Zenon
<1>7. Merged(old, new) = [k \in Keys |-> d[k]]
  BY <1>6, Zenon DEF Merged
<1> QED BY <1>3, <1>4, <1>5, <1>7, Zenon

\* The data trie that SaveDataTrie works on, made without data when there is none.
TakesTrie(h, tr, withTrie) ==
  LET isNew == handles[h].tr = 0 IN
  /\ isNew => Len(tries) < MaxTries
  /\ tr = IF isNew THEN Len(tries) + 1 ELSE handles[h].tr
  /\ withTrie = IF isNew THEN Append(tries, EmptyMap) ELSE tries
  /\ dataTries' = IF isNew THEN [dataTries EXCEPT ![handles[h].addr] = tr] ELSE dataTries

HasTrie(h, tr, withTrie) ==
  LET a == handles[h].addr IN
  /\ withTrie \in Seq(DataMaps) /\ Len(withTrie) <= MaxTries
  /\ tr \in 1..Len(withTrie) /\ tr \in 0..MaxTries /\ withTrie[tr] = RootOf(handles[h].acc)
  /\ \A t \in 1..Len(tries) : t # tr => withTrie[t] = tries[t]
  /\ dataTries' \in [Addresses -> 0..Len(withTrie)] /\ dataTries'[a] = tr
  /\ \A b \in Addresses : b # a => dataTries'[b] = dataTries[b] /\ dataTries[b] # tr
  /\ \A k \in 1..Len(entries) : entries[k].kind = "data" =>
       dataTries'[handles[entries[k].h].addr] = dataTries[handles[entries[k].h].addr]

LEMMA TrieOfHandle ==
  ASSUME Resting, NEW h, Fresh(h), NEW tr, NEW withTrie, TakesTrie(h, tr, withTrie)
  PROVE  HasTrie(h, tr, withTrie)
<1> DEFINE a == handles[h].addr
<1>1. /\ tries \in Seq(DataMaps) /\ Len(tries) \in Nat /\ dataTries \in [Addresses -> 0..Len(tries)]
      /\ Len(tries) <= MaxTries /\ entries \in Seq(Entries) /\ EntriesOfHandles(entries, handles)
      /\ handles \in Seq(Handles)
  BY RestingTypes, Zenon DEF Resting
<1>2. /\ h \in 1..Len(handles) /\ a \in Addresses /\ handles[h].acc \in Accounts
      /\ mainTrie.acc[a] = handles[h].acc
      /\ IF handles[h].tr = 0 THEN handles[h].acc.root = NilRoot ELSE handles[h].tr = dataTries[a]
  BY FreshHandle, Zenon
<1>3. CASE handles[h].tr = 0
  <2>1. /\ tr = Len(tries) + 1 /\ withTrie = Append(tries, EmptyMap) /\ Len(tries) < MaxTries
        /\ dataTries' = [dataTries EXCEPT ![a] = tr] /\ handles[h].acc.root = NilRoot
    BY <1>2, <1>3, Zenon DEF TakesTrie
  <2>2. RootOf(handles[h].acc) = EmptyMap
    BY <2>1, Zenon DEF RootOf
  <2>3. /\ withTrie \in Seq(DataMaps) /\ Len(withTrie) = Len(tries) + 1 /\ Len(withTrie) <= MaxTries
        /\ withTrie[Len(tries) + 1] = EmptyMap /\ \A t \in 1..Len(tries) : withTrie[t] = tries[t]
    BY <1>1, <2>1, Values0, DataAssumption
  <2>4. tr \in 1..Len(withTrie) /\ tr \in 0..MaxTries
    BY <1>1, <2>1, <2>3, DataAssumption
  <2> HIDE DEF a
  <2>5. dataTries' \in [Addresses -> 0..Len(withTrie)] /\ dataTries'[a] = tr
    BY <1>1, <1>2, <2>1, <2>3, <2>4
  <2>6. \A b \in Addresses : b # a => dataTries'[b] = dataTries[b] /\ dataTries[b] # tr
    BY <1>1, <1>2, <2>1
  <2>7. ASSUME NEW k \in 1..Len(entries), entries[k].kind = "data"
        PROVE  dataTries'[handles[entries[k].h].addr] = dataTries[handles[entries[k].h].addr]
    <3>1. handles[entries[k].h].addr # a
      BY <1>2, <2>1, <2>7, NoDataEntries, Zenon
    <3>2. handles[entries[k].h].addr \in Addresses
      BY <1>1, <2>7, HandleFields DEF EntriesOfHandles, ByHandle
    <3> QED BY <2>6, <3>1, <3>2, Zenon
  <2> QED BY <2>1, <2>2, <2>3, <2>4, <2>5, <2>6, <2>7, Zenon DEF a, HasTrie
<1>4. CASE handles[h].tr # 0
  <2>1. /\ tr = dataTries[a] /\ withTrie = tries /\ dataTries' = dataTries /\ dataTries[a] # 0
    BY <1>2, <1>4, Zenon DEF TakesTrie
  <2> HIDE DEF a
  <2>2. dataTries[a] \in 1..Len(tries) /\ tr \in 0..MaxTries
    BY <1>1, <1>2, <2>1, DataAssumption
  <2>3. tries[dataTries[a]] = RootOf(handles[h].acc)
    BY <1>2, <2>1, Zenon DEF Resting, HolderFollows
  <2>4. \A b \in Addresses : b # a => dataTries[b] # tr
    BY <1>2, <2>1, Zenon DEF Resting, HolderApart
  <2> QED BY <1>1, <2>1, <2>2, <2>3, <2>4, Zenon DEF a, HasTrie
<1> QED BY <1>3, <1>4, Zenon

LEMMA SaveDataTrieStep ==
  ASSUME Resting, NEW h, NEW dirty \in Updates, SaveDataTrie(h, dirty)
  PROVE  Resting'
<1> DEFINE hd == handles[h]
           a == hd.addr
           x0 == hd.acc
           isNew == hd.tr = 0
           tr == IF isNew THEN Len(tries) + 1 ELSE hd.tr
           withTrie == IF isNew THEN Append(tries, EmptyMap) ELSE tries
           newData == [k \in Keys |-> IF k \in Changed(dirty) THEN dirty[k] ELSE withTrie[tr][k]]
           old == [k \in Keys |-> IF k \in Changed(dirty) THEN withTrie[tr][k] ELSE NotSet]
           e == [kind |-> "data", h |-> h, old |-> old]
           x == [x0 EXCEPT !.root = newData]
<1>1. /\ Idle /\ Fresh(h) /\ (isNew => Len(tries) < MaxTries)
      /\ dataTries' = IF isNew THEN [dataTries EXCEPT ![a] = tr] ELSE dataTries
      /\ UNCHANGED <<live, reverting, loading, db>>
  BY Zenon DEF SaveDataTrie
<1>2. /\ h \in 1..Len(handles) /\ h \in 1..MaxHandles /\ hd \in Handles /\ a \in Addresses
      /\ x0 \in Accounts /\ mainTrie.acc[a] = x0
      /\ \A g \in 1..Len(handles) : handles[g].addr = a => g <= h
  BY <1>1, FreshHandle, Zenon
<1>3. /\ handles \in Seq(Handles) /\ Len(handles) \in Nat /\ entries \in Seq(Entries)
      /\ Len(entries) \in Nat /\ mainTrie \in MainTries /\ Len(entries) <= MaxJournal
      /\ Recorded(entries, handles, hist, mainTrie)
  BY RestingTypes, Zenon DEF Resting
<1>4. /\ withTrie \in Seq(DataMaps) /\ Len(withTrie) <= MaxTries
      /\ tr \in 1..Len(withTrie) /\ tr \in 0..MaxTries /\ withTrie[tr] = RootOf(x0)
      /\ \A t \in 1..Len(tries) : t # tr => withTrie[t] = tries[t]
      /\ dataTries' \in [Addresses -> 0..Len(withTrie)] /\ dataTries'[a] = tr
      /\ \A b \in Addresses : b # a => dataTries'[b] = dataTries[b] /\ dataTries[b] # tr
      /\ \A k \in 1..Len(entries) : entries[k].kind = "data" =>
           dataTries'[handles[entries[k].h].addr] = dataTries[handles[entries[k].h].addr]
  <2>1. TakesTrie(h, tr, withTrie)
    BY <1>1, Zenon DEF TakesTrie
  <2> HIDE DEF tr, withTrie
  <2>2. HasTrie(h, tr, withTrie)
    BY <1>1, <2>1, TrieOfHandle, Zenon
  <2> QED BY <2>2, Zenon DEF HasTrie
<1> HIDE DEF tr, withTrie, isNew
<1>5. CASE Changed(dirty) = {}
  <2>1. /\ tries' = withTrie /\ handles' = [handles EXCEPT ![h].tr = tr]
        /\ entries' = entries /\ mainTrie' = mainTrie /\ hist' = hist
    BY <1>5, Zenon DEF SaveDataTrie, tr, withTrie, isNew
  <2>2. PICK v : v = [hd EXCEPT !.tr = tr]
    BY Zenon
  <2>3. v \in Handles /\ v.addr = a /\ v.acc = x0 /\ v.tr = tr
    BY <1>2, <1>4, <2>2, Zenon DEF Handles
  <2>4. handles' = [handles EXCEPT ![h] = v]
    BY <2>1, <2>2, Zenon
  <2>5. /\ handles' \in Seq(Handles) /\ Len(handles') = Len(handles) /\ handles'[h] = v
        /\ \A g \in 1..Len(handles) : g # h => handles'[g] = handles[g]
    BY <1>2, <1>3, <2>3, <2>4, SeqExcept
  <2>6. \A g \in 1..Len(handles) : handles'[g].addr = handles[g].addr /\ handles'[g].acc = handles[g].acc
    BY <2>3, <2>5, Zenon
  <2>7. PICK gs : gs = handles'
    BY Zenon
  <2>8. Recorded(entries, gs, hist, mainTrie)
    BY <1>3, <2>5, <2>6, <2>7, RecordSame, Zenon
  <2>9. Recorded(entries', handles', hist', mainTrie') /\ Len(entries') <= MaxJournal
    BY <1>3, <2>1, <2>7, <2>8, Zenon
  <2>10. DataChange(h, tr)
    <3>1. tries'[tr] = RootOf(mainTrie'.acc[a])
      BY <1>2, <1>4, <2>1, Zenon
    <3> QED BY <1>1, <1>4, <2>1, <2>3, <2>5, <3>1, Zenon DEF DataChange
  <2>11. \A k \in 1..Len(entries') : k \in 1..Len(entries) \/ entries'[k].h = h
    BY <2>1, Zenon
  <2> QED BY <1>1, <2>1, <2>9, <2>10, <2>11, DataChangeStep, Zenon
<1>6. CASE Changed(dirty) # {}
  <2>1. /\ tries' = [withTrie EXCEPT ![tr] = newData]
        /\ Len(entries) + 1 <= MaxJournal /\ entries' = Append(entries, e)
        /\ handles' = [handles EXCEPT ![h] = Handle(a, x, tr)]
        /\ mainTrie' = SaveAccount(mainTrie, handles'[h]) /\ hist' = Append(hist, mainTrie')
    <3>1. /\ tries' = [withTrie EXCEPT ![tr] = newData]
          /\ Len(entries) + Len(<<e>>) <= MaxJournal /\ entries' = entries \o <<e>>
          /\ handles' = [handles EXCEPT ![h] = Handle(a, x, tr)]
          /\ mainTrie' = SaveAccount(mainTrie, handles'[h]) /\ hist' = Append(hist, mainTrie')
      BY <1>6, Zenon DEF SaveDataTrie, tr, withTrie, isNew, Journalize
    <3> HIDE DEF e, newData, x
    <3>2. Len(<<e>>) = 1 /\ entries \o <<e>> = Append(entries, e)
      BY <1>3
    <3> QED BY <3>1, <3>2, Zenon
  <2>2. newData \in DataMaps /\ old \in Updates /\ Merged(old, newData) = RootOf(x0)
    <3>1. PICK d \in DataMaps : d = withTrie[tr]
      <4>1. withTrie[tr] \in DataMaps
        BY <1>4, SeqElement, Zenon
      <4> QED BY <4>1, Zenon
    <3>2. PICK n, o : n = newData /\ o = old
      BY Zenon
    <3>3. n \in DataMaps /\ o \in Updates /\ Merged(o, n) = d
      BY <3>1, <3>2, MergedBack
    <3> QED BY <1>4, <3>1, <3>2, <3>3, Zenon
  <2>3. e \in Entries /\ ByHandle(e) /\ e.kind = "data" /\ e.h = h /\ e.old = old
    BY <1>2, <2>2, Zenon DEF Entries, ByHandle
  <2> HIDE DEF newData, old, e
  <2>4. newData # NilRoot
    BY <2>2, MissingAssumption, Zenon
  <2>5. /\ x \in Accounts /\ x.root = newData /\ x.codeHash = x0.codeHash /\ x.balance = x0.balance
        /\ x = [balance |-> x0.balance, codeHash |-> x0.codeHash, root |-> newData]
    BY <1>2, <2>2 DEF Accounts
  <2> HIDE DEF x
  <2>6. Covers(Undone(e, x), x0)
    <3>1. Undone(e, x) = [x EXCEPT !.root = RootOf(x0)]
      BY <2>2, <2>3, <2>5, Zenon DEF Undone
    <3>2. RootOf(x0) \in DataMaps
      BY <1>2, AccountFields, Values0, Zenon DEF RootOf
    <3>3. [x EXCEPT !.root = RootOf(x0)] = [balance |-> x0.balance, codeHash |-> x0.codeHash, root |-> RootOf(x0)]
      BY <2>5, <3>2 DEF Accounts
    <3>4. [x0 EXCEPT !.root = RootOf(x0)] = [balance |-> x0.balance, codeHash |-> x0.codeHash, root |-> RootOf(x0)]
      BY <1>2, <3>2 DEF Accounts
    <3>5. CASE x0.root = NilRoot
      <4>1. RootOf(x0) = EmptyMap
        BY <3>5, Zenon DEF RootOf
      <4>2. x0 # Absent
        BY <1>2, AccountFields, Zenon
      <4> QED BY <3>1, <3>3, <3>4, <3>5, <4>1, <4>2, Zenon DEF Covers
    <3>6. CASE x0.root # NilRoot
      <4>1. RootOf(x0) = x0.root
        BY <1>2, <3>6, AccountFields, Zenon DEF RootOf
      <4>2. x0 = [balance |-> x0.balance, codeHash |-> x0.codeHash, root |-> x0.root]
        BY <1>2, AccountFields, Zenon
      <4> QED BY <3>1, <3>3, <4>1, <4>2, Zenon DEF Covers
    <3> QED BY <3>5, <3>6, Zenon
  <2>7. PICK v : v = Handle(a, x, tr)
    BY Zenon
  <2>8. v \in Handles /\ v.addr = a /\ v.acc = x /\ v.tr = tr
    BY <1>2, <1>4, <2>5, <2>7, Zenon DEF Handle, Handles
  <2>9. handles' = [handles EXCEPT ![h] = v]
    BY <2>1, <2>7, Zenon
  <2>10. /\ handles' \in Seq(Handles) /\ Len(handles') = Len(handles) /\ handles'[h] = v
         /\ \A g \in 1..Len(handles) : g # h => handles'[g] = handles[g]
    BY <1>2, <1>3, <2>8, <2>9, SeqExcept
  <2>11. mainTrie' = SaveAccount(mainTrie, v)
    BY <2>1, <2>10, Zenon
  <2>12. /\ SaveAccount(mainTrie, v).acc[a] = x
         /\ \A b \in Addresses : b # a => SaveAccount(mainTrie, v).acc[b] = mainTrie.acc[b]
    <3> HIDE DEF x
    <3> QED BY <1>2, <1>3, <2>5, <2>8, SaveAccountFields
  <2>13. PICK gs : gs = handles'
    OBVIOUS
  <2>14. x.codeHash \in mainTrie.codes \cup {NoCode}
    <3>1. CodesIn(mainTrie)
      BY <1>3, RecordedCodes, Zenon
    <3>2. x0 # Absent
      BY <1>2, AccountFields
    <3> QED BY <1>2, <2>5, <3>1, <3>2, Zenon DEF CodesIn
  <2>15. Change(handles, gs, mainTrie, e)
    BY <1>2, <2>3, <2>4, <2>5, <2>6, <2>8, <2>10, <2>13, <2>14, Zenon DEF Change
  <2>16. Recorded(Append(entries, e), gs, Append(hist, SaveAccount(mainTrie, gs[e.h])), SaveAccount(mainTrie, gs[e.h]))
    <3>1. PICK f : f = e
      BY Zenon
    <3>2. Recorded(Append(entries, f), gs, Append(hist, SaveAccount(mainTrie, gs[f.h])), SaveAccount(mainTrie, gs[f.h]))
      BY <1>3, <2>15, <3>1, RecordChange, Zenon
    <3> QED BY <3>1, <3>2, Zenon
  <2>17. gs[e.h] = v
    BY <2>3, <2>10, <2>13, Zenon
  <2>18. Recorded(entries', handles', hist', mainTrie')
    BY <2>1, <2>11, <2>13, <2>16, <2>17, Zenon
  <2>19. /\ Len(entries') = Len(entries) + 1 /\ entries'[Len(entries) + 1] = e
         /\ \A k \in 1..Len(entries) : entries'[k] = entries[k]
         /\ Len(entries') <= MaxJournal
    BY <1>3, <2>1
  <2>20. \A k \in 1..Len(entries') : k \in 1..Len(entries) \/ entries'[k].h = h
    <3>1. \A k \in 1..Len(entries') : k \in 1..Len(entries) \/ k = Len(entries) + 1
      BY <1>3, <2>19
    <3> QED BY <2>3, <2>19, <3>1, Zenon
  <2>21. /\ tries' \in Seq(DataMaps) /\ Len(tries') = Len(withTrie) /\ tries'[tr] = newData
         /\ \A t \in 1..Len(withTrie) : t # tr => tries'[t] = withTrie[t]
    <3> HIDE DEF newData
    <3> QED BY <1>4, <2>1, <2>2, SeqExcept
  <2>22. DataChange(h, tr)
    <3>1. tries'[tr] = RootOf(mainTrie'.acc[a])
      <4>1. RootOf(x) = newData
        BY <2>4, <2>5, AccountFields, Zenon DEF RootOf
      <4> QED BY <2>11, <2>12, <2>21, <4>1, Zenon
    <3>2. \A t \in 1..Len(tries) : t # tr => tries'[t] = tries[t]
      <4>1. Len(withTrie) \in Nat /\ Len(tries) \in Nat /\ Len(tries) <= Len(withTrie)
        BY RestingTypes DEF withTrie, Resting
      <4>2. \A t \in 1..Len(tries) : t \in 1..Len(withTrie)
        BY <4>1
      <4> QED BY <1>4, <2>21, <4>2, Zenon
    <3>3. \A b \in Addresses : b # a => mainTrie'.acc[b] = mainTrie.acc[b]
      BY <2>11, <2>12, Zenon
    <3>4. handles'[h].addr = a /\ handles'[h].tr = tr
      BY <2>8, <2>10, Zenon
    <3> QED BY <1>1, <1>4, <2>10, <2>21, <3>1, <3>2, <3>3, <3>4, Zenon DEF DataChange
  <2> QED BY <1>1, <2>18, <2>19, <2>20, <2>22, DataChangeStep, Zenon
<1> QED BY <1>5, <1>6, Zenon
=============================================================================
