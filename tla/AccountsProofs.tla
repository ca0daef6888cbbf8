--------------------------- MODULE AccountsProofs ---------------------------
(***************************************************************************)
(* TLAPS proofs about AccountsDB, for any accounts, codes, keys, values    *)
(* and bounds: through block processing RevertToSnapshot brings back what  *)
(* could be read when the journal had the length of the snapshot, the data *)
(* trie in the holder is the one the account names, and Commit leaves a    *)
(* state that can be loaded again.                                         *)
(*                                                                         *)
(* JournalProofs has the invariant and the steps that add to the journal;  *)
(* here are the commit of a block, the steps that go back along the        *)
(* journal, and what follows from the invariant.                           *)
(***************************************************************************)
EXTENDS JournalProofs

-----------------------------------------------------------------------------
(* Commit, and the state of a block                                        *)

LEMMA RecordNothing ==
  ASSUME NEW m \in MainTries, CodesIn(m)
  PROVE  Recorded(<<>>, <<>>, <<m>>, m)
<1>1. /\ <<>> \in Seq(Entries) /\ <<>> \in Seq(Handles) /\ <<m>> \in Seq(MainTries)
      /\ Len(<<>>) = 0 /\ Len(<<m>>) = 1 /\ <<m>>[1] = m
  OBVIOUS
<1>2. PICK es, hs, hi : es = <<>> /\ hs = <<>> /\ hi = <<m>>
  BY Zenon
<1>3. /\ es \in Seq(Entries) /\ hs \in Seq(Handles) /\ hi \in Seq(MainTries)
      /\ Len(es) = 0 /\ Len(hi) = 1 /\ hi[1] = m
  BY <1>1, <1>2, Zenon
<1>4. EntriesOfHandles(es, hs)
  BY <1>3 DEF EntriesOfHandles
<1>5. \A i \in 1..(0 + 1) : i = 1
  OBVIOUS
<1>6. \A a \in Addresses : Lasts(m.acc[a], m.acc[a]) /\ Covers(m.acc[a], m.acc[a])
  BY CoversRefl, Zenon DEF Lasts
<1>7. Journal(es, hs, hi, 0)
  BY <1>3, <1>5, <1>6 DEF Journal
<1>8. HandlesFollow(es, hs, hi, 0)
  BY DEF HandlesFollow
<1>9. MainFollows(m, hi[0 + 1])
  BY <1>3, <1>6 DEF MainFollows
<1>10. Recorded(es, hs, hi, m)
  BY <1>3, <1>4, <1>7, <1>8, <1>9 DEF Recorded
<1> QED BY <1>2, <1>10, Zenon

LEMMA InitRests == Init => Resting
<1> SUFFICES ASSUME Init PROVE Resting
  BY Zenon
<1>1. /\ mainTrie \in MainTries /\ mainTrie.codes = {}
      /\ dataTries = [a \in Addresses |-> 0] /\ tries = <<>> /\ handles = <<>> /\ live = {}
      /\ entries = <<>> /\ reverting = NotReverting
      /\ loading = [p \in Goroutines |-> NotLoading]
      /\ db = [main |-> {mainTrie}, data |-> {mainTrie.acc[a].root : a \in WithData(mainTrie)}]
      /\ hist = <<mainTrie>>
  BY Zenon DEF Init
<1>2. CodesIn(mainTrie)
  <2>1. ASSUME NEW a \in Addresses, mainTrie.acc[a] # Absent
        PROVE  mainTrie.acc[a].codeHash = NoCode
    <3>1. mainTrie.acc[a] = NewAccount \/ \E d \in DataMaps : mainTrie.acc[a] = [NewAccount EXCEPT !.root = d]
      BY <2>1, Zenon DEF Init
    <3>2. NewAccount \in Accounts /\ NewAccount.codeHash = NoCode
      BY Values0, Zenon DEF NewAccount
    <3>3. \A d \in DataMaps : [NewAccount EXCEPT !.root = d].codeHash = NewAccount.codeHash
      BY <3>2, Zenon DEF Accounts
    <3> QED BY <3>1, <3>2, <3>3, Zenon
  <2> QED BY <2>1, Zenon DEF CodesIn
<1>3. Recorded(entries, handles, hist, mainTrie)
  BY <1>1, <1>2, RecordNothing, Zenon
<1>4. \A a \in Addresses : mainTrie.acc[a] \in MaybeAccounts
  BY <1>1, MainTrieFields, Zenon
<1>5. \A a \in WithData(mainTrie) : mainTrie.acc[a].root \in DataMaps /\ mainTrie.acc[a].root \in db.data
  <2> SUFFICES ASSUME NEW a \in WithData(mainTrie)
               PROVE  mainTrie.acc[a].root \in DataMaps /\ mainTrie.acc[a].root \in db.data
    BY Zenon
  <2>1. a \in Addresses /\ mainTrie.acc[a] # Absent /\ mainTrie.acc[a].root # NilRoot
    BY Zenon DEF WithData
  <2>2. mainTrie.acc[a] \in Accounts
    BY <1>4, <2>1, Zenon DEF MaybeAccounts
  <2> QED BY <1>1, <2>1, <2>2, AccountFields, Zenon
<1>6. db \in [main : SUBSET MainTries, data : SUBSET DataMaps]
  BY <1>1, <1>5, Zenon
<1>7. db.main = {mainTrie}
  BY <1>1, Zenon
<1>8. HolderFollows
  <2>1. \A a \in Addresses : RootOf(mainTrie.acc[a]) \in db.data \cup {EmptyMap}
    BY <1>5, Zenon DEF RootOf, WithData
  <2> QED BY <1>1, <2>1, Zenon DEF HolderFollows
<1>9. HolderApart /\ LiveIsNewest
  BY <1>1, Zenon DEF HolderApart, LiveIsNewest
<1>10. LoadingFollows /\ loading \in [Goroutines -> Loadings \cup {NotLoading}]
  BY <1>1, Zenon DEF LoadingFollows, Goroutines
<1>11. CommittedIsComplete
  BY <1>2, <1>5, <1>7, Zenon DEF CommittedIsComplete, CodesIn
<1>12. DataEntries(entries, handles, Len(entries))
  BY <1>1 DEF DataEntries
<1>13. /\ dataTries \in [Addresses -> 0..Len(tries)] /\ tries \in Seq(DataMaps)
       /\ Len(tries) <= MaxTries /\ Len(handles) <= MaxHandles /\ live \subseteq 1..Len(handles)
       /\ Len(entries) <= MaxJournal
  BY <1>1, DataAssumption
<1> QED BY <1>1, <1>3, <1>6, <1>8, <1>9, <1>10, <1>11, <1>12, <1>13, Zenon DEF Resting

\* What Commit persists of the data tries has the data of every account.
LEMMA HeldDataComplete ==
  ASSUME Resting
  PROVE  /\ HeldData \subseteq DataMaps
         /\ \A a \in Addresses : RootOf(mainTrie.acc[a]) \in db.data \cup HeldData \cup {EmptyMap}
<1>1. /\ tries \in Seq(DataMaps) /\ Len(tries) \in Nat /\ dataTries \in [Addresses -> 0..Len(tries)]
  BY RestingTypes, Zenon DEF Resting
<1>2. \A a \in Addresses : dataTries[a] # 0 => dataTries[a] \in 1..Len(tries)
  BY <1>1
<1>3. HeldData \subseteq DataMaps
  BY <1>1, <1>2 DEF HeldData
<1>4. ASSUME NEW a \in Addresses
      PROVE  RootOf(mainTrie.acc[a]) \in db.data \cup HeldData \cup {EmptyMap}
  <2>1. IF dataTries[a] = 0 THEN RootOf(mainTrie.acc[a]) \in db.data \cup {EmptyMap}
        ELSE tries[dataTries[a]] = RootOf(mainTrie.acc[a])
    BY Zenon DEF Resting, HolderFollows
  <2>2. dataTries[a] # 0 => tries[dataTries[a]] \in HeldData
    BY Zenon DEF HeldData
  <2> QED BY <2>1, <2>2, Zenon
<1> QED BY <1>3, <1>4, Zenon

LEMMA CommitStep ==
  ASSUME Resting, Commit
  PROVE  Resting'
<1>1. /\ mainTrie' = mainTrie /\ reverting' = NotReverting /\ loading' = loading
      /\ dataTries' = [a \in Addresses |-> 0]
      /\ tries' = <<>> /\ handles' = <<>> /\ live' = {} /\ entries' = <<>> /\ hist' = <<mainTrie>>
      /\ db' = [main |-> db.main \cup {mainTrie}, data |-> db.data \cup HeldData]
      /\ loading[Processor] = NotLoading
  BY Zenon DEF Commit, EndOfBlock, Idle
<1>2. /\ mainTrie \in MainTries /\ \A a \in Addresses : mainTrie.acc[a] \in MaybeAccounts
  BY RestingTypes, Zenon
<1>3. CodesIn(mainTrie)
  BY RecordedCodes, Zenon DEF Resting
<1>4. Recorded(<<>>, <<>>, <<mainTrie>>, mainTrie)
  <2>1. PICK m \in MainTries : m = mainTrie
    BY <1>2, Zenon
  <2>2. Recorded(<<>>, <<>>, <<m>>, m)
    BY <1>3, <2>1, RecordNothing, Zenon
  <2> QED BY <2>1, <2>2, Zenon
<1>5. Recorded(entries', handles', hist', mainTrie')
  BY <1>1, <1>4, Zenon
<1>6. db \in [main : SUBSET MainTries, data : SUBSET DataMaps]
  BY Zenon DEF Resting
<1>7. db'.main = db.main \cup {mainTrie} /\ db'.data = db.data \cup HeldData
      /\ db' \in [main : SUBSET MainTries, data : SUBSET DataMaps]
  BY <1>1, <1>2, <1>6, HeldDataComplete, Zenon
<1>8. \A a \in Addresses : RootOf(mainTrie.acc[a]) \in db'.data \cup {EmptyMap}
  BY <1>7, HeldDataComplete, Zenon
<1>9. HolderFollows'
  BY <1>1, <1>8, Zenon DEF HolderFollows
<1>10. HolderApart' /\ LiveIsNewest'
  BY <1>1, Zenon DEF HolderApart, LiveIsNewest
<1>11. LoadingFollows' /\ loading' \in [Goroutines -> Loadings \cup {NotLoading}]
  BY <1>1, Zenon DEF LoadingFollows, Resting
<1>12. CommittedIsComplete'
  <2>1. ASSUME NEW m \in db'.main
        PROVE  /\ \A a \in WithData(m) : m.acc[a].root \in db'.data \cup {EmptyMap}
               /\ \A a \in Addresses : m.acc[a] # Absent => m.acc[a].codeHash \in m.codes \cup {NoCode}
    <3>1. CASE m \in db.main
      BY <1>7, <3>1, Zenon DEF Resting, CommittedIsComplete
    <3>2. CASE m = mainTrie
      <4>1. \A a \in WithData(m) : m.acc[a].root \in db'.data \cup {EmptyMap}
        BY <1>8, <3>2, Zenon DEF WithData, RootOf
      <4> QED BY <1>3, <3>2, <4>1, Zenon DEF CodesIn
    <3> QED BY <1>7, <3>1, <3>2, Zenon
  <2> QED BY <2>1, Zenon DEF CommittedIsComplete
<1>13. DataEntries(entries, handles, Len(entries))'
  BY <1>1 DEF DataEntries
<1>14. /\ dataTries' \in [Addresses -> 0..Len(tries')] /\ tries' \in Seq(DataMaps)
       /\ Len(tries') <= MaxTries /\ Len(handles') <= MaxHandles /\ live' \subseteq 1..Len(handles')
       /\ Len(entries') <= MaxJournal
  BY <1>1, DataAssumption
<1> QED BY <1>1, <1>5, <1>7, <1>9, <1>10, <1>11, <1>12, <1>13, <1>14, Zenon DEF Resting

LEMMA CommitDataFailsStep ==
  ASSUME Resting, CommitDataFails
  PROVE  Resting'
<1>1. PICK saved \in SUBSET HeldData : db' = [db EXCEPT !.data = @ \cup saved]
  BY Zenon DEF CommitDataFails
<1>2. /\ mainTrie' = mainTrie /\ dataTries' = dataTries /\ tries' = tries /\ handles' = handles
      /\ live' = live /\ entries' = entries /\ reverting' = reverting /\ loading' = loading
      /\ hist' = hist
  BY Zenon DEF CommitDataFails
<1>3. db \in [main : SUBSET MainTries, data : SUBSET DataMaps]
  BY Zenon DEF Resting
<1>4. db'.main = db.main /\ db'.data = db.data \cup saved
      /\ db' \in [main : SUBSET MainTries, data : SUBSET DataMaps]
  BY <1>1, <1>3, HeldDataComplete, Zenon
<1>5. Recorded(entries', handles', hist', mainTrie')
  BY <1>2, Zenon DEF Resting
<1>6. HolderFollows' /\ HolderApart'
  BY <1>2, <1>4, Zenon DEF Resting, HolderFollows, HolderApart
<1>7. CommittedIsComplete'
  BY <1>4, Zenon DEF Resting, CommittedIsComplete
<1>8. DataEntries(entries, handles, Len(entries))' /\ LiveIsNewest' /\ LoadingFollows'
  BY <1>2, Zenon DEF Resting, DataEntries, LiveIsNewest, LoadingFollows
<1> QED BY <1>2, <1>4, <1>5, <1>6, <1>7, <1>8, Zenon DEF Resting
-----------------------------------------------------------------------------
(* RevertToSnapshot                                                        *)

LEMMA StartRevertStep ==
  ASSUME Resting, NEW s \in 0..Len(entries), StartRevert(s)
  PROVE  AccInv'
<1>1. AccInv
  BY RestingIn, Zenon
<1>2. /\ mainTrie' = mainTrie /\ dataTries' = dataTries /\ tries' = tries /\ handles' = handles
      /\ live' = live /\ entries' = entries /\ loading' = loading /\ db' = db /\ hist' = hist
      /\ loading[Processor] = NotLoading
      /\ reverting' = [target |-> s, pos |-> Len(entries)]
  BY Zenon DEF StartRevert, Idle
<1>3. Len(entries) \in Nat /\ s \in Nat /\ s <= Len(entries)
  BY RestingTypes
<1>4. /\ reverting' \in [target : Int, pos : Int]
      /\ reverting'.target = s /\ reverting'.pos = Len(entries)
  BY <1>2, <1>3
<1>5. reverting' # NotReverting
  BY <1>3, <1>4, NotRevertingType
<1>6. Pos' = Len(entries) /\ Pos = Len(entries)
  BY <1>2, <1>4, <1>5, Zenon DEF Pos, Resting
<1>7. TypeOK'
  <2>1. reverting'.target \in 0..Len(entries') /\ reverting'.pos \in reverting'.target..Len(entries')
    BY <1>2, <1>3, <1>4
  <2> QED BY <1>1, <1>2, <1>4, <2>1, Zenon DEF AccInv, TypeOK
<1>8. LoadingFollows' /\ HolderFollows' /\ HolderApart' /\ CommittedIsComplete'
  BY <1>1, <1>2, Zenon DEF AccInv, LoadingFollows, HolderFollows, HolderApart, CommittedIsComplete
<1>9. DataEntries(entries, handles, Pos)' /\ LiveIsNewest'
  BY <1>1, <1>2, <1>6, Zenon DEF AccInv, DataEntries, LiveIsNewest
<1>10. /\ EntriesOfHandles(entries', handles') /\ Journal(entries', handles', hist', Pos')
       /\ MainFollows(mainTrie', hist'[Pos' + 1]) /\ HandlesFollow(entries', handles', hist', Pos')
  BY <1>1, <1>2, <1>6, Zenon DEF AccInv
<1> QED BY <1>7, <1>8, <1>9, <1>10, Zenon DEF AccInv

\* Between two entries that an account object made one after the other nothing
\* happened to its account.
LEMMA LastUseBack ==
  ASSUME NEW es \in Seq(Entries), NEW hs, NEW hi \in Seq(MainTries), Len(hi) = Len(es) + 1,
         NEW p \in 1..Len(es), Journal(es, hs, hi, p), ByHandle(es[p]),
         NEW a \in Addresses, a = hs[es[p].h].addr, es[p].h \in Nat,
         NEW n \in 1..(p - 1), LastUse(es, n, p - 1), es[n].h = es[p].h
  PROVE  Covers(hi[p].acc[a], hi[n + 1].acc[a])
<1>1. /\ p \in Nat /\ p <= Len(es) /\ n \in 1..p /\ n < p /\ n \in Int
      /\ n + 1 \in 1..(p + 1) /\ p \in 1..(p + 1) /\ n + 1 <= p /\ n \in 1..p /\ p \in 1..p
  OBVIOUS
<1>2. Link(es[n], hs, hi[n], hi[n + 1]) /\ ByHandle(es[n])
  BY <1>1, Zenon DEF Journal, LastUse
<1>3. hi[n + 1].acc[a] # Absent
  BY <1>2, Zenon DEF Link, LinkAccount
<1>4. ASSUME NEW m \in (n + 1)..(p - 1) PROVE ~Touches(es[m], hs, a)
  <2>1. m \in Int /\ m \in 1..p /\ n < m /\ m < p /\ m \in 1..(p + 1) /\ n + 1 <= m /\ m \in 1..Len(es)
    BY <1>1
  <2>2. ASSUME ByHandle(es[m]), hs[es[m].h].addr = a PROVE FALSE
    <3>1. es[m].h # es[n].h
      BY <2>2, <1>4, Zenon DEF LastUse
    <3>2. es[n].h <= es[m].h
      BY <1>1, <1>2, <2>1, <2>2, Zenon DEF Journal
    <3>3. es[m].h <= es[p].h
      BY <1>1, <2>1, <2>2, Zenon DEF Journal
    <3>4. es[m] \in Entries
      BY <2>1
    <3>5. es[m].h \in Int
      BY <2>2, <3>4, EntryFields
    <3> QED BY <3>1, <3>2, <3>3, <3>5
  <2>3. ASSUME es[m].kind = "account", es[m].addr = a PROVE FALSE
    <3>1. Link(es[m], hs, hi[m], hi[m + 1])
      BY <2>1, Zenon DEF Journal
    <3>2. hi[m].acc[a] = Absent
      BY <2>3, <3>1, Zenon DEF Link
    <3>3. Lasts(hi[n + 1].acc[a], hi[m].acc[a])
      BY <1>1, <2>1, Zenon DEF Journal
    <3> QED BY <1>3, <3>2, <3>3, Zenon DEF Lasts
  <2> QED BY <2>2, <2>3, Zenon DEF Touches
<1> QED BY <1>1, <1>4, Zenon DEF Journal

\* Where a revert is.
RevertAt(p) ==
  /\ AccInv /\ reverting # NotReverting /\ p = reverting.pos /\ p > reverting.target
  /\ reverting' = [reverting EXCEPT !.pos = p - 1]
  /\ UNCHANGED <<dataTries, live, entries, loading, db, hist>>

LEMMA RevertAtFacts ==
  ASSUME NEW p, RevertAt(p)
  PROVE  /\ p \in 1..Len(entries) /\ p \in Nat /\ p - 1 \in Nat /\ Pos = p
         /\ reverting' # NotReverting /\ Pos' = p - 1
         /\ reverting' \in [target : Int, pos : Int]
         /\ reverting'.target \in 0..Len(entries) /\ reverting'.pos \in reverting'.target..Len(entries)
         /\ entries[p] \in Entries /\ Link(entries[p], handles, hist[p], hist[p + 1])
         /\ hist[p] \in MainTries /\ hist[p + 1] \in MainTries
         /\ Journal(entries, handles, hist, p) /\ Journal(entries, handles, hist, p - 1)
         /\ MainFollows(mainTrie, hist[p + 1]) /\ HandlesFollow(entries, handles, hist, p)
         /\ DataEntries(entries, handles, p) /\ LoadingFollows' /\ HolderApart'
         /\ CommittedIsComplete'
<1>1. /\ TypeOK /\ Journal(entries, handles, hist, Pos)
      /\ MainFollows(mainTrie, hist[Pos + 1]) /\ HandlesFollow(entries, handles, hist, Pos)
      /\ HolderApart /\ DataEntries(entries, handles, Pos) /\ LoadingFollows /\ CommittedIsComplete
      /\ reverting # NotReverting /\ p = reverting.pos /\ p > reverting.target
      /\ reverting' = [reverting EXCEPT !.pos = p - 1]
      /\ dataTries' = dataTries /\ live' = live /\ entries' = entries /\ loading' = loading
      /\ db' = db /\ hist' = hist
  BY Zenon DEF RevertAt, AccInv
<1>2. /\ reverting \in [target : Int, pos : Int] /\ reverting.target \in 0..Len(entries)
      /\ reverting.pos \in reverting.target..Len(entries) /\ Len(entries) \in Nat
      /\ entries \in Seq(Entries) /\ hist \in Seq(MainTries) /\ Len(hist) = Len(entries) + 1
  BY <1>1 DEF TypeOK
<1>3. p \in 1..Len(entries) /\ p \in Nat /\ p - 1 \in Nat /\ Pos = p
  BY <1>1, <1>2 DEF Pos
<1>4. /\ reverting' \in [target : Int, pos : Int] /\ reverting'.target = reverting.target
      /\ reverting'.pos = p - 1
  BY <1>1, <1>2, <1>3
<1>5. reverting' # NotReverting
  BY <1>3, <1>4, NotRevertingType
<1>6. Pos' = p - 1
  BY <1>4, <1>5, Zenon DEF Pos
<1>7. /\ reverting'.target \in 0..Len(entries) /\ reverting'.pos \in reverting'.target..Len(entries)
  BY <1>1, <1>2, <1>3, <1>4
<1>8. /\ entries[p] \in Entries /\ hist[p] \in MainTries /\ hist[p + 1] \in MainTries
  BY <1>2, <1>3
<1>9. Journal(entries, handles, hist, p)
  BY <1>1, <1>3, Zenon
<1>10. Link(entries[p], handles, hist[p], hist[p + 1])
  BY <1>3, <1>9 DEF Journal
<1>11. p - 1 <= p
  BY <1>3
<1>12. Journal(entries, handles, hist, p - 1)
  BY <1>3, <1>9, <1>11, JournalPrefix, Zenon
<1>13. LoadingFollows' /\ HolderApart' /\ CommittedIsComplete'
  BY <1>1, Zenon DEF LoadingFollows, HolderApart, CommittedIsComplete
<1> QED BY <1>1, <1>3, <1>4, <1>5, <1>6, <1>7, <1>8, <1>9, <1>10, <1>12, <1>13, Zenon

\* An entry that is not about an account object is reverted.
LEMMA RevertPlain ==
  ASSUME NEW p, RevertAt(p), ~ByHandle(entries[p]), handles' = handles, tries' = tries,
         mainTrie' \in MainTries, MainFollows(mainTrie', hist[p]),
         \A a \in Addresses : RootOf(mainTrie'.acc[a]) = RootOf(mainTrie.acc[a])
  PROVE  AccInv'
<1>1. /\ p \in 1..Len(entries) /\ p \in Nat /\ p - 1 \in Nat /\ Pos' = p - 1
      /\ reverting' # NotReverting
      /\ reverting' \in [target : Int, pos : Int]
      /\ reverting'.target \in 0..Len(entries) /\ reverting'.pos \in reverting'.target..Len(entries)
      /\ Journal(entries, handles, hist, p - 1) /\ HandlesFollow(entries, handles, hist, p)
      /\ DataEntries(entries, handles, p) /\ LoadingFollows' /\ HolderApart' /\ CommittedIsComplete'
  BY RevertAtFacts, Zenon
<1>2. /\ TypeOK /\ EntriesOfHandles(entries, handles) /\ HolderFollows /\ LiveIsNewest
      /\ dataTries' = dataTries /\ live' = live /\ entries' = entries /\ loading' = loading
      /\ db' = db /\ hist' = hist
  BY Zenon DEF RevertAt, AccInv
<1>3. TypeOK'
  BY <1>1, <1>2, Zenon DEF TypeOK
<1>4. HandlesFollow(entries, handles, hist, p - 1)
  <2> SUFFICES ASSUME NEW n \in 1..(p - 1), LastUse(entries, n, p - 1)
               PROVE  Covers(handles[entries[n].h].acc, hist[n + 1].acc[handles[entries[n].h].addr])
    BY Zenon DEF HandlesFollow
  <2>1. n \in 1..p /\ \A m \in (n + 1)..p : m \in (n + 1)..(p - 1) \/ m = p
    BY <1>1
  <2>2. LastUse(entries, n, p)
    BY <2>1, Zenon DEF LastUse
  <2> QED BY <1>1, <2>1, <2>2, Zenon DEF HandlesFollow
<1>5. DataEntries(entries, handles, Pos)'
  BY <1>1, <1>2 DEF DataEntries
<1>6. HolderFollows' /\ LiveIsNewest'
  BY <1>2, Zenon DEF HolderFollows, LiveIsNewest
<1>7. MainFollows(mainTrie', hist[(p - 1) + 1])
  BY <1>1
<1> QED BY <1>1, <1>2, <1>3, <1>4, <1>5, <1>6, <1>7, Zenon DEF AccInv
LEMMA RevertAccountStep ==
  ASSUME NEW p, RevertAt(p), entries[p].kind = "account", handles' = handles, tries' = tries,
         mainTrie' = [mainTrie EXCEPT !.acc[entries[p].addr] = Absent]
  PROVE  AccInv'
<1> DEFINE e == entries[p]
           a == e.addr
<1>1. /\ e \in Entries /\ Link(e, handles, hist[p], hist[p + 1])
      /\ hist[p] \in MainTries /\ hist[p + 1] \in MainTries /\ MainFollows(mainTrie, hist[p + 1])
  BY RevertAtFacts, Zenon
<1>2. a \in Addresses /\ ~ByHandle(e)
  BY <1>1, EntryFields, Zenon DEF ByHandle
<1>3. mainTrie \in MainTries
  BY Zenon DEF RevertAt, AccInv, TypeOK
<1> HIDE DEF a
<1>4. /\ mainTrie' \in MainTries /\ mainTrie'.codes = mainTrie.codes /\ mainTrie'.acc[a] = Absent
      /\ \A b \in Addresses : b # a => mainTrie'.acc[b] = mainTrie.acc[b]
  BY <1>2, <1>3, Zenon DEF MainTries, a
<1>5. /\ hist[p].acc[a] = Absent /\ hist[p + 1].acc[a] = NewAccount /\ hist[p].codes = hist[p + 1].codes
      /\ \A b \in Addresses : b # a => Covers(hist[p + 1].acc[b], hist[p].acc[b])
  BY <1>1, <1>2, Zenon DEF Link, Touches, a
<1>6. /\ \A b \in Addresses : Covers(mainTrie.acc[b], hist[p + 1].acc[b])
      /\ mainTrie.codes = hist[p + 1].codes
      /\ \A b \in Addresses : hist[p].acc[b] \in MaybeAccounts /\ hist[p + 1].acc[b] \in MaybeAccounts
  BY <1>1, MainTrieFields, Zenon DEF MainFollows
<1>7. MainFollows(mainTrie', hist[p])
  <2>1. ASSUME NEW b \in Addresses PROVE Covers(mainTrie'.acc[b], hist[p].acc[b])
    <3>1. CASE b = a
      BY <1>4, <1>5, <3>1, CoversRefl, Zenon
    <3>2. CASE b # a
      BY <1>4, <1>5, <1>6, <3>2, CoversTrans, Zenon
    <3> QED BY <3>1, <3>2, Zenon
  <2> QED BY <1>4, <1>5, <1>6, <2>1, Zenon DEF MainFollows
<1>8. RootOf(mainTrie.acc[a]) = RootOf(NewAccount)
  BY <1>2, <1>5, <1>6, CoversFields, Zenon
<1>9. RootOf(NewAccount) = EmptyMap /\ RootOf(Absent) = EmptyMap
  BY Zenon DEF RootOf, NewAccount
<1>10. \A b \in Addresses : RootOf(mainTrie'.acc[b]) = RootOf(mainTrie.acc[b])
  BY <1>4, <1>8, <1>9, Zenon
<1> QED BY <1>2, <1>4, <1>7, <1>10, RevertPlain, Zenon

LEMMA RevertCodeStep ==
  ASSUME NEW p, RevertAt(p), entries[p].kind = "code", handles' = handles, tries' = tries,
         mainTrie' = [mainTrie EXCEPT !.codes = @ \ {entries[p].code}]
  PROVE  AccInv'
<1> DEFINE e == entries[p]
<1>1. /\ Link(e, handles, hist[p], hist[p + 1])
      /\ hist[p] \in MainTries /\ hist[p + 1] \in MainTries /\ MainFollows(mainTrie, hist[p + 1])
  BY RevertAtFacts, Zenon
<1>2. mainTrie \in MainTries
  BY Zenon DEF RevertAt, AccInv, TypeOK
<1>3. /\ mainTrie' \in MainTries /\ mainTrie'.codes = mainTrie.codes \ {e.code}
      /\ mainTrie'.acc = mainTrie.acc
  BY <1>2, Zenon DEF MainTries
<1>4. /\ hist[p].codes = hist[p + 1].codes \ {e.code}
      /\ \A b \in Addresses : Covers(hist[p + 1].acc[b], hist[p].acc[b])
  BY <1>1, Zenon DEF Link, Touches, ByHandle
<1>5. /\ \A b \in Addresses : Covers(mainTrie.acc[b], hist[p + 1].acc[b])
      /\ mainTrie.codes = hist[p + 1].codes
      /\ \A b \in Addresses : hist[p].acc[b] \in MaybeAccounts
  BY <1>1, MainTrieFields, Zenon DEF MainFollows
<1>6. MainFollows(mainTrie', hist[p])
  <2>1. \A b \in Addresses : Covers(mainTrie.acc[b], hist[p].acc[b])
    BY <1>4, <1>5, CoversTrans, Zenon
  <2> QED BY <1>3, <1>4, <1>5, <2>1, Zenon DEF MainFollows
<1> QED BY <1>3, <1>6, RevertPlain, Zenon DEF ByHandle

\* Entry p is undone: e is the entry, h the account object, a its account, and
\* v what Revert makes of the object.
Undoes(p, e, h, a, v) ==
  /\ RevertAt(p) /\ e = entries[p] /\ ByHandle(e)
  /\ h = e.h /\ a = handles[h].addr /\ v = Reverted(e)

LEMMA RevertedFields ==
  ASSUME NEW p, NEW e, NEW h, NEW a, NEW v, Undoes(p, e, h, a, v)
  PROVE  /\ h \in 1..Len(handles) /\ a \in Addresses /\ handles[h] \in Handles /\ h \in Nat
         /\ v \in Handles /\ v.addr = a /\ v.tr = handles[h].tr
         /\ Covers(v.acc, hist[p].acc[a])
         /\ e.kind # "data" => /\ v.acc.root = handles[h].acc.root
                               /\ RootOf(v.acc) = RootOf(mainTrie.acc[a])
         /\ e.kind = "data" => /\ v.acc.root \in DataMaps
                               /\ handles[h].tr # 0 /\ handles[h].tr = dataTries[a]
<1> RevertAt(p) /\ e = entries[p] /\ ByHandle(e) /\ h = e.h /\ a = handles[h].addr /\ v = Reverted(e)
  BY Zenon DEF Undoes
<1>1. /\ e \in Entries /\ Link(e, handles, hist[p], hist[p + 1]) /\ p \in 1..Len(entries) /\ p \in Nat
      /\ hist[p] \in MainTries /\ hist[p + 1] \in MainTries /\ MainFollows(mainTrie, hist[p + 1])
      /\ HandlesFollow(entries, handles, hist, p) /\ DataEntries(entries, handles, p)
  BY RevertAtFacts, Zenon
<1>2. /\ handles \in Seq(Handles) /\ EntriesOfHandles(entries, handles) /\ HolderFollows
      /\ tries \in Seq(DataMaps) /\ dataTries \in [Addresses -> 0..Len(tries)]
  BY Zenon DEF RevertAt, AccInv, TypeOK
<1>3. h \in 1..Len(handles) /\ handles[h] \in Handles /\ h \in Nat
  BY <1>1, <1>2 DEF EntriesOfHandles
<1>4. a \in Addresses /\ handles[h].acc \in Accounts
  BY <1>3, HandleFields, Zenon
<1>5. PICK y0, y1 : y0 = hist[p].acc[a] /\ y1 = hist[p + 1].acc[a]
  BY Zenon
<1>6. y0 \in MaybeAccounts /\ y1 \in MaybeAccounts /\ Covers(mainTrie.acc[a], y1)
  BY <1>1, <1>4, <1>5, MainTrieFields, Zenon DEF MainFollows
<1>7. LinkAccount(e, y0, y1)
  BY <1>1, <1>5, Zenon DEF Link
<1>8. Covers(handles[h].acc, y1)
  <2>1. p \in 1..p /\ (p + 1)..p = {}
    BY <1>1
  <2>2. LastUse(entries, p, p)
    BY <2>1, Zenon DEF LastUse
  <2> QED BY <1>1, <1>5, <2>1, <2>2, Zenon DEF HandlesFollow
<1>9. PICK x, u : x = handles[h].acc /\ u = Undone(e, x)
  BY Zenon
<1>10. u \in Accounts /\ Covers(u, y0)
  BY <1>1, <1>6, <1>7, <1>8, <1>9, UndoneCovers, Zenon
<1>11. /\ e.kind = "data" => e.old \in Updates
       /\ e.kind = "balance" => e.old \in Balances
       /\ e.kind = "codeHash" => e.old \in Codes \cup {NoCode}
       /\ e.kind \in {"balance", "codeHash", "data"}
  BY <1>1, EntryFields, Zenon DEF ByHandle
<1>12. ASSUME e.kind = "data"
       PROVE  /\ handles[h].tr # 0 /\ handles[h].tr = dataTries[a]
              /\ x.root = tries[handles[h].tr] /\ x.root \in DataMaps
  <2>1. handles[h].tr # 0 /\ handles[h].tr = dataTries[a]
    BY <1>1, <1>12 DEF DataEntries
  <2>2. y1 # Absent /\ y1.root # NilRoot
    BY <1>7, <1>12, Zenon DEF LinkAccount
  <2>3. x = y1 /\ mainTrie.acc[a] = y1
    BY <1>6, <1>8, <1>9, <2>2, CoversFields, Zenon
  <2>4. tries[dataTries[a]] = RootOf(mainTrie.acc[a])
    BY <1>2, <1>4, <2>1, Zenon DEF HolderFollows
  <2>5. x.root \in DataMaps
    BY <1>4, <1>9, <2>2, <2>3, AccountFields, Zenon
  <2> QED BY <2>1, <2>2, <2>3, <2>4, <2>5, Zenon DEF RootOf
<1>13. x \in Accounts
  BY <1>4, <1>9, Zenon
<1>14. Reverted(e) = [addr |-> a, acc |-> u, tr |-> handles[h].tr]
  <2>1. \A z : [handles[h] EXCEPT !.acc = z] = [addr |-> a, acc |-> z, tr |-> handles[h].tr]
    BY <1>3 DEF Handles
  <2>2. CASE e.kind = "balance"
    <3>1. u = [x EXCEPT !.balance = e.old]
      BY <1>9, <2>2, Zenon DEF Undone
    <3>2. Reverted(e) = [handles[h] EXCEPT !.acc.balance = e.old]
      BY <2>2, Zenon DEF Reverted
    <3>3. Reverted(e) = [handles[h] EXCEPT !.acc = [x EXCEPT !.balance = e.old]]
      BY <1>9, <3>2, Zenon
    <3> QED BY <2>1, <3>1, <3>3, Zenon
  <2>3. CASE e.kind = "codeHash"
    <3>1. u = [x EXCEPT !.codeHash = e.old]
      BY <1>9, <2>3, Zenon DEF Undone
    <3>2. Reverted(e) = [handles[h] EXCEPT !.acc.codeHash = e.old]
      BY <2>3, Zenon DEF Reverted
    <3>3. Reverted(e) = [handles[h] EXCEPT !.acc = [x EXCEPT !.codeHash = e.old]]
      BY <1>9, <3>2, Zenon
    <3> QED BY <2>1, <3>1, <3>3, Zenon
  <2>4. CASE e.kind = "data"
    <3>1. u = [x EXCEPT !.root = Merged(e.old, x.root)]
      BY <1>9, <2>4, Zenon DEF Undone
    <3>2. Reverted(e) = [handles[h] EXCEPT !.acc.root = Merged(e.old, tries[handles[h].tr])]
      BY <2>4, Zenon DEF Reverted, Merged
    <3>3. Reverted(e) = [handles[h] EXCEPT !.acc = [x EXCEPT !.root = Merged(e.old, x.root)]]
      BY <1>9, <1>12, <2>4, <3>2, Zenon
    <3> QED BY <2>1, <3>1, <3>3, Zenon
  <2> QED BY <1>11, <2>2, <2>3, <2>4, Zenon
<1>15. handles[h].tr \in 0..MaxTries
  BY <1>3, HandleFields, Zenon
<1>16. Reverted(e) \in Handles /\ Reverted(e).addr = a /\ Reverted(e).tr = handles[h].tr
       /\ Reverted(e).acc = u
  BY <1>4, <1>10, <1>14, <1>15 DEF Handles
<1>17. ASSUME e.kind # "data"
       PROVE  u.root = x.root /\ RootOf(u) = RootOf(mainTrie.acc[a])
  <2>1. u.root = x.root
    <3>1. CASE e.kind = "balance"
      BY <1>9, <1>11, <1>13, <3>1, WithFields, Zenon DEF Undone, Accounts
    <3>2. CASE e.kind = "codeHash"
      BY <1>9, <1>11, <1>13, <3>2, WithFields, Zenon DEF Undone, Accounts
    <3> QED BY <1>11, <1>17, <3>1, <3>2, Zenon
  <2>2. RootOf(u) = RootOf(x)
    BY <1>10, <1>13, <2>1, AccountFields, Zenon DEF RootOf
  <2>3. RootOf(x) = RootOf(y1) /\ RootOf(mainTrie.acc[a]) = RootOf(y1)
    <3>1. Covers(x, y1)
      BY <1>8, <1>9, Zenon
    <3> QED BY <1>6, <3>1, CoversFields, Zenon
  <2> QED BY <2>1, <2>2, <2>3, Zenon
<1>18. ASSUME e.kind = "data" PROVE u.root \in DataMaps
  <2>1. Merged(e.old, x.root) \in DataMaps
    BY <1>11, <1>12, <1>18, MergedType, Zenon
  <2>2. u = [x EXCEPT !.root = Merged(e.old, x.root)]
    BY <1>9, <1>18 DEF Undone
  <2> QED BY <1>13, <2>1, <2>2, Zenon DEF Accounts
<1> QED BY <1>3, <1>4, <1>5, <1>9, <1>10, <1>12, <1>16, <1>17, <1>18, Zenon
LEMMA RevertByHandleStep ==
  ASSUME NEW p, RevertAt(p), NEW e, e = entries[p], ByHandle(e),
         handles' = [handles EXCEPT ![e.h] = Reverted(e)], tries' = RevertedTries(e),
         mainTrie' = SaveAccount(mainTrie, handles'[e.h])
  PROVE  AccInv'
<1>1. PICK h : h = e.h
  BY Zenon
<1>2. PICK a : a = handles[h].addr
  BY Zenon
<1>3. PICK v : v = Reverted(e)
  BY Zenon
<1>4. /\ h \in 1..Len(handles) /\ a \in Addresses /\ handles[h] \in Handles /\ h \in Nat
      /\ v \in Handles /\ v.addr = a /\ v.tr = handles[h].tr
      /\ Covers(v.acc, hist[p].acc[a])
      /\ e.kind # "data" => /\ v.acc.root = handles[h].acc.root
                            /\ RootOf(v.acc) = RootOf(mainTrie.acc[a])
      /\ e.kind = "data" => /\ v.acc.root \in DataMaps
                            /\ handles[h].tr # 0 /\ handles[h].tr = dataTries[a]
  <2>1. Undoes(p, e, h, a, v)
    BY <1>1, <1>2, <1>3, Zenon DEF Undoes
  <2> QED BY <2>1, RevertedFields
<1>5. /\ p \in 1..Len(entries) /\ p \in Nat /\ p - 1 \in Nat /\ Pos' = p - 1
      /\ reverting' # NotReverting
      /\ reverting' \in [target : Int, pos : Int]
      /\ reverting'.target \in 0..Len(entries) /\ reverting'.pos \in reverting'.target..Len(entries)
      /\ e \in Entries /\ Link(e, handles, hist[p], hist[p + 1])
      /\ hist[p] \in MainTries /\ hist[p + 1] \in MainTries
      /\ Journal(entries, handles, hist, p) /\ Journal(entries, handles, hist, p - 1)
      /\ MainFollows(mainTrie, hist[p + 1]) /\ HandlesFollow(entries, handles, hist, p)
      /\ DataEntries(entries, handles, p)
  BY RevertAtFacts, Zenon
<1>6. LoadingFollows' /\ HolderApart' /\ CommittedIsComplete'
  BY RevertAtFacts, Zenon
<1>7. /\ TypeOK /\ EntriesOfHandles(entries, handles) /\ HolderFollows /\ LiveIsNewest /\ HolderApart
      /\ dataTries' = dataTries /\ live' = live /\ entries' = entries /\ loading' = loading
      /\ db' = db /\ hist' = hist
  BY Zenon DEF RevertAt, AccInv
<1>8. /\ handles \in Seq(Handles) /\ Len(handles) \in Nat /\ mainTrie \in MainTries
      /\ tries \in Seq(DataMaps) /\ Len(tries) \in Nat /\ dataTries \in [Addresses -> 0..Len(tries)]
      /\ entries \in Seq(Entries) /\ hist \in Seq(MainTries) /\ Len(hist) = Len(entries) + 1
      /\ live \subseteq 1..Len(handles)
  BY <1>7 DEF TypeOK
<1>9. /\ handles' \in Seq(Handles) /\ Len(handles') = Len(handles) /\ handles'[h] = v
      /\ \A g \in 1..Len(handles) : g # h => handles'[g] = handles[g]
  <2>1. handles' = [handles EXCEPT ![h] = v]
    BY <1>1, <1>3, Zenon
  <2>2. /\ [handles EXCEPT ![h] = v] \in Seq(Handles) /\ Len([handles EXCEPT ![h] = v]) = Len(handles)
        /\ [handles EXCEPT ![h] = v][h] = v
        /\ \A j \in 1..Len(handles) : j # h => [handles EXCEPT ![h] = v][j] = handles[j]
    BY <1>4, <1>8, SeqExcept
  <2> QED BY <2>1, <2>2, Zenon
<1>10. \A g \in 1..Len(handles) : handles'[g].addr = handles[g].addr /\ handles'[g].tr = handles[g].tr
  BY <1>2, <1>4, <1>9, Zenon
<1>11. \A n \in 1..Len(entries) : ByHandle(entries[n]) => entries[n].h \in 1..Len(handles)
  BY <1>7, Zenon DEF EntriesOfHandles
<1>12. EntriesOfHandles(entries', handles')
  BY <1>7, <1>9, <1>11, Zenon DEF EntriesOfHandles
<1>13. Journal(entries, handles', hist, p - 1)
  <2>1. \A n \in 1..(p - 1) : n \in 1..Len(entries)
    BY <1>5
  <2>2. \A n \in 1..(p - 1) : ByHandle(entries[n]) => handles'[entries[n].h].addr = handles[entries[n].h].addr
    BY <1>10, <1>11, <2>1, Zenon
  <2>3. PICK gs, q : gs = handles' /\ q = p - 1
    BY Zenon
  <2>4. /\ q \in Nat /\ Journal(entries, handles, hist, q)
        /\ \A n \in 1..q : ByHandle(entries[n]) => gs[entries[n].h].addr = handles[entries[n].h].addr
    BY <1>5, <2>2, <2>3, Zenon
  <2>5. Journal(entries, gs, hist, q)
    BY <2>4, JournalSameAddrs, Zenon
  <2> QED BY <2>3, <2>5, Zenon
<1>14. v.addr \in Addresses /\ v.acc \in Accounts
  BY <1>4, HandleFields, Zenon
<1>15. mainTrie' = SaveAccount(mainTrie, v)
  BY <1>1, <1>9, Zenon
<1>16. /\ mainTrie' \in MainTries /\ mainTrie'.codes = mainTrie.codes /\ mainTrie'.acc[a] = v.acc
       /\ \A b \in Addresses : b # a => mainTrie'.acc[b] = mainTrie.acc[b]
  <2>1. mainTrie \in MainTries /\ v.addr = a
    BY <1>4, <1>8, Zenon
  <2> QED BY <1>14, <1>15, <2>1, SaveAccountFields
<1>17. MainFollows(mainTrie', hist[(p - 1) + 1])
  <2>1. /\ hist[p].codes = hist[p + 1].codes
        /\ \A b \in Addresses : b # a => Covers(hist[p + 1].acc[b], hist[p].acc[b])
    BY <1>1, <1>2, <1>5, Zenon DEF Link, Touches, ByHandle
  <2>2. /\ \A b \in Addresses : Covers(mainTrie.acc[b], hist[p + 1].acc[b])
        /\ mainTrie.codes = hist[p + 1].codes
        /\ \A b \in Addresses : hist[p].acc[b] \in MaybeAccounts
    BY <1>5, MainTrieFields, Zenon DEF MainFollows
  <2>3. ASSUME NEW b \in Addresses PROVE Covers(mainTrie'.acc[b], hist[p].acc[b])
    <3>1. CASE b = a
      BY <1>4, <1>16, <3>1, Zenon
    <3>2. CASE b # a
      BY <1>16, <2>1, <2>2, <3>2, CoversTrans, Zenon
    <3> QED BY <3>1, <3>2, Zenon
  <2>4. (p - 1) + 1 = p
    BY <1>5
  <2> QED BY <1>16, <2>1, <2>2, <2>3, <2>4, Zenon DEF MainFollows
<1>18. HandlesFollow(entries, handles', hist, p - 1)
  <2> SUFFICES ASSUME NEW n \in 1..(p - 1), LastUse(entries, n, p - 1)
               PROVE  Covers(handles'[entries[n].h].acc, hist[n + 1].acc[handles'[entries[n].h].addr])
    BY Zenon DEF HandlesFollow
  <2>1. /\ n \in 1..p /\ n \in 1..Len(entries) /\ n + 1 \in 1..Len(hist)
        /\ \A m \in (n + 1)..p : m \in (n + 1)..(p - 1) \/ m = p
    BY <1>5, <1>8
  <2>2. ByHandle(entries[n]) /\ entries[n].h \in 1..Len(handles)
    BY <1>11, <2>1, Zenon DEF LastUse
  <2>3. CASE entries[n].h # h
    <3>1. LastUse(entries, n, p)
      BY <1>1, <2>1, <2>3, Zenon DEF LastUse
    <3>2. Covers(handles[entries[n].h].acc, hist[n + 1].acc[handles[entries[n].h].addr])
      BY <1>5, <2>1, <3>1, Zenon DEF HandlesFollow
    <3> QED BY <1>9, <2>2, <2>3, <3>2, Zenon
  <2>4. CASE entries[n].h = h
    <3>1. Covers(hist[p].acc[a], hist[n + 1].acc[a])
      BY <1>1, <1>2, <1>4, <1>5, <1>8, <2>4, LastUseBack, Zenon
    <3>2. hist[n + 1] \in MainTries
      BY <1>8, <2>1
    <3>3. hist[n + 1].acc[a] \in MaybeAccounts
      BY <1>4, <3>2, MainTrieFields, Zenon
    <3>4. Covers(v.acc, hist[n + 1].acc[a])
      BY <1>4, <3>1, <3>3, CoversTrans, Zenon
    <3> QED BY <1>4, <1>9, <2>4, <3>4, Zenon
  <2> QED BY <2>3, <2>4, Zenon
<1>19. DataEntries(entries, handles, Pos)'
  <2> SUFFICES ASSUME NEW n \in 1..(p - 1), entries[n].kind = "data"
               PROVE  /\ handles'[entries[n].h].tr # 0
                      /\ handles'[entries[n].h].tr = dataTries[handles'[entries[n].h].addr]
    BY <1>5, <1>7, Zenon DEF DataEntries
  <2>1. n \in 1..p /\ n \in 1..Len(entries)
    BY <1>5
  <2>2. entries[n].h \in 1..Len(handles)
    BY <1>11, <2>1, Zenon DEF ByHandle
  <2>3. handles[entries[n].h].tr # 0 /\ handles[entries[n].h].tr = dataTries[handles[entries[n].h].addr]
    BY <1>5, <2>1, Zenon DEF DataEntries
  <2> QED BY <1>10, <2>2, <2>3, Zenon
<1>20. LiveIsNewest'
  <2>1. ASSUME NEW g \in live
        PROVE  handles'[g].tr = 0 => handles'[g].acc.root = handles[g].acc.root
    <3>1. g \in 1..Len(handles)
      BY <1>8, Zenon
    <3>2. CASE g # h
      BY <1>9, <3>1, <3>2, Zenon
    <3>3. CASE g = h
      BY <1>4, <1>9, <3>3, Zenon
    <3> QED BY <3>2, <3>3, Zenon
  <2>2. ASSUME NEW g \in live
        PROVE  /\ \A f \in 1..Len(handles') : handles'[f].addr = handles'[g].addr => f <= g
               /\ IF handles'[g].tr = 0 THEN handles'[g].acc.root = NilRoot
                  ELSE handles'[g].tr = dataTries[handles'[g].addr]
    <3>1. g \in 1..Len(handles) /\ handles'[g].addr = handles[g].addr /\ handles'[g].tr = handles[g].tr
      BY <1>8, <1>10, Zenon
    <3>2. /\ \A f \in 1..Len(handles) : handles[f].addr = handles[g].addr => f <= g
          /\ IF handles[g].tr = 0 THEN handles[g].acc.root = NilRoot
             ELSE handles[g].tr = dataTries[handles[g].addr]
      BY <1>7, Zenon DEF LiveIsNewest
    <3>3. \A f \in 1..Len(handles') : handles'[f].addr = handles'[g].addr => f <= g
      BY <1>9, <1>10, <3>1, <3>2, Zenon
    <3> QED BY <2>1, <3>1, <3>2, <3>3, Zenon
  <2> QED BY <1>7, <2>2, Zenon DEF LiveIsNewest
<1>21. /\ tries' \in Seq(DataMaps) /\ Len(tries') = Len(tries)
       /\ e.kind # "data" => tries' = tries
       /\ e.kind = "data" => /\ tries'[dataTries[a]] = v.acc.root
                             /\ \A t \in 1..Len(tries) : t # dataTries[a] => tries'[t] = tries[t]
  <2>1. CASE e.kind # "data"
    BY <1>8, <2>1, Zenon DEF RevertedTries
  <2>2. CASE e.kind = "data"
    <3>1. PICK d, t : d = v.acc.root /\ t = dataTries[a]
      BY Zenon
    <3>2. d \in DataMaps /\ t \in 1..Len(tries)
      BY <1>4, <1>8, <2>2, <3>1
    <3>3. tries' = [tries EXCEPT ![t] = d]
      BY <1>1, <1>3, <1>4, <2>2, <3>1, Zenon DEF RevertedTries
    <3>4. /\ [tries EXCEPT ![t] = d] \in Seq(DataMaps) /\ Len([tries EXCEPT ![t] = d]) = Len(tries)
          /\ [tries EXCEPT ![t] = d][t] = d
          /\ \A j \in 1..Len(tries) : j # t => [tries EXCEPT ![t] = d][j] = tries[j]
      BY <1>8, <3>2, SeqExcept
    <3> QED BY <2>2, <3>1, <3>3, <3>4, Zenon
  <2> QED BY <2>1, <2>2, Zenon
<1>22. HolderFollows'
  <2>1. ASSUME NEW b \in Addresses
        PROVE  IF dataTries[b] = 0 THEN RootOf(mainTrie'.acc[b]) \in db.data \cup {EmptyMap}
               ELSE tries'[dataTries[b]] = RootOf(mainTrie'.acc[b])
    <3>1. IF dataTries[b] = 0 THEN RootOf(mainTrie.acc[b]) \in db.data \cup {EmptyMap}
          ELSE tries[dataTries[b]] = RootOf(mainTrie.acc[b])
      BY <1>7, Zenon DEF HolderFollows
    <3>2. CASE e.kind # "data"
      <4>1. RootOf(mainTrie'.acc[b]) = RootOf(mainTrie.acc[b])
        BY <1>4, <1>16, <3>2, Zenon
      <4> QED BY <1>21, <3>1, <3>2, <4>1, Zenon
    <3>3. CASE e.kind = "data" /\ b = a
      <4>1. RootOf(v.acc) = v.acc.root
        BY <1>4, <1>14, <3>3, AccountFields, MissingAssumption, Zenon DEF RootOf
      <4> QED BY <1>4, <1>16, <1>21, <3>3, <4>1, Zenon
    <3>4. CASE e.kind = "data" /\ b # a
      <4>1. dataTries[b] # 0 => dataTries[b] # dataTries[a] /\ dataTries[b] \in 1..Len(tries)
        BY <1>4, <1>7, <1>8, <3>4 DEF HolderApart
      <4> QED BY <1>16, <1>21, <3>1, <3>4, <4>1, Zenon
    <3> QED BY <3>2, <3>3, <3>4, Zenon
  <2> QED BY <1>7, <2>1, Zenon DEF HolderFollows
<1>23. TypeOK'
  BY <1>5, <1>7, <1>9, <1>16, <1>21, Zenon DEF TypeOK
<1> QED BY <1>5, <1>6, <1>7, <1>12, <1>13, <1>17, <1>18, <1>19, <1>20, <1>22, <1>23, Zenon DEF AccInv

LEMMA RevertEntryStep ==
  ASSUME AccInv, RevertEntry
  PROVE  AccInv'
<1>1. PICK p : p = reverting.pos
  BY Zenon
<1>2. RevertAt(p)
  BY <1>1, Zenon DEF RevertAt, RevertEntry
<1>3. CASE /\ entries[p].kind = "account" /\ handles' = handles /\ tries' = tries
           /\ mainTrie' = [mainTrie EXCEPT !.acc[entries[p].addr] = Absent]
  BY <1>2, <1>3, RevertAccountStep, Zenon
<1>4. CASE /\ entries[p].kind = "code" /\ handles' = handles /\ tries' = tries
           /\ mainTrie' = [mainTrie EXCEPT !.codes = @ \ {entries[p].code}]
  BY <1>2, <1>4, RevertCodeStep, Zenon
<1>5. CASE /\ entries[p].kind \in {"balance", "codeHash", "data"}
           /\ handles' = [handles EXCEPT ![entries[p].h] = Reverted(entries[p])]
           /\ tries' = RevertedTries(entries[p])
           /\ mainTrie' = SaveAccount(mainTrie, handles'[entries[p].h])
  <2>1. PICK e : e = entries[p]
    BY Zenon
  <2>2. /\ ByHandle(e) /\ handles' = [handles EXCEPT ![e.h] = Reverted(e)]
        /\ tries' = RevertedTries(e) /\ mainTrie' = SaveAccount(mainTrie, handles'[e.h])
    BY <1>5, <2>1, Zenon DEF ByHandle
  <2> QED BY <1>2, <2>1, <2>2, RevertByHandleStep, Zenon
<1> QED BY <1>1, <1>3, <1>4, <1>5, Zenon DEF RevertEntry

-----------------------------------------------------------------------------
(* The end of a revert: the journal is cut, and with it the account        *)
(* objects that only the cut entries held                                  *)

\* The theorems on well-founded relations give the greatest element of a
\* bounded set of numbers.
INSTANCE WellFoundedInduction

LEMMA GreatestNatural ==
  ASSUME NEW N \in Nat, NEW S \in SUBSET (0..N), S # {}
  PROVE  Max(S) \in S /\ \A m \in S : m <= Max(S)
<1> DEFINE T == {n \in Nat : N - n \in S}
           R == OpToRel(<, Nat)
<1>1. IsWellFoundedOn(R, Nat)
  BY NatLessThanWellFounded, Zenon
<1>2. \A x, y \in Nat : x < y => <<x, y>> \in R
  BY Zenon DEF OpToRel
<1>3. T \subseteq Nat /\ T # {}
  <2>1. PICK s \in S : s \in 0..N
    BY Zenon
  <2>2. N - s \in Nat /\ N - (N - s) = s
    BY <2>1
  <2> QED BY <2>1, <2>2, Zenon
<1> HIDE DEF R
<1>4. PICK n \in T : \A m \in T : ~ (<<m, n>> \in R)
  <2> HIDE DEF T
  <2> QED BY <1>1, <1>3, WFMin, Zenon
<1>5. N - n \in S /\ n \in Nat
  BY <1>4, Zenon
<1>6. ASSUME NEW m \in S PROVE N - n >= m
  <2>1. m \in 0..N
    BY Zenon
  <2>2. N - m \in Nat /\ N - (N - m) = m
    BY <2>1
  <2>3. N - m \in T
    BY <2>2, Zenon
  <2>4. ~ (N - m < n)
    BY <1>2, <1>4, <1>5, <2>2, <2>3, Zenon
  <2> QED BY <1>5, <2>1, <2>4
<1>7. \E x \in S : \A y \in S : x >= y
  BY <1>5, <1>6, Zenon
<1>8. Max(S) \in S /\ \A y \in S : Max(S) >= y
  BY <1>7, Zenon DEF Max
<1>9. \A y \in S : y \in Int
  OBVIOUS
<1> QED BY <1>8, <1>9, Zenon

LEMMA LastHandleBounds ==
  ASSUME NEW es \in Seq(Entries), NEW N \in Nat,
         \A n \in 1..Len(es) : ByHandle(es[n]) => es[n].h \in 1..N
  PROVE  /\ LastHandle(es) \in 0..N
         /\ \A n \in 1..Len(es) : ByHandle(es[n]) => es[n].h \in 1..LastHandle(es)
<1> DEFINE J == {j \in 1..Len(es) : "h" \in DOMAIN es[j]}
           S == {0} \cup {es[i].h : i \in J}
<1>1. \A n \in 1..Len(es) : ("h" \in DOMAIN es[n]) <=> ByHandle(es[n])
  <2> SUFFICES ASSUME NEW n \in 1..Len(es) PROVE ("h" \in DOMAIN es[n]) <=> ByHandle(es[n])
    BY Zenon
  <2>1. es[n] \in Entries
    OBVIOUS
  <2> QED BY <2>1, Zenon DEF Entries, ByHandle
<1>2. J = {j \in 1..Len(es) : ByHandle(es[j])}
  BY <1>1, Zenon
<1>3. S \in SUBSET (0..N) /\ S # {}
  BY <1>2
<1>4. LastHandle(es) = Max(S)
  BY Zenon DEF LastHandle
<1>5. \A n \in 1..Len(es) : ByHandle(es[n]) => es[n].h \in S
  BY <1>2, Zenon
<1> HIDE DEF S
<1>6. Max(S) \in S /\ \A m \in S : m <= Max(S)
  BY <1>3, GreatestNatural, Zenon
<1>7. Max(S) \in 0..N
  BY <1>3, <1>6, Zenon
<1> QED BY <1>4, <1>5, <1>6, <1>7
LEMMA SubSeqFacts ==
  ASSUME NEW S, NEW s \in Seq(S), NEW n \in 0..Len(s)
  PROVE  /\ SubSeq(s, 1, n) \in Seq(S) /\ Len(SubSeq(s, 1, n)) = n
         /\ \A i \in 1..n : SubSeq(s, 1, n)[i] = s[i]
OBVIOUS

\* A shorter journal and the account objects that it still refers to.
Shortened(es, hs, hi, t, fs, gs, gi) ==
  /\ fs = SubSeq(es, 1, t) /\ gs = SubSeq(hs, 1, LastHandle(fs)) /\ gi = SubSeq(hi, 1, t + 1)

\* A journal whose first t entries agree with a trie.
FollowedTo(es, hs, hi, t, main) ==
  /\ es \in Seq(Entries) /\ hs \in Seq(Handles) /\ hi \in Seq(MainTries)
  /\ Len(hi) = Len(es) + 1 /\ EntriesOfHandles(es, hs)
  /\ t \in 0..Len(es) /\ Journal(es, hs, hi, t) /\ HandlesFollow(es, hs, hi, t)
  /\ main \in MainTries /\ MainFollows(main, hi[t + 1])

LEMMA RecordPrefix ==
  ASSUME NEW es, NEW hs, NEW hi, NEW t, NEW main, FollowedTo(es, hs, hi, t, main),
         NEW fs, NEW gs, NEW gi, Shortened(es, hs, hi, t, fs, gs, gi)
  PROVE  /\ Recorded(fs, gs, gi, main)
         /\ Len(fs) = t /\ (\A n \in 1..t : fs[n] = es[n])
         /\ Len(gs) <= Len(hs)
         /\ \A n \in 1..t : ByHandle(fs[n]) => gs[fs[n].h] = hs[es[n].h]
<1>0. /\ es \in Seq(Entries) /\ hs \in Seq(Handles) /\ hi \in Seq(MainTries)
      /\ Len(hi) = Len(es) + 1 /\ EntriesOfHandles(es, hs)
      /\ t \in 0..Len(es) /\ Journal(es, hs, hi, t) /\ HandlesFollow(es, hs, hi, t)
      /\ main \in MainTries /\ MainFollows(main, hi[t + 1])
  BY Zenon DEF FollowedTo
<1>1. fs \in Seq(Entries) /\ Len(fs) = t /\ (\A n \in 1..t : fs[n] = es[n])
  BY <1>0, SubSeqFacts, Zenon DEF Shortened
<1>2. gi \in Seq(MainTries) /\ Len(gi) = t + 1 /\ (\A n \in 1..(t + 1) : gi[n] = hi[n])
  <2>1. t + 1 \in 0..Len(hi)
    BY <1>0
  <2> QED BY <1>0, <2>1, SubSeqFacts, Zenon DEF Shortened
<1>3. t \in Nat /\ Len(hs) \in Nat /\ Len(es) \in Nat /\ t <= Len(es)
  BY <1>0
<1>4. \A n \in 1..t : ByHandle(fs[n]) => fs[n].h \in 1..Len(hs)
  <2>1. \A n \in 1..t : n \in 1..Len(es)
    BY <1>3
  <2> QED BY <1>0, <1>1, <2>1, Zenon DEF EntriesOfHandles
<1>5. /\ LastHandle(fs) \in 0..Len(hs)
      /\ \A n \in 1..t : ByHandle(fs[n]) => fs[n].h \in 1..LastHandle(fs)
  BY <1>1, <1>3, <1>4, LastHandleBounds, Zenon
<1>6. /\ gs \in Seq(Handles) /\ Len(gs) = LastHandle(fs)
      /\ \A g \in 1..LastHandle(fs) : gs[g] = hs[g]
  BY <1>0, <1>5, SubSeqFacts, Zenon DEF Shortened
<1>7. \A n \in 1..t : ByHandle(fs[n]) => gs[fs[n].h] = hs[es[n].h]
  BY <1>1, <1>5, <1>6, Zenon
<1>8. EntriesOfHandles(fs, gs)
  BY <1>1, <1>5, <1>6, Zenon DEF EntriesOfHandles
<1>9. Journal(fs, hs, gi, t)
  BY <1>1, <1>2, <1>0, <1>3, JournalSame, Zenon
<1>10. Journal(fs, gs, gi, t)
  BY <1>1, <1>3, <1>7, <1>9, JournalSameAddrs, Zenon
<1>11. HandlesFollow(fs, gs, gi, t)
  <2> SUFFICES ASSUME NEW n \in 1..t, LastUse(fs, n, t)
               PROVE  Covers(gs[fs[n].h].acc, gi[n + 1].acc[gs[fs[n].h].addr])
    BY Zenon DEF HandlesFollow
  <2>1. n + 1 \in 1..(t + 1) /\ \A m \in (n + 1)..t : m \in 1..t
    BY <1>3
  <2>2. LastUse(es, n, t) /\ ByHandle(fs[n])
    BY <1>1, <2>1, Zenon DEF LastUse
  <2>3. Covers(hs[es[n].h].acc, hi[n + 1].acc[hs[es[n].h].addr])
    BY <1>0, <2>2, Zenon DEF HandlesFollow
  <2> QED BY <1>2, <1>7, <2>1, <2>2, <2>3, Zenon
<1>12. MainFollows(main, gi[t + 1])
  BY <1>0, <1>2, <1>3
<1>13. Len(gs) <= Len(hs)
  BY <1>3, <1>5, <1>6
<1> QED BY <1>0, <1>1, <1>2, <1>6, <1>7, <1>8, <1>10, <1>11, <1>12, <1>13, Zenon DEF Recorded

LEMMA FinishRevertStep ==
  ASSUME AccInv, FinishRevert
  PROVE  Resting'
<1>1. /\ TypeOK /\ EntriesOfHandles(entries, handles) /\ Journal(entries, handles, hist, Pos)
      /\ MainFollows(mainTrie, hist[Pos + 1]) /\ HandlesFollow(entries, handles, hist, Pos)
      /\ HolderFollows /\ HolderApart /\ DataEntries(entries, handles, Pos)
      /\ LoadingFollows /\ CommittedIsComplete
  BY Zenon DEF AccInv
<1>2. PICK t : t = reverting.target
  BY Zenon
<1>3. /\ reverting # NotReverting /\ Pos = t /\ reverting' = NotReverting
      /\ entries' = SubSeq(entries, 1, t) /\ hist' = SubSeq(hist, 1, t + 1)
      /\ live' = {} /\ handles' = SubSeq(handles, 1, LastHandle(entries'))
      /\ mainTrie' = mainTrie /\ dataTries' = dataTries /\ tries' = tries /\ loading' = loading
      /\ db' = db
  BY <1>2, Zenon DEF FinishRevert, Pos
<1>4. t \in 0..Len(entries) /\ Len(entries) \in Nat /\ Len(handles) \in Nat
  BY <1>1, <1>2, <1>3 DEF TypeOK
<1>5. PICK fs, gs, gi : fs = entries' /\ gs = handles' /\ gi = hist'
  BY Zenon
<1>6. /\ entries \in Seq(Entries) /\ handles \in Seq(Handles) /\ hist \in Seq(MainTries)
      /\ Len(hist) = Len(entries) + 1 /\ mainTrie \in MainTries
  BY <1>1, Zenon DEF TypeOK
<1>7. Shortened(entries, handles, hist, t, fs, gs, gi)
  BY <1>3, <1>5, Zenon DEF Shortened
<1>8. /\ Journal(entries, handles, hist, t) /\ HandlesFollow(entries, handles, hist, t)
      /\ MainFollows(mainTrie, hist[t + 1])
  BY <1>1, <1>3, Zenon
<1>9. /\ Recorded(fs, gs, gi, mainTrie)
      /\ Len(fs) = t /\ (\A n \in 1..t : fs[n] = entries[n])
      /\ Len(gs) <= Len(handles)
      /\ \A n \in 1..t : ByHandle(fs[n]) => gs[fs[n].h] = handles[entries[n].h]
  <2>1. FollowedTo(entries, handles, hist, t, mainTrie)
    BY <1>1, <1>4, <1>6, <1>8, Zenon DEF FollowedTo
  <2> QED BY <1>7, <2>1, RecordPrefix
<1>10. Recorded(entries', handles', hist', mainTrie')
  BY <1>3, <1>5, <1>9, Zenon
<1>11. loading[Processor] = NotLoading
  BY <1>1, <1>3, Zenon DEF LoadingFollows
<1>12. LoadingFollows' /\ HolderFollows' /\ HolderApart' /\ CommittedIsComplete'
  BY <1>1, <1>3, <1>11, Zenon DEF LoadingFollows, HolderFollows, HolderApart, CommittedIsComplete
<1>13. LiveIsNewest' /\ live' \subseteq 1..Len(handles')
  BY <1>3, Zenon DEF LiveIsNewest
<1>14. DataEntries(entries, handles, Len(entries))'
  <2> SUFFICES ASSUME NEW n \in 1..Len(entries'), entries'[n].kind = "data"
               PROVE  /\ handles'[entries'[n].h].tr # 0
                      /\ handles'[entries'[n].h].tr = dataTries'[handles'[entries'[n].h].addr]
    BY Zenon DEF DataEntries
  <2>1. n \in 1..t /\ entries'[n] = entries[n] /\ ByHandle(fs[n])
    BY <1>5, <1>9, Zenon DEF ByHandle
  <2>2. handles'[entries'[n].h] = handles[entries[n].h]
    BY <1>5, <1>9, <2>1, Zenon
  <2>3. handles[entries[n].h].tr # 0
        /\ handles[entries[n].h].tr = dataTries[handles[entries[n].h].addr]
    BY <1>1, <1>3, <2>1, Zenon DEF DataEntries
  <2> QED BY <1>3, <2>2, <2>3, Zenon
<1>15. Len(handles') <= MaxHandles /\ Len(entries') <= MaxJournal
  <2>1. Len(handles) <= MaxHandles /\ Len(entries) <= MaxJournal
    BY <1>1, Zenon DEF TypeOK
  <2>2. gs \in Seq(Handles) /\ Len(gs) \in Nat
    BY <1>9 DEF Recorded
  <2> QED BY <1>4, <1>5, <1>9, <2>1, <2>2, DataAssumption
<1>16. /\ dataTries' \in [Addresses -> 0..Len(tries')] /\ tries' \in Seq(DataMaps)
       /\ Len(tries') <= MaxTries
       /\ loading' \in [Goroutines -> Loadings \cup {NotLoading}]
       /\ db' \in [main : SUBSET MainTries, data : SUBSET DataMaps]
  BY <1>1, <1>3, Zenon DEF TypeOK
<1> QED BY <1>3, <1>10, <1>12, <1>13, <1>14, <1>15, <1>16, Zenon DEF Resting
-----------------------------------------------------------------------------
(* The theorems                                                            *)

LEMMA ProcessingStep ==
  ASSUME AccInv, Processing
  PROVE  AccInv'
<1>1. ASSUME Resting' PROVE AccInv'
  BY <1>1, NotRevertingType, Zenon DEF AccInv, TypeOK, Resting, Pos, Recorded
<1>2. ASSUME Idle PROVE Resting
  BY <1>2, RestingOut, Zenon DEF Idle
<1>3. ASSUME NEW a \in Addresses, CreateAccount(a) PROVE AccInv'
  BY <1>1, <1>2, <1>3, CreateAccountStep, Zenon DEF CreateAccount
<1>4. ASSUME NEW a \in Addresses, LoadAccount(Processor, a) PROVE AccInv'
  BY <1>1, <1>2, <1>4, LoadAccountStep, Zenon DEF LoadAccount
<1>5. ASSUME NEW a \in Addresses, StartLoading(Processor, a) PROVE AccInv'
  BY <1>1, <1>2, <1>5, StartLoadingStep, Zenon DEF StartLoading
<1>6. ASSUME FinishLoading(Processor) PROVE AccInv'
  <2>1. reverting = NotReverting
    BY <1>6, Zenon DEF AccInv, LoadingFollows, FinishLoading
  <2> QED BY <1>1, <1>6, <2>1, RestingOut, FinishLoadingStep, Zenon
<1>7. ASSUME NEW h \in live, NEW b \in Balances, SetBalanceWithJournal(h, b) PROVE AccInv'
  BY <1>1, <1>2, <1>7, SetBalanceStep, Zenon DEF SetBalanceWithJournal
<1>8. ASSUME NEW h \in live, NEW c \in Codes, PutCode(h, c) PROVE AccInv'
  BY <1>1, <1>2, <1>8, PutCodeStep, Zenon DEF PutCode
<1>9. ASSUME NEW h \in live, NEW dirty \in Updates, SaveDataTrie(h, dirty) PROVE AccInv'
  <2>1. Idle
    BY <1>9, Zenon DEF SaveDataTrie
  <2> QED BY <1>1, <1>2, <1>9, <2>1, SaveDataTrieStep, Zenon
<1>10. ASSUME NEW s \in 0..Len(entries), StartRevert(s) PROVE AccInv'
  BY <1>2, <1>10, StartRevertStep, Zenon DEF StartRevert
<1>11. ASSUME RevertEntry PROVE AccInv'
  BY <1>11, RevertEntryStep, Zenon
<1>12. ASSUME FinishRevert PROVE AccInv'
  BY <1>1, <1>12, FinishRevertStep, Zenon
<1>13. ASSUME Commit PROVE AccInv'
  BY <1>1, <1>2, <1>13, CommitStep, Zenon DEF Commit, EndOfBlock
<1>14. ASSUME CommitDataFails PROVE AccInv'
  BY <1>1, <1>2, <1>14, CommitDataFailsStep, Zenon DEF CommitDataFails
<1>15. CASE \E a \in Addresses : CreateAccount(a) \/ LoadAccount(Processor, a) \/ StartLoading(Processor, a)
  BY <1>3, <1>4, <1>5, <1>15, Zenon
<1>16. CASE \E h \in live : \/ \E b \in Balances : SetBalanceWithJournal(h, b)
                            \/ \E c \in Codes : PutCode(h, c)
                            \/ \E dirty \in Updates : SaveDataTrie(h, dirty)
  BY <1>7, <1>8, <1>9, <1>16, Zenon
<1>17. CASE \E s \in 0..Len(entries) : StartRevert(s)
  BY <1>10, <1>17, Zenon
<1> QED BY <1>6, <1>11, <1>12, <1>13, <1>14, <1>15, <1>16, <1>17, Zenon DEF Processing

LEMMA StutterStep ==
  ASSUME AccInv, UNCHANGED vars
  PROVE  AccInv'
<1>1. /\ mainTrie' = mainTrie /\ dataTries' = dataTries /\ tries' = tries /\ handles' = handles
      /\ live' = live /\ entries' = entries /\ reverting' = reverting /\ loading' = loading
      /\ db' = db /\ hist' = hist
  BY Zenon DEF vars
<1>2. Pos' = Pos
  BY <1>1, Zenon DEF Pos
<1>3. TypeOK'
  BY <1>1, Zenon DEF AccInv, TypeOK
<1>4. /\ EntriesOfHandles(entries', handles') /\ Journal(entries', handles', hist', Pos')
      /\ MainFollows(mainTrie', hist'[Pos' + 1]) /\ HandlesFollow(entries', handles', hist', Pos')
  BY <1>1, <1>2, Zenon DEF AccInv
<1>5. HolderFollows' /\ HolderApart' /\ LoadingFollows' /\ CommittedIsComplete'
  BY <1>1, Zenon DEF AccInv, HolderFollows, HolderApart, LoadingFollows, CommittedIsComplete
<1>6. DataEntries(entries, handles, Pos)' /\ LiveIsNewest'
  BY <1>1, <1>2, Zenon DEF AccInv, DataEntries, LiveIsNewest
<1> QED BY <1>3, <1>4, <1>5, <1>6, Zenon DEF AccInv

\* The invariant is inductive: block processing never leaves it, for any
\* accounts, codes, data and lengths of the journal.
THEOREM AccountsInvariance == ProcessingSpec => []AccInv
<1>1. Init => AccInv
  BY InitRests, RestingIn, Zenon
<1>2. AccInv /\ [Processing]_vars => AccInv'
  BY ProcessingStep, StutterStep, Zenon
<1> QED BY <1>1, <1>2, PTL DEF ProcessingSpec

LEMMA AlikeWhenCovers ==
  ASSUME NEW m, NEW n \in MainTries, MainFollows(m, n)
  PROVE  Alike(m, n)
<1>1. ASSUME NEW a \in Addresses PROVE Reading(m.acc[a]) = Reading(n.acc[a])
  <2>1. PICK x, y : x = m.acc[a] /\ y = n.acc[a]
    BY Zenon
  <2>2. y \in MaybeAccounts /\ Covers(x, y)
    BY <2>1, MainTrieFields, Zenon DEF MainFollows
  <2>3. CASE x = y
    BY <2>1, <2>3, Zenon
  <2>4. CASE y # Absent /\ y.root = NilRoot /\ x = [y EXCEPT !.root = EmptyMap]
    <3>1. y \in Accounts
      BY <2>2, <2>4, Zenon DEF MaybeAccounts
    <3>2. x.root = EmptyMap
      BY <2>4, <3>1, Zenon DEF Accounts
    <3>3. Reading(x) = x
      BY <3>2, Values0, Zenon DEF Reading
    <3>4. Reading(y) = [y EXCEPT !.root = EmptyMap]
      BY <2>4, Zenon DEF Reading
    <3> QED BY <2>1, <2>4, <3>3, <3>4, Zenon
  <2> QED BY <2>2, <2>3, <2>4, Zenon DEF Covers
<1> QED BY <1>1, Zenon DEF Alike, MainFollows

LEMMA InvariantGives ==
  ASSUME AccInv
  PROVE  RevertRestores /\ HolderMatchesRoot /\ CommittedIsComplete
<1>1. ASSUME reverting = NotReverting PROVE Alike(mainTrie, hist[Len(hist)])
  <2>1. Resting
    BY <1>1, RestingOut, Zenon
  <2>2. /\ Len(hist) = Len(entries) + 1 /\ Len(entries) \in Nat /\ hist \in Seq(MainTries)
        /\ MainFollows(mainTrie, hist[Len(entries) + 1])
    BY <2>1, RestingTypes, Zenon DEF Resting, Recorded
  <2>3. hist[Len(hist)] \in MainTries /\ MainFollows(mainTrie, hist[Len(hist)])
    BY <2>2
  <2> QED BY <2>3, AlikeWhenCovers, Zenon
<1>2. ASSUME NEW a \in WithData(mainTrie), dataTries[a] # 0
      PROVE  tries[dataTries[a]] = mainTrie.acc[a].root
  <2>1. a \in Addresses /\ mainTrie.acc[a] # Absent /\ mainTrie.acc[a].root # NilRoot
    BY Zenon DEF WithData
  <2>2. tries[dataTries[a]] = RootOf(mainTrie.acc[a])
    BY <1>2, <2>1, Zenon DEF AccInv, HolderFollows
  <2> QED BY <2>1, <2>2, Zenon DEF RootOf
<1> QED BY <1>1, <1>2, Zenon DEF RevertRestores, HolderMatchesRoot, AccInv

\* RevertToSnapshot takes the main trie back to what could be read when the
\* journal had the length of the snapshot.
THEOREM RevertsRestore == ProcessingSpec => []RevertRestores
<1>1. AccInv => RevertRestores
  BY InvariantGives, Zenon
<1> QED BY <1>1, AccountsInvariance, PTL

\* The data trie that loadDataTrie would hand out for an account is the one that
\* the root hash of the account names.
THEOREM HolderIsRight == ProcessingSpec => []HolderMatchesRoot
<1>1. AccInv => HolderMatchesRoot
  BY InvariantGives, Zenon
<1> QED BY <1>1, AccountsInvariance, PTL

\* Both kinds of behaviour together, as they are model-checked: the one that is
\* block processing alone keeps the invariant.
LEMMA AccountsSpecInvariance == AccountsSpec => [](~around => AccInv)
<1>1. AccountsInit => (~around => AccInv)
  BY InitRests, RestingIn, Zenon DEF AccountsInit
<1>2. (~around => AccInv) /\ [AccountsNext]_<<vars, around>> => (~around => AccInv)'
  BY ProcessingStep, StutterStep DEF AccountsNext
<1> QED BY <1>1, <1>2, PTL DEF AccountsSpec

\* Whatever block processing did to accounts, codes and data, through one or
\* several account objects, RevertToSnapshot takes it back.
THEOREM Reverts == AccountsSpec => []ProcessingReverts
<1>1. (~around => AccInv) => ProcessingReverts
  BY InvariantGives, Zenon DEF ProcessingReverts
<1> QED BY <1>1, AccountsSpecInvariance, PTL

\* Commit leaves nothing out that a committed account names.
THEOREM CommitsAll == AccountsSpec => []ProcessingCommitsAll
<1>1. (~around => AccInv) => ProcessingCommitsAll
  BY InvariantGives, Zenon DEF ProcessingCommitsAll
<1> QED BY <1>1, AccountsSpecInvariance, PTL

=============================================================================
