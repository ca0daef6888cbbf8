----------------------------- MODULE AccountsDB -----------------------------
(***************************************************************************)
(* data/state: the accounts of a shard in a main trie, the data tries of   *)
(* smart contracts beside it, and the journal that undoes what a failed    *)
(* transaction or block changed.                                           *)
(*                                                                         *)
(* A trie is the function it represents and its root hash is that          *)
(* function; data tries and account objects are shared by reference in the *)
(* code, so they have identities here (indices into tries and handles).    *)
(* The value Empty of a key is a key that is not in the trie.  One         *)
(* goroutine processes blocks; Readers are the goroutines of the API and   *)
(* of the interceptors, which only call GetExistingAccount.                *)
(*                                                                         *)
(* hist is a history variable: hist[n + 1] is the main trie when the       *)
(* journal had n entries.                                                  *)
(***************************************************************************)
EXTENDS Integers, Sequences, FiniteSetsExt

CONSTANTS Addresses, Codes, Keys, Values, Balances, Readers,
          Empty, NoCode, NilRoot, Absent,
          MaxJournal, MaxHandles, MaxTries, MaxBlocks

ASSUME DataAssumption == /\ Empty \in Values
                         /\ 0 \in Balances
                         /\ {NoCode} \cap Codes = {}
                         /\ {MaxJournal, MaxHandles, MaxTries, MaxBlocks} \subseteq Nat

VARIABLES mainTrie,   \* [acc : address -> account, codes : codes in the trie]
          dataTries,  \* dataTriesHolder: address -> index into tries, 0 for none
          tries,      \* the data trie objects
          handles,    \* the account objects that the processing goroutine made
          live,       \* the ones its caller still works with
          entries,    \* the journal
          reverting,  \* the progress of RevertToSnapshot
          loading,    \* what a goroutine is about to load in loadDataTrie
          db,         \* what Commit persisted
          hist

vars == <<mainTrie, dataTries, tries, handles, live, entries, reverting,
          loading, db, hist>>

Processor == "processor"
Goroutines == {Processor} \cup Readers

DataMaps == [Keys -> Values]
EmptyMap == [k \in Keys |-> Empty]
Accounts == [balance : Balances, codeHash : Codes \cup {NoCode},
             root : DataMaps \cup {NilRoot}]
NotSet == "not set"
Updates == [Keys -> Values \cup {NotSet}]
Handles == [addr : Addresses, acc : Accounts, tr : 0..MaxTries]
MainTries == [acc : [Addresses -> Accounts \cup {Absent}], codes : SUBSET Codes]

Entries == [kind : {"account"}, addr : Addresses]
           \cup [kind : {"code"}, code : Codes]
           \cup [kind : {"balance"}, h : 1..MaxHandles, old : Balances]
           \cup [kind : {"codeHash"}, h : 1..MaxHandles, old : Codes \cup {NoCode}]
           \cup [kind : {"data"}, h : 1..MaxHandles, old : Updates]

NotReverting == [target |-> -1, pos |-> -1]
NotLoading == Absent
Loadings == [addr : Addresses, acc : Accounts]

\* The values that stand for something missing are no accounts, roots or values.
ASSUME MissingAssumption == /\ Absent \notin Accounts \cup Loadings
                            /\ NilRoot \notin DataMaps
                            /\ NotSet \notin Values

TypeOK ==
  /\ mainTrie \in MainTries
  /\ dataTries \in [Addresses -> 0..Len(tries)]
  /\ tries \in Seq(DataMaps) /\ Len(tries) <= MaxTries
  /\ handles \in Seq(Handles) /\ Len(handles) <= MaxHandles
  /\ live \subseteq 1..Len(handles)
  /\ entries \in Seq(Entries) /\ Len(entries) <= MaxJournal
  /\ reverting \in [target : Int, pos : Int]
  /\ \/ reverting = NotReverting
     \/ /\ reverting.target \in 0..Len(entries)
        /\ reverting.pos \in reverting.target..Len(entries)
  /\ loading \in [Goroutines -> Loadings \cup {NotLoading}]
  /\ db \in [main : SUBSET MainTries, data : SUBSET DataMaps]
  /\ hist \in Seq(MainTries) /\ Len(hist) = Len(entries) + 1

-----------------------------------------------------------------------------
NewAccount == [balance |-> 0, codeHash |-> NoCode, root |-> NilRoot]

Handle(a, acc, tr) == [addr |-> a, acc |-> acc, tr |-> tr]

SaveAccount(trie, hd) == [trie EXCEPT !.acc[hd.addr] = hd.acc]

WithData(m) == {a \in Addresses : m.acc[a] # Absent /\ m.acc[a].root # NilRoot}

\* The main trie of the last block and an empty journal.
Init ==
  /\ mainTrie \in {m \in MainTries :
                     /\ \A a \in Addresses :
                          m.acc[a] = Absent \/ m.acc[a] = NewAccount
                          \/ \E d \in DataMaps : m.acc[a] = [NewAccount EXCEPT !.root = d]
                     /\ m.codes = {}}
  /\ dataTries = [a \in Addresses |-> 0]
  /\ tries = <<>> /\ handles = <<>> /\ live = {} /\ entries = <<>>
  /\ reverting = NotReverting
  /\ loading = [p \in Goroutines |-> NotLoading]
  /\ db = [main |-> {mainTrie}, data |-> {mainTrie.acc[a].root : a \in WithData(mainTrie)}]
  /\ hist = <<mainTrie>>

Idle == reverting = NotReverting /\ loading[Processor] = NotLoading

\* A caller changes an account through the object that it loaded last (the
\* processors use one object when the sender is the receiver), and not after
\* the account was removed.
Fresh(h) == h \in live /\ mainTrie.acc[handles[h].addr] = handles[h].acc

Newest(hs, a) == {h \in live : hs[h].addr # a} \cup {Len(hs)}

Journalize(es) == Len(entries) + Len(es) <= MaxJournal /\ entries' = entries \o es

-----------------------------------------------------------------------------
(* Loading an account: getAccount, loadCode and the steps of loadDataTrie.  *)

\* The account is missing: it is created in the main trie, with an entry.
CreateAccount(a) ==
  /\ Idle /\ mainTrie.acc[a] = Absent /\ Len(handles) < MaxHandles
  /\ Journalize(<<[kind |-> "account", addr |-> a]>>)
  /\ handles' = Append(handles, Handle(a, NewAccount, 0))
  /\ live' = Newest(handles', a)
  /\ mainTrie' = SaveAccount(mainTrie, Handle(a, NewAccount, 0))
  /\ hist' = Append(hist, mainTrie')
  /\ UNCHANGED <<dataTries, tries, reverting, loading, db>>

\* What a goroutine that loads account acc of a with data trie tr keeps of it.
Loaded(p, a, acc, tr) ==
  IF p = Processor
  THEN /\ Len(handles) < MaxHandles
       /\ handles' = Append(handles, Handle(a, acc, tr))
       /\ live' = Newest(handles', a)
  ELSE UNCHANGED <<handles, live>>

\* No data trie to load, or the holder has one for the address already.
LoadAccount(p, a) ==
  /\ p = Processor => Idle
  /\ loading[p] = NotLoading /\ mainTrie.acc[a] # Absent
  /\ mainTrie.acc[a].root = NilRoot \/ dataTries[a] # 0
  /\ Loaded(p, a, mainTrie.acc[a],
            IF mainTrie.acc[a].root = NilRoot THEN 0 ELSE dataTries[a])
  /\ UNCHANGED <<mainTrie, dataTries, tries, entries, reverting, loading, db, hist>>

\* The holder has none: the goroutine goes on to recreate it.
StartLoading(p, a) ==
  /\ p = Processor => Idle
  /\ loading[p] = NotLoading /\ mainTrie.acc[a] # Absent
  /\ mainTrie.acc[a].root # NilRoot /\ dataTries[a] = 0
  /\ loading' = [loading EXCEPT ![p] = [addr |-> a, acc |-> mainTrie.acc[a]]]
  /\ UNCHANGED <<mainTrie, dataTries, tries, handles, live, entries, reverting, db, hist>>

\* The trie is recreated from storage and put into the holder, whatever the
\* holder has by now.
FinishLoading(p) ==
  /\ loading[p] # NotLoading
  /\ loading[p].acc.root \in db.data \cup {EmptyMap}
  /\ Len(tries) < MaxTries
  /\ tries' = Append(tries, loading[p].acc.root)
  /\ dataTries' = [dataTries EXCEPT ![loading[p].addr] = Len(tries) + 1]
  /\ Loaded(p, loading[p].addr, loading[p].acc, Len(tries) + 1)
  /\ loading' = [loading EXCEPT ![p] = NotLoading]
  /\ UNCHANGED <<mainTrie, entries, reverting, db, hist>>

\* ErrMissingTrie: the account has a data root hash but no data trie.
LoadingFails(p) ==
  /\ loading[p] # NotLoading
  /\ loading[p].acc.root \notin db.data \cup {EmptyMap}
  /\ loading' = [loading EXCEPT ![p] = NotLoading]
  /\ UNCHANGED <<mainTrie, dataTries, tries, handles, live, entries, reverting, db, hist>>

-----------------------------------------------------------------------------
(* Changes through an account object.                                       *)

Mut_SetBalanceWithJournal(h, b) ==
  /\ Idle /\ Fresh(h) /\ b # handles[h].acc.balance
  /\ Journalize(<<[kind |-> "balance", h |-> h, old |-> b]>>)
  /\ handles' = [handles EXCEPT ![h].acc.balance = b]
  /\ mainTrie' = SaveAccount(mainTrie, handles'[h])
  /\ hist' = Append(hist, mainTrie')
  /\ UNCHANGED <<dataTries, tries, live, reverting, loading, db>>

\* Every plain field has such a setter: the old value goes into the journal,
\* the object changes, and the object is saved whole.
SetBalanceWithJournal(h, b) ==
  /\ Idle /\ Fresh(h) /\ b # handles[h].acc.balance
  /\ Journalize(<<[kind |-> "balance", h |-> h, old |-> handles[h].acc.balance]>>)
  /\ handles' = [handles EXCEPT ![h].acc.balance = b]
  /\ mainTrie' = SaveAccount(mainTrie, handles'[h])
  /\ hist' = Append(hist, mainTrie')
  /\ UNCHANGED <<dataTries, tries, live, reverting, loading, db>>

\* PutCode: the code itself goes into the main trie, once for all accounts
\* that have it; then the code hash of the account changes.
PutCode(h, c) ==
  LET missing == c \notin mainTrie.codes
      withCode == [mainTrie EXCEPT !.codes = @ \cup {c}]
      first == IF missing THEN <<[kind |-> "code", code |-> c]>> ELSE <<>>
  IN /\ Idle /\ Fresh(h) /\ c # handles[h].acc.codeHash
     /\ Journalize(first \o <<[kind |-> "codeHash", h |-> h, old |-> handles[h].acc.codeHash]>>)
     /\ handles' = [handles EXCEPT ![h].acc.codeHash = c]
     /\ mainTrie' = SaveAccount(withCode, handles'[h])
     /\ hist' = hist \o (IF missing THEN <<withCode>> ELSE <<>>) \o <<mainTrie'>>
     /\ UNCHANGED <<dataTries, tries, live, reverting, loading, db>>

\* The keys that SaveDataTrie writes, of the ones that SaveKeyValue marked
\* dirty.  The value is compared with the cache that RetrieveValue fills;
\* smart contract results are saved through an object that nobody read from,
\* so the cache has the nil slice, which bytes.Equal does not tell from an
\* empty value.
Changed(dirty) == {k \in Keys : dirty[k] \notin {NotSet, Empty}}

\* SaveKeyValue for some keys, then SaveDataTrie: the data trie of the object
\* is made when it has none; the changed keys are written and their old values
\* go into the journal.
SaveDataTrie(h, dirty) ==
  LET hd == handles[h]
      isNew == hd.tr = 0
      tr == IF isNew THEN Len(tries) + 1 ELSE hd.tr
      withTrie == IF isNew THEN Append(tries, EmptyMap) ELSE tries
      newData == [k \in Keys |-> IF k \in Changed(dirty) THEN dirty[k] ELSE withTrie[tr][k]]
      old == [k \in Keys |-> IF k \in Changed(dirty) THEN withTrie[tr][k] ELSE NotSet]
  IN /\ Idle /\ Fresh(h)
     /\ isNew => Len(tries) < MaxTries
     /\ dataTries' = IF isNew THEN [dataTries EXCEPT ![hd.addr] = tr] ELSE dataTries
     /\ IF Changed(dirty) = {}
        THEN /\ tries' = withTrie
             /\ handles' = [handles EXCEPT ![h].tr = tr]
             /\ UNCHANGED <<entries, mainTrie, hist>>
        ELSE /\ tries' = [withTrie EXCEPT ![tr] = newData]
             /\ Journalize(<<[kind |-> "data", h |-> h, old |-> old]>>)
             /\ handles' = [handles EXCEPT ![h] =
                  Handle(hd.addr, [hd.acc EXCEPT !.root = newData], tr)]
             /\ mainTrie' = SaveAccount(mainTrie, handles'[h])
             /\ hist' = Append(hist, mainTrie')
     /\ UNCHANGED <<live, reverting, loading, db>>

\* RemoveAccount leaves no trace in the journal.
RemoveAccount(a) ==
  /\ Idle /\ mainTrie.acc[a] # Absent
  /\ mainTrie' = [mainTrie EXCEPT !.acc[a] = Absent]
  /\ UNCHANGED <<dataTries, tries, handles, live, entries, reverting, loading, db, hist>>

-----------------------------------------------------------------------------
(* RevertToSnapshot: entry after entry, from the last to the snapshot.      *)

StartRevert(s) ==
  /\ Idle
  /\ reverting' = [target |-> s, pos |-> Len(entries)]
  /\ UNCHANGED <<mainTrie, dataTries, tries, handles, live, entries, loading, db, hist>>

\* What Revert makes of an account object; its data trie is dealt with apart.
Reverted(e) ==
  LET hd == handles[e.h] IN
  CASE e.kind = "balance"  -> [hd EXCEPT !.acc.balance = e.old]
    [] e.kind = "codeHash" -> [hd EXCEPT !.acc.codeHash = e.old]
    [] e.kind = "data"     ->
         [hd EXCEPT !.acc.root = [k \in Keys |-> IF e.old[k] # NotSet THEN e.old[k]
                                                 ELSE tries[hd.tr][k]]]

\* JournalEntryDataTrieUpdates.Revert writes the old values into the data trie
\* of the account object.

RevertedTries(e) ==
  IF e.kind = "data" THEN [tries EXCEPT ![handles[e.h].tr] = Reverted(e).acc.root] ELSE tries

\* Revert of one entry and SaveAccount of the account it returns, if any.
RevertEntry ==
  LET e == entries[reverting.pos] IN
  /\ reverting # NotReverting /\ reverting.pos > reverting.target
  /\ \/ /\ e.kind = "account"
        /\ mainTrie' = [mainTrie EXCEPT !.acc[e.addr] = Absent]
        /\ UNCHANGED <<handles, tries>>
     \/ /\ e.kind = "code"
        /\ mainTrie' = [mainTrie EXCEPT !.codes = @ \ {e.code}]
        /\ UNCHANGED <<handles, tries>>
     \/ /\ e.kind \in {"balance", "codeHash", "data"}
        /\ handles' = [handles EXCEPT ![e.h] = Reverted(e)]
        /\ tries' = RevertedTries(e)
        /\ mainTrie' = SaveAccount(mainTrie, handles'[e.h])
  /\ reverting' = [reverting EXCEPT !.pos = @ - 1]
  /\ UNCHANGED <<dataTries, live, entries, loading, db, hist>>

\* The account objects up to the last one that a journal refers to.
LastHandle(es) ==
  Max({0} \cup {es[i].h : i \in {j \in 1..Len(es) : "h" \in DOMAIN es[j]}})

\* The entries behind the snapshot go, and the callers drop the accounts of
\* what failed.
FinishRevert ==
  /\ reverting # NotReverting /\ reverting.pos = reverting.target
  /\ entries' = SubSeq(entries, 1, reverting.target)
  /\ hist' = SubSeq(hist, 1, reverting.target + 1)
  /\ reverting' = NotReverting
  /\ live' = {}
  /\ handles' = SubSeq(handles, 1, LastHandle(entries'))
  /\ UNCHANGED <<mainTrie, dataTries, tries, loading, db>>

\* A trie fails to read its nodes: RevertToSnapshot returns the error and
\* leaves the journal as it is.
FailRevert ==
  /\ reverting # NotReverting /\ reverting.pos > reverting.target
  /\ reverting' = NotReverting
  /\ live' = {}
  /\ UNCHANGED <<mainTrie, dataTries, tries, handles, entries, loading, db, hist>>

-----------------------------------------------------------------------------
(* Commit and RecreateTrie.                                                 *)

Mut_HeldData == {}

HeldData == {tries[dataTries[a]] : a \in {x \in Addresses : dataTries[x] # 0}}

\* The data tries of the holder and the main trie are persisted; in between
\* the holder and the journal are emptied.  No caller keeps an account.
EndOfBlock ==
  /\ Idle
  /\ dataTries' = [a \in Addresses |-> 0]
  /\ tries' = <<>> /\ handles' = <<>> /\ live' = {} /\ entries' = <<>>
  /\ hist' = <<mainTrie>>
  /\ UNCHANGED <<mainTrie, reverting, loading>>

Commit ==
  /\ EndOfBlock
  /\ db' = [main |-> db.main \cup {mainTrie}, data |-> db.data \cup HeldData]
  /\ Cardinality(db'.main) <= MaxBlocks

\* A data trie cannot be persisted: the holder and the journal stay.
CommitDataFails ==
  /\ Idle
  /\ \E saved \in SUBSET HeldData :
       saved # HeldData /\ db' = [db EXCEPT !.data = @ \cup saved]
  /\ UNCHANGED <<mainTrie, dataTries, tries, handles, live, entries, reverting,
                 loading, hist>>

\* The main trie cannot be persisted: the journal is gone by then.
CommitMainFails ==
  /\ EndOfBlock
  /\ mainTrie \notin db.main
  /\ db' = [db EXCEPT !.data = @ \cup HeldData]

\* RevertStateToBlock, between blocks: the main trie of an earlier root hash.
RecreateTrie(m) ==
  /\ Idle /\ entries = <<>> /\ m \in db.main /\ m # mainTrie
  /\ mainTrie' = m
  /\ hist' = <<m>>
  /\ handles' = <<>> /\ live' = {}
  /\ UNCHANGED <<dataTries, tries, entries, reverting, loading, db>>

-----------------------------------------------------------------------------
\* What the goroutine that processes blocks does to the accounts.
Processing ==
  \/ \E a \in Addresses : CreateAccount(a) \/ LoadAccount(Processor, a)
                          \/ StartLoading(Processor, a)
  \/ FinishLoading(Processor)
  \/ \E h \in live :
       \/ \E b \in Balances : SetBalanceWithJournal(h, b)
       \/ \E c \in Codes : PutCode(h, c)
       \/ \E dirty \in Updates : SaveDataTrie(h, dirty)
  \/ \E s \in 0..Len(entries) : StartRevert(s)
  \/ RevertEntry \/ FinishRevert
  \/ Commit \/ CommitDataFails

ProcessingSpec == Init /\ [][Processing]_vars

\* With what else may happen around it.
Next ==
  \/ Processing
  \/ FailRevert \/ CommitMainFails \/ LoadingFails(Processor)
  \/ \E m \in db.main : RecreateTrie(m)
  \/ \E p \in Readers :
       \/ \E a \in Addresses : LoadAccount(p, a) \/ StartLoading(p, a)
       \/ FinishLoading(p) \/ LoadingFails(p)

Spec == Init /\ [][Next]_vars

\* And with the accounts that smart contracts delete.
DeletingSpec == Init /\ [][Processing \/ \E a \in Addresses : RemoveAccount(a)]_vars

-----------------------------------------------------------------------------
(* Properties.                                                              *)

\* An account that never had data and one whose data were all removed read
\* the same, though their root hashes differ.
Reading(acc) == IF acc # Absent /\ acc.root = NilRoot THEN [acc EXCEPT !.root = EmptyMap] ELSE acc

Alike(m, n) == /\ m.codes = n.codes
               /\ \A a \in Addresses : Reading(m.acc[a]) = Reading(n.acc[a])

\* Whatever a transaction did to accounts, codes and data, through one or
\* several account objects, RevertToSnapshot takes the main trie back to what
\* could be read when the journal had the length of the snapshot.
RevertRestores == reverting = NotReverting => Alike(mainTrie, hist[Len(hist)])

\* Between two operations the data trie that loadDataTrie would hand out for
\* an account is the one that the root hash of the account names.
HolderMatchesRoot ==
  reverting = NotReverting =>
    \A a \in WithData(mainTrie) :
      dataTries[a] # 0 => tries[dataTries[a]] = mainTrie.acc[a].root

\* Every block that Commit persisted can be loaded again: the data tries and
\* the codes that its accounts name were persisted with it.
CommittedIsComplete ==
  \A m \in db.main :
    /\ \A a \in WithData(m) : m.acc[a].root \in db.data \cup {EmptyMap}
    /\ \A a \in Addresses : m.acc[a] # Absent => m.acc[a].codeHash \in m.codes \cup {NoCode}

\* Balances and codes come back even when a revert failed half-way before,
\* blocks were rolled back and other goroutines load accounts.
FieldsRestored ==
  reverting = NotReverting /\ entries = <<>> =>
    \A a \in Addresses :
      LET now == mainTrie.acc[a]
          then == hist[1].acc[a]
      IN IF then = Absent THEN now = Absent
         ELSE now # Absent /\ now.balance = then.balance /\ now.codeHash = then.codeHash

\* "Calling with 0 revert everything": the main trie is again the one of a
\* committed block, so that its root hash is the one of the block.
RevertsEverything ==
  [][FinishRevert /\ reverting.target = 0 => mainTrie' \in db.main]_vars

\* After RevertAccountState the accounts read as in a committed block,
\* whatever failed in processing or committing the block in between.
RevertsToBlock ==
  [][FinishRevert /\ reverting.target = 0 => \E m \in db.main : Alike(mainTrie', m)]_vars

\* What SaveKeyValue recorded is in the data trie after SaveDataTrie.
SavedIsStored ==
  [][\A h \in live, dirty \in Updates : SaveDataTrie(h, dirty) =>
       \A k \in Keys : dirty[k] # NotSet => tries'[handles'[h].tr][k] = dirty[k]]_vars

=============================================================================
