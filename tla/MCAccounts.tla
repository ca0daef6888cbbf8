---------------------------- MODULE MCAccounts ------------------------------
(* A small instance of AccountsDB: block processing alone, with codes and a  *)
(* longer journal, or with everything that may happen around it.             *)
EXTENDS AccountsDB

CONSTANT MaxJournalAround   \* bound: MaxJournal of the second

VARIABLE around   \* which of the two this behaviour is about

AccountsInit == around \in BOOLEAN /\ Init

Around == Next /\ Len(entries') <= MaxJournalAround /\ mainTrie'.codes = {}

AccountsNext ==
  /\ UNCHANGED around
  /\ \/ ~around /\ Processing
     \/ around /\ Around

AccountsSpec == AccountsInit /\ [][AccountsNext]_<<vars, around>>

-----------------------------------------------------------------------------
\* Whatever a transaction did to accounts, codes and data, through one or
\* several account objects, RevertToSnapshot takes the main trie back to what
\* could be read when the journal had the length of the snapshot.
ProcessingReverts == ~around => RevertRestores

\* Between two operations of block processing the data trie that loadDataTrie
\* would hand out for an account is the one that the root hash of the account
\* names.
ProcessingHoldsTries == ~around => HolderMatchesRoot

\* Every block that Commit persisted can be loaded again: the data tries and
\* the codes that its accounts name were persisted with it.
ProcessingCommitsAll == ~around => CommittedIsComplete
=============================================================================
