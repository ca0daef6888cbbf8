------------------------------- MODULE VmHook -------------------------------
(* What a smart contract sees of the blockchain: BlockChainHookImpl          *)
(* (process/smartContract/hooks), which reads the accounts, the temporary    *)
(* account of the sender of the running transaction, the chain and the       *)
(* stored headers.  A node has two such hooks: one for the virtual machines  *)
(* that process blocks and one for the queries of its API.                   *)
EXTENDS Integers, Sequences

CONSTANTS
    Addresses,       \* accounts; a contract may read any of them
    LocalAddresses,  \* the addresses with an account in this shard
    Amounts,         \* values of transactions, and first balances
    QueryMayRace,    \* TRUE: a query may run in the middle of a commit or roll back
    HighestNonce, MaxTxs, MaxUndone  \* bounds

ASSUME VmHookAssumption ==
    /\ LocalAddresses \subseteq Addresses /\ "none" \notin Addresses /\ Amounts \subseteq Nat
    /\ QueryMayRace \in BOOLEAN
    /\ HighestNonce \in Nat /\ MaxTxs \in Nat /\ MaxUndone \in Nat

VARIABLES
    ledger,      \* the balances of the accounts adapter
    temporary,   \* tempAccounts of the hook of block processing: address |-> balance
    ids,         \* the blocks of the chain, as their ids
    currHeader,  \* CurrentBlockHeader: its nonce, 0 when there is none
    currHash,    \* CurrentBlockHeaderHash: an id, 0 when there is none
    nonceHash,   \* the header nonce hash unit: nonce |-> id, or 0
    working,     \* what the block processor is doing
    running,     \* the transaction the virtual machine runs, if any
    answer,      \* the last answer of GetBlockhash in block processing
    query,       \* a query of the API for the hash of a nonce
    count        \* blocks made, transactions run, blocks undone

hookVars == <<ledger, temporary, ids, currHeader, currHash, nonceHash, working, running, answer, query, count>>
chainVars == <<ids, currHeader, currHash, nonceHash, working>>

NoTx == [sender |-> "none", value |-> 0]
NoAnswer == [nonce |-> 0, id |-> 0]
NoQuery == [nonce |-> 0, header |-> 0, id |-> 0, step |-> "none", seen |-> {}]
Temporary == DOMAIN temporary

NewBlockChainHookImpl ==
    /\ ledger \in [LocalAddresses -> Amounts]
    /\ temporary = <<>>
    /\ ids = <<>> /\ currHeader = 0 /\ currHash = 0
    /\ nonceHash = [n \in 1..(HighestNonce + 1) |-> 0]
    /\ working = [step |-> "none", id |-> 0]
    /\ running = NoTx /\ answer = NoAnswer /\ query = NoQuery
    /\ count = [blocks |-> 0, txs |-> 0, undone |-> 0]
-----------------------------------------------------------------------------
(* What the hook answers *)

getAccountFromTemporaryAccounts(a) == a \in Temporary
AccountExists(a) == getAccountFromTemporaryAccounts(a) \/ a \in LocalAddresses
getAccountFromAddressBytes(a) == IF getAccountFromTemporaryAccounts(a) THEN temporary[a] ELSE ledger[a]
GetBalance(a) == IF AccountExists(a) THEN getAccountFromAddressBytes(a) ELSE 0

\* 0 is an error: no header, a nonce that is ahead, or a hash that is missing
GetBlockhash(n, header) ==
    IF header = 0 \/ n > header THEN 0
    ELSE IF n = header THEN currHash ELSE nonceHash[n]
-----------------------------------------------------------------------------
(* A transaction that calls a contract *)

\* prepareSmartContractCall
AddTempAccount(a, value) == [x \in {a} |-> value]

\* Mutant: the temporary accounts stay for the next transaction
Mut_CleanTempAccounts == temporary
CleanTempAccounts == <<>>

StartTransaction(sender, value) ==
    /\ working.step = "process" /\ running = NoTx
    /\ count.txs < MaxTxs
    /\ sender \in LocalAddresses => value <= ledger[sender]
    /\ running' = [sender |-> sender, value |-> value]
    /\ ledger' = [a \in LocalAddresses |-> IF a = sender THEN ledger[a] - value ELSE ledger[a]]
    /\ temporary' = [a \in Temporary \cup {sender} |->
                        IF a = sender THEN AddTempAccount(sender, value)[a] ELSE temporary[a]]
    /\ count' = [count EXCEPT !.txs = @ + 1]
    /\ UNCHANGED <<chainVars, answer, query>>

\* The call ends, or fails and the value is given back: either way the
\* temporary accounts go
FinishTransaction ==
    /\ running # NoTx
    /\ \E ok \in BOOLEAN, receiver \in LocalAddresses :
          ledger' = [a \in LocalAddresses |->
                        IF a = (IF ok THEN receiver ELSE running.sender) THEN ledger[a] + running.value
                        ELSE ledger[a]]
    /\ temporary' = CleanTempAccounts
    /\ running' = NoTx
    /\ UNCHANGED <<chainVars, answer, query, count>>

\* The contract asks for a block hash
AskBlockhash(n) ==
    /\ running # NoTx
    /\ answer' = [nonce |-> n, id |-> GetBlockhash(n, currHeader)]
    /\ UNCHANGED <<ledger, temporary, chainVars, running, query, count>>
-----------------------------------------------------------------------------
(* The chain, as far as the hook reads it *)

Process ==
    /\ working.step = "none"
    /\ Len(ids) < HighestNonce /\ count.blocks < HighestNonce + MaxUndone
    /\ working' = [step |-> "process", id |-> count.blocks + 1]
    /\ count' = [count EXCEPT !.blocks = @ + 1]
    /\ UNCHANGED <<ledger, temporary, ids, currHeader, currHash, nonceHash, running, answer, query>>

\* CommitBlock: the header is stored; the commit may fail later on
CommitStores ==
    /\ working.step = "process" /\ running = NoTx
    /\ nonceHash' = [nonceHash EXCEPT ![Len(ids) + 1] = working.id]
    /\ \/ working' = [working EXCEPT !.step = "header"]
       \/ working' = [step |-> "none", id |-> 0]
    /\ answer' = NoAnswer
    /\ UNCHANGED <<ledger, temporary, ids, currHeader, currHash, running, query, count>>

CommitSetsHeader ==
    /\ working.step = "header"
    /\ ids' = Append(ids, working.id)
    /\ currHeader' = currHeader + 1
    /\ working' = [working EXCEPT !.step = "hash"]
    /\ UNCHANGED <<ledger, temporary, currHash, nonceHash, running, answer, query, count>>

CommitSetsHash ==
    /\ working.step = "hash"
    /\ currHash' = working.id
    /\ working' = [step |-> "none", id |-> 0]
    /\ UNCHANGED <<ledger, temporary, ids, currHeader, nonceHash, running, answer, query, count>>

\* rollBackOneBlock: setCurrentBlockInfo, then cleanCachesAndStorageOnRollback
RollBackSetsHeader ==
    /\ working.step = "none" /\ ids # <<>>
    /\ count.undone < MaxUndone
    /\ ids' = SubSeq(ids, 1, Len(ids) - 1)
    /\ currHeader' = currHeader - 1
    /\ working' = [step |-> "undo", id |-> IF Len(ids) > 1 THEN ids[Len(ids) - 1] ELSE 0]
    /\ count' = [count EXCEPT !.undone = @ + 1]
    /\ UNCHANGED <<ledger, temporary, currHash, nonceHash, running, answer, query>>
RollBackCleans ==
    /\ working.step = "undo"
    /\ currHash' = working.id
    /\ nonceHash' = [nonceHash EXCEPT ![Len(ids) + 1] = 0]
    /\ working' = [step |-> "none", id |-> 0]
    /\ UNCHANGED <<ledger, temporary, ids, currHeader, running, answer, query, count>>
-----------------------------------------------------------------------------
(* A query of the API: ExecuteQuery runs on its own hook, beside the rest *)

Settled == working.step \in {"none", "process"}
IdAt(n) == IF n <= Len(ids) THEN ids[n] ELSE 0

QueryReadsHeader(n) ==
    /\ query.step = "none"
    /\ QueryMayRace \/ Settled
    /\ query' = [nonce |-> n, header |-> currHeader, id |-> 0, step |-> "header", seen |-> {IdAt(n)}]
    /\ UNCHANGED <<ledger, temporary, chainVars, running, answer, count>>
QueryReadsHash ==
    /\ query.step = "header"
    /\ query' = [query EXCEPT !.id = GetBlockhash(query.nonce, query.header), !.step = "done",
                              !.seen = @ \cup {IdAt(query.nonce)}]
    /\ UNCHANGED <<ledger, temporary, chainVars, running, answer, count>>
QueryReturns ==
    /\ query.step = "done"
    /\ query' = NoQuery
    /\ UNCHANGED <<ledger, temporary, chainVars, running, answer, count>>
-----------------------------------------------------------------------------
TxStep == \/ \E a \in Addresses, v \in Amounts : StartTransaction(a, v)
          \/ FinishTransaction
          \/ \E n \in 1..(HighestNonce + 1) : AskBlockhash(n)
ChainStep == \/ Process \/ CommitStores \/ CommitSetsHeader \/ CommitSetsHash
             \/ RollBackSetsHeader \/ RollBackCleans
QueryStep == \/ \E n \in 1..HighestNonce : QueryReadsHeader(n)
             \/ QueryReadsHash \/ QueryReturns
\* The steps of the chain while a query is between its two reads are left out
\* unless it may race
HookNext ==
    \/ TxStep
    \/ (QueryMayRace \/ query.step # "header") /\ ChainStep
    \/ QueryStep
HookSpec == NewBlockChainHookImpl /\ [][HookNext]_hookVars
-----------------------------------------------------------------------------
(* Properties *)

\* A contract sees the sender with the value it sends, every other address of the
\* shard with its balance, and no address of another shard: nothing of an earlier
\* transaction, whether that one ended well or in an error, shows.
SeesOnlyItsSender ==
    running # NoTx =>
        \A a \in Addresses :
            GetBalance(a) = IF a = running.sender THEN running.value
                            ELSE IF a \in LocalAddresses THEN ledger[a] ELSE 0

\* A block hash a contract is given in block processing is that of the block of
\* the chain with that nonce, or an error: commits that failed after the header
\* was stored, and blocks rolled back, never show.
HashIsOfTheChain ==
    answer.id # 0 => answer.nonce <= Len(ids) /\ answer.id = ids[answer.nonce]

\* A query of the API is given a block hash that the chain had at that nonce
\* while the query ran.  It does not hold when the chain moves between the read of
\* the header and the read of the hash.
QueryHashWasOnChain ==
    query.step = "done" /\ query.id # 0 => query.id \in query.seen
=============================================================================
