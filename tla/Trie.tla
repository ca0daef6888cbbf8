-------------------------------- MODULE Trie --------------------------------
(***************************************************************************)
(* data/trie: the Patricia Merkle trie that holds accounts and their data. *)
(*                                                                         *)
(* A node is a record; what the code does in place, an operator returns.   *)
(* A hash is the encoding it is computed from (no collisions): of a leaf   *)
(* its key and value, of the others also the hashes of the children.  Keys *)
(* are sequences of nibbles that end with the terminator.  The database    *)
(* only grows, so a node is forgotten when nothing can lead to it.         *)
(***************************************************************************)
EXTENDS Integers, Sequences, FiniteSets, SequencesExt

CONSTANTS Keys,                      \* sequences of nibbles
          Values,                    \* what Update may store, as positive numbers
          HexTerminator,             \* nibbles are 0 .. HexTerminator - 1
          MaxTrieLevelAfterCommit,   \* below this level a commit leaves only hashes
          MaxTrieSteps,              \* how many operations a behaviour has
          AnyDelete                  \* also the removals that break the trie

VARIABLES root,        \* the node at the root, or Nil
          trieDb,      \* pairs <<hash, encoding>> of the database
          trieRoots,   \* roots of commits, with the content they had: [hash, content]
          content,     \* what was stored and not removed, 0 for nothing
          trieError,   \* what the last operation returned
          trieSteps

trieVars == <<root, trieDb, trieRoots, content, trieError, trieSteps>>

Nil == [t |-> "nil"]
Pos == 0 .. HexTerminator
keyBytesToHex(k) == Append(k, HexTerminator)
prefixLen(a, b) ==
  CHOOSE i \in 0 .. Len(a) : /\ i <= Len(b) /\ SubSeq(a, 1, i) = SubSeq(b, 1, i)
                             /\ (i < Len(a) /\ i < Len(b)) => a[i + 1] # b[i + 1]
After(k, i) == SubSeq(k, i + 1, Len(k))

newLeafNode(k, v) == [t |-> "leaf", key |-> k, val |-> v, hash |-> Nil, dirty |-> TRUE]
newExtensionNode(k, c) == [t |-> "ext", key |-> k, child |-> c, enc |-> Nil, hash |-> Nil, dirty |-> TRUE]
newBranchNode ==
  [t |-> "branch", children |-> [p \in Pos |-> Nil], enc |-> [p \in Pos |-> Nil], hash |-> Nil, dirty |-> TRUE]

isEmptyOrNil(n) ==
  CASE n.t = "nil"    -> TRUE
    [] n.t = "leaf"   -> FALSE
    [] n.t = "ext"    -> n.child = Nil /\ n.enc = Nil
    [] n.t = "branch" -> \A p \in Pos : n.children[p] = Nil /\ n.enc[p] = Nil

(* encodeNodeAndGetHash: what is written of a node, and so its hash; what   *)
(* is in memory only (children, hash, dirty flag) is not.                   *)
EncodedLeaf(n) == [t |-> "L", key |-> n.key, val |-> n.val]
EncodedExtension(n) == [t |-> "E", key |-> n.key, enc |-> n.enc]
EncodedBranch(n) == [t |-> "B", enc |-> n.enc]
Encoded(n) ==
  CASE n.t = "leaf"   -> EncodedLeaf(n)
    [] n.t = "ext"    -> EncodedExtension(n)
    [] n.t = "branch" -> EncodedBranch(n)

(* decodeNode: branches come out of newBranchNode, and so are dirty.        *)
decodeNode(e) ==
  CASE e.t = "L" -> [newLeafNode(e.key, e.val) EXCEPT !.dirty = FALSE]
    [] e.t = "E" -> [newExtensionNode(e.key, Nil) EXCEPT !.enc = e.enc, !.dirty = FALSE]
    [] e.t = "B" -> [newBranchNode EXCEPT !.enc = e.enc]

getNodeFromDBAndDecode(hash, db) == decodeNode((CHOOSE e \in db : e[1] = hash)[2])
resolveBranch(n, p, db) ==
  IF n.children[p] = Nil /\ n.enc[p] # Nil
  THEN [n EXCEPT !.children[p] = getNodeFromDBAndDecode(n.enc[p], db)] ELSE n
resolveExtension(n, db) ==
  IF n.child = Nil /\ n.enc # Nil THEN [n EXCEPT !.child = getNodeFromDBAndDecode(n.enc, db)] ELSE n

-----------------------------------------------------------------------------
(* Hashes: hashChildrenAndNode sets the hash of every node that has none,   *)
(* and with it what the parent holds of it.                                 *)

RECURSIVE setHash(_)
ChildHash(c, old) == IF c = Nil THEN old ELSE Encoded(c)
hashBranch(n) ==
  LET hashed == [p \in Pos |-> IF n.children[p] = Nil THEN Nil ELSE setHash(n.children[p])]
      m == [n EXCEPT !.children = hashed,
                     !.enc = [p \in Pos |-> ChildHash(hashed[p], n.enc[p])]]
  IN [m EXCEPT !.hash = Encoded(m)]
hashExtension(n) ==
  LET c == IF n.child = Nil THEN Nil ELSE setHash(n.child)
      m == [n EXCEPT !.child = c, !.enc = ChildHash(c, n.enc)]
  IN [m EXCEPT !.hash = Encoded(m)]
hashLeaf(n) == [n EXCEPT !.hash = Encoded(n)]
setHash(n) ==
  CASE n.hash # Nil   -> n
    [] n.t = "leaf"   -> hashLeaf(n)
    [] n.t = "ext"    -> hashExtension(n)
    [] n.t = "branch" -> hashBranch(n)

(* The hashes of the children instead of the children.                      *)
getCollapsedBranch(n) ==
  [n EXCEPT !.enc = [p \in Pos |-> IF n.children[p] = Nil THEN n.enc[p] ELSE setHash(n.children[p]).hash],
            !.children = [p \in Pos |-> Nil]]
getCollapsedExtension(n) == IF n.child = Nil THEN n ELSE [n EXCEPT !.enc = setHash(n.child).hash, !.child = Nil]
getCollapsed(n) ==
  CASE n.t = "leaf"   -> n
    [] n.t = "ext"    -> getCollapsedExtension(n)
    [] n.t = "branch" -> getCollapsedBranch(n)

-----------------------------------------------------------------------------
(* Commit: dirty nodes are put into the database, children first; what is   *)
(* below the level is dropped from memory.                                  *)

encodeNodeAndCommitToDB(n) == <<setHash(n).hash, Encoded(getCollapsed(setHash(n)))>>
Kept(level, n) == IF level = MaxTrieLevelAfterCommit THEN getCollapsed(n) ELSE n

RECURSIVE commit(_, _)
commitLeaf(n) == [node |-> [n EXCEPT !.dirty = FALSE], puts |-> {encodeNodeAndCommitToDB(n)}]
commitExtension(level, n) ==
  LET c == IF n.child = Nil THEN [node |-> Nil, puts |-> {}] ELSE commit(level, n.child)
      m == setHash([n EXCEPT !.child = c.node, !.dirty = FALSE])
  IN [node |-> Kept(level, m), puts |-> c.puts \cup {encodeNodeAndCommitToDB(m)}]
commitBranch(level, n) ==
  LET c == [p \in Pos |-> IF n.children[p] = Nil THEN [node |-> Nil, puts |-> {}] ELSE commit(level, n.children[p])]
      m == setHash([n EXCEPT !.children = [p \in Pos |-> c[p].node], !.dirty = FALSE])
  IN [node |-> Kept(level, m), puts |-> UNION {c[p].puts : p \in Pos} \cup {encodeNodeAndCommitToDB(m)}]
commit(level, n) ==
  CASE ~ n.dirty      -> [node |-> n, puts |-> {}]
    [] n.t = "leaf"   -> commitLeaf(n)
    [] n.t = "ext"    -> commitExtension(level + 1, n)
    [] n.t = "branch" -> commitBranch(level + 1, n)

-----------------------------------------------------------------------------
(* Reading.  tryGet also keeps in memory what it resolved.                  *)

Found(n, v) == [node |-> n, val |-> v]
RECURSIVE tryGet(_, _, _)
tryGetBranch(n, k, db) ==
  IF k = <<>> THEN Found(n, 0)
  ELSE LET m == resolveBranch(n, k[1], db)
       IN IF m.children[k[1]] = Nil THEN Found(m, 0)
          ELSE LET r == tryGet(m.children[k[1]], Tail(k), db)
               IN Found([m EXCEPT !.children[k[1]] = r.node], r.val)
tryGetExtension(n, k, db) ==
  IF ~ IsPrefix(n.key, k) THEN Found(n, 0)
  ELSE LET m == resolveExtension(n, db)
           r == tryGet(m.child, After(k, Len(n.key)), db)
       IN Found([m EXCEPT !.child = r.node], r.val)
tryGetLeaf(n, k) == Found(n, IF k = n.key THEN n.val ELSE 0)
tryGet(n, k, db) ==
  CASE isEmptyOrNil(n) -> Found(n, 0)
    [] n.t = "leaf"   -> tryGetLeaf(n, k)
    [] n.t = "ext"    -> tryGetExtension(n, k, db)
    [] n.t = "branch" -> tryGetBranch(n, k, db)

Get(n, k, db) == tryGet(n, keyBytesToHex(k), db)

RECURSIVE getAllLeaves(_, _, _)
getAllLeavesBranch(n, key, db) ==
  UNION {getAllLeaves(resolveBranch(n, p, db).children[p], Append(key, p), db) : p \in Pos}
getAllLeavesExtension(n, key, db) == getAllLeaves(resolveExtension(n, db).child, key \o n.key, db)
\* hexToKeyBytes drops the terminator
getAllLeavesLeaf(n, key) == {<<Front(key \o n.key), n.val>>}
getAllLeaves(n, key, db) ==
  CASE isEmptyOrNil(n) -> {}
    [] n.t = "leaf"   -> getAllLeavesLeaf(n, key)
    [] n.t = "ext"    -> getAllLeavesExtension(n, key, db)
    [] n.t = "branch" -> getAllLeavesBranch(n, key, db)

(* Prove: the encodings from the root to the leaf; <<>> when the key is not *)
(* found.                                                                   *)
RECURSIVE ProvePath(_, _, _)
getNextBranch(n, k, db) == IF k = <<>> THEN <<>> ELSE ProvePath(resolveBranch(n, k[1], db).children[k[1]], Tail(k), db)
getNextExtension(n, k, db) ==
  IF IsPrefix(n.key, k) THEN ProvePath(resolveExtension(n, db).child, After(k, Len(n.key)), db) ELSE <<>>
ProvePath(n, k, db) ==
  CASE n = Nil       -> <<>>
    [] n.t = "leaf"  -> IF k = n.key THEN <<Encoded(n)>> ELSE <<>>
    [] OTHER         -> LET rest == IF n.t = "ext" THEN getNextExtension(n, k, db) ELSE getNextBranch(n, k, db)
                        IN IF rest = <<>> THEN <<>> ELSE <<Encoded(n)>> \o rest
Prove(n, k, db) == IF n = Nil THEN <<>> ELSE ProvePath(setHash(n), keyBytesToHex(k), db)

RECURSIVE VerifyFrom(_, _, _)
VerifyFrom(wantHash, proofs, k) ==
  /\ proofs # <<>>
  /\ proofs[1] = wantHash
  /\ CASE wantHash.t = "E" -> VerifyFrom(wantHash.enc, Tail(proofs), After(k, Len(wantHash.key)))
       [] wantHash.t = "B" -> VerifyFrom(wantHash.enc[k[1]], Tail(proofs), Tail(k))
       [] wantHash.t = "L" -> k = wantHash.key
Root(n) == IF n = Nil THEN Nil ELSE setHash(n).hash
VerifyProof(n, proofs, k) == VerifyFrom(Root(n), proofs, keyBytesToHex(k))

-----------------------------------------------------------------------------
(* insert returns the node that takes the place of n.                       *)

NewBranch(p, m, q, l) == [newBranchNode EXCEPT !.children[p] = m, !.children[q] = l]
Behind(k, n) == IF k = <<>> THEN n ELSE newExtensionNode(k, n)

RECURSIVE insert(_, _, _, _)
insertBranch(n, k, v, db) ==
  LET m == resolveBranch(n, k[1], db)
      c == IF m.children[k[1]] = Nil THEN newLeafNode(Tail(k), v) ELSE insert(m.children[k[1]], Tail(k), v, db)
  IN [m EXCEPT !.children[k[1]] = c, !.dirty = TRUE, !.hash = Nil]
insertExtension(n, k, v, db) ==
  LET m == resolveExtension(n, db)
      i == prefixLen(k, m.key)
  IN IF i = Len(m.key)
     THEN newExtensionNode(m.key, insert(m.child, After(k, i), v, db))
     ELSE Behind(SubSeq(m.key, 1, i),
                 NewBranch(m.key[i + 1], Behind(After(m.key, i + 1), m.child),
                           k[i + 1], newLeafNode(After(k, i + 1), v)))
insertLeaf(n, k, v) ==
  LET i == prefixLen(k, n.key)
  IN IF k = n.key
     THEN [n EXCEPT !.val = v, !.dirty = TRUE, !.hash = Nil]
     ELSE Behind(SubSeq(n.key, 1, i),
                 NewBranch(n.key[i + 1], newLeafNode(After(n.key, i + 1), n.val),
                           k[i + 1], newLeafNode(After(k, i + 1), v)))
insert(n, k, v, db) ==
  CASE n.t = "leaf"   -> insertLeaf(n, k, v)
    [] n.t = "ext"    -> insertExtension(n, k, v, db)
    [] n.t = "branch" -> insertBranch(n, k, v, db)

-----------------------------------------------------------------------------
(* delete returns whether something changed, and the node that takes the    *)
(* place of n; a branch that is left with one child is reduced to it.       *)

Deleted(dirty, n, err) == [dirty |-> dirty, node |-> n, err |-> err]
getChildPosition(n) == {p \in Pos : n.children[p] # Nil \/ n.enc[p] # Nil}

reduceLeaf(n, p) == newLeafNode(<<p>> \o n.key, n.val)
\* the hash of a child that is not in memory is not taken over
reduceExtension(n, p) == newExtensionNode(<<p>> \o n.key, n.child)
reduceBranch(n, p) == newExtensionNode(<<p>>, n)
reduceNode(n, p) ==
  CASE n.t = "leaf"   -> reduceLeaf(n, p)
    [] n.t = "ext"    -> reduceExtension(n, p)
    [] n.t = "branch" -> reduceBranch(n, p)

RECURSIVE delete(_, _, _)
Mut_Without(n, p, c) == [n EXCEPT !.children[p] = c, !.hash = Nil]
Without(n, p, c) ==
  [n EXCEPT !.children[p] = c, !.enc[p] = IF c = Nil THEN Nil ELSE @, !.hash = Nil]
Reduced(n, db) ==
  IF Cardinality(getChildPosition(n)) = 1
  THEN LET p == CHOOSE q \in Pos : q \in getChildPosition(n)
       IN reduceNode(resolveBranch(n, p, db).children[p], p)
  ELSE [n EXCEPT !.dirty = TRUE]
\* a child that is not there is a nil interface, whose delete panics; when
\* nothing changed below, nil and not the branch is returned
deleteBranch(n, k, db) ==
  LET m == resolveBranch(n, k[1], db)
  IN IF m.children[k[1]] = Nil THEN Deleted(FALSE, Nil, "panic")
     ELSE LET r == delete(m.children[k[1]], Tail(k), db)
          IN IF ~ r.dirty \/ r.err # "none" THEN Deleted(FALSE, Nil, r.err)
             ELSE Deleted(TRUE, Reduced(Without(m, k[1], r.node), db), "none")
Joined(key, n) ==
  CASE n.t = "leaf" -> newLeafNode(key \o n.key, n.val)
    [] n.t = "ext"  -> newExtensionNode(key \o n.key, n.child)
    [] OTHER        -> newExtensionNode(key, n)
deleteExtension(n, k, db) ==
  IF prefixLen(k, n.key) < Len(n.key) THEN Deleted(FALSE, n, "none")
  ELSE LET m == resolveExtension(n, db)
           r == delete(m.child, After(k, Len(n.key)), db)
       IN IF ~ r.dirty \/ r.err # "none" THEN Deleted(FALSE, m, r.err) ELSE Deleted(TRUE, Joined(n.key, r.node), "none")
deleteLeaf(n, k) == IF prefixLen(k, n.key) = Len(k) THEN Deleted(TRUE, Nil, "none") ELSE Deleted(FALSE, n, "none")
delete(n, k, db) ==
  CASE isEmptyOrNil(n) -> Deleted(FALSE, Nil, "empty")
    [] n.t = "leaf"   -> deleteLeaf(n, k)
    [] n.t = "ext"    -> deleteExtension(n, k, db)
    [] n.t = "branch" -> deleteBranch(n, k, db)

-----------------------------------------------------------------------------
(* The reference: the trie that a content should have, built at once.       *)
RECURSIVE Canonical(_)
Canonical(leaves) ==
  LET one == CHOOSE l \in leaves : TRUE
      common == CHOOSE i \in 0 .. Len(one[1]) :
                  /\ \A l \in leaves : SubSeq(l[1], 1, i) = SubSeq(one[1], 1, i)
                  /\ \A j \in i + 1 .. Len(one[1]) : \E l \in leaves : SubSeq(l[1], 1, j) # SubSeq(one[1], 1, j)
      below(p) == {<<After(l[1], 1), l[2]>> : l \in {m \in leaves : m[1][1] = p}}
      branch == [t |-> "B", enc |-> [p \in Pos |-> IF below(p) = {} THEN Nil ELSE Canonical(below(p))]]
  IN CASE Cardinality(leaves) = 1 -> [t |-> "L", key |-> one[1], val |-> one[2]]
       [] common > 0              -> [t |-> "E", key |-> SubSeq(one[1], 1, common),
                                      enc |-> Canonical({<<After(l[1], common), l[2]>> : l \in leaves})]
       [] OTHER                   -> branch
Stored(c) == {<<keyBytesToHex(k), c[k]>> : k \in {l \in Keys : c[l] # 0}}

-----------------------------------------------------------------------------
(* The operations of patriciaMerkleTrie.                                    *)

(* What can still be read: from the roots of commits and from memory.       *)
RECURSIVE ReachableNodes(_)
ReachableNodes(h) ==
  CASE h.t = "nil" -> {}
    [] h.t = "L"   -> {h}
    [] h.t = "E"   -> {h} \cup ReachableNodes(h.enc)
    [] h.t = "B"   -> {h} \cup UNION {ReachableNodes(h.enc[p]) : p \in Pos}
(* A trie that a commit of some content left behind is loaded.              *)
TrieInit ==
  /\ content \in {[k \in Keys |-> IF k \in old THEN 1 ELSE 0] : old \in SUBSET Keys}
  /\ \E h \in {IF Stored(content) = {} THEN Nil ELSE Canonical(Stored(content))} :
       /\ root = IF h = Nil THEN Nil ELSE decodeNode(h)
       /\ trieDb = {<<g, g>> : g \in ReachableNodes(h)}
       /\ trieRoots = IF h = Nil THEN {} ELSE {[hash |-> h, content |-> content]}
  /\ trieError = "none" /\ trieSteps = 0

KeepReachable(db, roots, n) ==
  LET live == UNION {ReachableNodes(r.hash) : r \in roots} \cup ReachableNodes(Root(n)) IN {e \in db : e[1] \in live}

Step(n) == trieSteps < MaxTrieSteps /\ trieSteps' = trieSteps + 1 /\ root' = n /\ trieDb' = KeepReachable(trieDb, trieRoots, n)

Update(k, v) ==
  /\ Step(IF root = Nil THEN newLeafNode(keyBytesToHex(k), v) ELSE insert(root, keyBytesToHex(k), v, trieDb))
  /\ content' = [content EXCEPT ![k] = v]
  /\ trieError' = "none"
  /\ UNCHANGED trieRoots

(* Delete, and Update with an empty value.  The root is what delete         *)
(* returned, whether or not something changed.                              *)
RECURSIVE Whole(_)
Whole(n) ==
  CASE n.t \in {"nil", "leaf"} -> TRUE
    [] n.t = "ext"    -> ~ isEmptyOrNil(n) /\ Whole(n.child)
    [] n.t = "branch" -> \A p \in Pos : Whole(n.children[p])
Delete(k) ==
  LET r == delete(root, keyBytesToHex(k), trieDb)
  IN /\ root # Nil
     /\ ~ AnyDelete => content[k] # 0 /\ Whole(r.node)
     /\ Step(IF r.err = "none" THEN r.node ELSE root)
     /\ content' = [content EXCEPT ![k] = 0]
     /\ trieError' = r.err
     /\ UNCHANGED trieRoots

TryGet(k) ==
  /\ root # Nil
  /\ Step(Get(root, k, trieDb).node)
  /\ trieError' = "none"
  /\ UNCHANGED <<content, trieRoots>>

(* The roots of the last two commits are kept, as a roll back needs them.   *)
isCollapsed(n) == n.t = "branch" /\ \A p \in Pos : n.children[p] = Nil
Commit ==
  LET r == commit(0, setHash(root))
      h == [hash |-> Root(r.node), content |-> content]
  IN /\ root # Nil /\ ~ isCollapsed(root)
     /\ trieSteps < MaxTrieSteps /\ trieSteps' = trieSteps + 1
     /\ root' = r.node
     /\ \E old \in SUBSET trieRoots :
          /\ Cardinality(old) <= 1
          /\ trieRoots' = old \cup {h}
          /\ trieDb' = KeepReachable(trieDb \cup r.puts, trieRoots', r.node)
     /\ trieError' = "none"
     /\ UNCHANGED content

Recreate(r) ==
  /\ r.hash # Nil
  /\ Step(getNodeFromDBAndDecode(r.hash, trieDb))
  /\ content' = r.content
  /\ trieError' = "none"
  /\ UNCHANGED trieRoots

TrieNext ==
  \/ \E k \in Keys : (\E v \in Values : Update(k, v)) \/ Delete(k) \/ TryGet(k)
  \/ Commit
  \/ \E r \in trieRoots : Recreate(r)

TrieSpec == TrieInit /\ [][TrieNext]_trieVars

-----------------------------------------------------------------------------
(* The trie is a map: every key gives what was last stored under it and not *)
(* removed since, and the leaves are these keys (tryGet, insert, delete,    *)
(* getAllLeaves), whatever of it is in memory.                              *)
TrieIsMap ==
  /\ trieError = "none"
  /\ \A k \in Keys : (IF root = Nil THEN 0 ELSE Get(root, k, trieDb).val) = content[k]
  /\ getAllLeaves(root, <<>>, trieDb) = {<<k, content[k]>> : k \in {l \in Keys : content[l] # 0}}

(* The root hash depends on the content alone, not on the operations,       *)
(* commits and reloads that led to it: nodes that executed the same blocks  *)
(* by different ways agree (setHash, reduceNode, the dirty flags).          *)
RootIsCanonical == Root(root) = IF Stored(content) = {} THEN Nil ELSE Canonical(Stored(content))

(* Every committed root can be loaded and read in full, the current trie    *)
(* never loses what it needs (commit, Recreate).                            *)
CommittedIsReadable ==
  \A r \in trieRoots :
    /\ \E e \in trieDb : e[1] = r.hash
    /\ getAllLeaves(getNodeFromDBAndDecode(r.hash, trieDb), <<>>, trieDb)
         = {<<k, r.content[k]>> : k \in {l \in Keys : r.content[l] # 0}}

(* A proof is found for the keys that are there, and verifies (Prove,       *)
(* VerifyProof).                                                            *)
ProofsVerify ==
  \A k \in Keys : LET p == Prove(root, k, trieDb)
                  IN (p # <<>>) = (content[k] # 0) /\ (p # <<>> => VerifyProof(root, p, k))

=============================================================================
