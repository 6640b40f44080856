-------------------------- MODULE SparseMerkleTree --------------------------
(***************************************************************************)
(* The sparse Merkle tree of smt-circom over its RocksDB store, used by    *)
(* the relayer for the quotas and for the relayed messages of a poll: what *)
(* the other modules take for a map of its leaves is here a set of nodes   *)
(* under their hashes, a root, and a write batch that is staged, written   *)
(* at once or dropped.  The circomlib templates that Relay.circom applies  *)
(* to a proof of the tree are the reference for that proof.                *)
(*                                                                         *)
(* Hashing is an injective constructor: the hash of a node is the node.    *)
(* MemStore is the same store with a write after every operation, for no   *)
(* operation reads a node it has put itself.                               *)
(***************************************************************************)
EXTENDS Integers, FiniteSets

CONSTANTS
    D,        \* depth of the tree (STATE_DEPTH)
    TreeKeys, \* keys in use: nullifiers or message hashes
    Values,   \* values of the leaves
    MaxWrites \* bound: batches written

Bit(k, i) == (k \div 2^i) % 2 = 1

\* push_leaf indexes past the path when two keys agree in all D bits, and
\* get_proof takes a leaf at depth D for an empty place: keys are hashes and
\* differ below that.  Nor is a hash zero, the mark of no key in a proof.
ASSUME TreeAssumption ==
    /\ D \in Nat \ {0}
    /\ TreeKeys \subseteq Nat \ {0}
    /\ \A j, k \in TreeKeys : j # k => \E i \in 0..D - 2 : ~(Bit(j, i) <=> Bit(k, i))
    /\ MaxWrites \in Nat

Zero == [type |-> "zero"]
Leaf(k, v) == [type |-> "leaf", k |-> k, v |-> v]
Middle(l, r) == [type |-> "middle", l |-> l, r |-> r]

\* The node over cur, on the path of key at level lvl, and its sibling.
Above(key, lvl, cur, sibling) ==
    IF Bit(key, lvl) THEN Middle(sibling, cur) ELSE Middle(cur, sibling)

NextOnPath(n, key, lvl) == IF Bit(key, lvl) THEN n.r ELSE n.l
Sibling(n, key, lvl) == IF Bit(key, lvl) THEN n.l ELSE n.r

VARIABLES
    treeDb,     \* nodes in the database
    dbRoot,     \* the root in the database, under the zero key
    writeBatch, \* nodes staged in the write batch
    cachedRoot, \* cached_root of the loaded tree
    phase,      \* where the holder of the tree is: idle, loaded or staged
    content,    \* the entries of the tree in the database
    staged,     \* the entries once the batch is written
    writes      \* batches written so far

treeVars == <<treeDb, dbRoot, writeBatch, cachedRoot, phase, content, staged, writes>>

-----------------------------------------------------------------------------
(* Reading along the path of a key *)

\* The read goes to the database, never to the batch; a hash that is not in
\* it, and the root record under the zero key, count as no node.
Absent(n) == n \notin treeDb

Inner(n) == ~Absent(n) /\ n.type = "middle"

\* The nodes met on the way down from the root.
Walk(key) ==
    LET node[lvl \in 0..D] ==
            IF lvl = 0 THEN cachedRoot ELSE NextOnPath(node[lvl - 1], key, lvl - 1)
    IN  node

\* The level where the loops of update and get_proof stop: the first that
\* has no middle node, or D when there is none.
EndLevel(key) ==
    CHOOSE lvl \in 0..D :
        /\ lvl = D \/ ~Inner(Walk(key)[lvl])
        /\ \A i \in 0..lvl - 1 : Inner(Walk(key)[i])

\* The siblings those loops collect.
Siblings(key) ==
    [i \in 0..D - 1 |->
        IF i < EndLevel(key) THEN Sibling(Walk(key)[i], key, i) ELSE Zero]

\* The nodes over n, which is at level top of the path of key: the j-th one
\* is at level top - j.
Rebuilt(n, key, siblings, top) ==
    LET node[j \in 0..top] ==
            IF j = 0 THEN n
            ELSE Above(key, top - j, node[j - 1], siblings[top - j])
    IN  node

-----------------------------------------------------------------------------
(* Operations: each returns the new root and the nodes it puts, or Failed. *)

Failed == [root |-> Zero, puts |-> {}]

Over(below, n) == [root |-> n, puts |-> below \union {n}]

\* Faulty: the new leaf and the old one change sides.
PushStepSwapped(new, old, lvl, next) ==
    IF Bit(new.k, lvl) <=> Bit(old.k, lvl)
    THEN Over(next.puts, Above(new.k, lvl, next.root, Zero))
    ELSE Over({new}, Above(new.k, lvl, old, new))

\* One call of push_leaf, next being what the call one level down returns:
\* single-child nodes as long as the two keys share a bit, then the node that
\* holds both leaves.
PushStep(new, old, lvl, next) ==
    IF Bit(new.k, lvl) <=> Bit(old.k, lvl)
    THEN Over(next.puts, Above(new.k, lvl, next.root, Zero))
    ELSE Over({new}, Above(new.k, lvl, new, old))

\* At level D there is no bit left.
PushLeaf(new, old) ==
    LET push[lvl \in 0..D] ==
            IF lvl = D THEN Failed ELSE PushStep(new, old, lvl, push[lvl + 1])
    IN  push

\* One call of add_leaf on the node cur; Failed when the key is present.
AddStep(new, cur, lvl, next) ==
    CASE Absent(cur) -> Over({}, new)
      [] Inner(cur) ->
            IF next = Failed THEN Failed
            ELSE Over(next.puts,
                      Above(new.k, lvl, next.root, Sibling(cur, new.k, lvl)))
      [] OTHER ->
            IF cur.k = new.k THEN Failed ELSE PushLeaf(new, cur)[lvl]

AddLeaf(new) ==
    LET add[lvl \in 0..D] ==
            AddStep(new, Walk(new.k)[lvl], lvl,
                    IF lvl = D THEN Failed ELSE add[lvl + 1])
    IN  add

Added(key, val) == AddLeaf(Leaf(key, val))[0]

\* update: Failed when the key is not found within D levels.  The nodes of
\* the path are written anew from the leaf up.
Updated(key, val) ==
    LET lvl == EndLevel(key)
        end == Walk(key)[lvl]
        new == Rebuilt(Leaf(key, val), key, Siblings(key), lvl)
    IN  IF lvl < D /\ ~Absent(end) /\ end.k = key
        THEN [root |-> new[lvl], puts |-> {new[j] : j \in 0..lvl}]
        ELSE Failed

AddedOrUpdated(key, val) ==
    LET added == Added(key, val)
    IN  IF added = Failed THEN Updated(key, val) ELSE added

NotThere(siblings) ==
    [siblings |-> siblings, isOld0 |-> TRUE, oldKey |-> 0, oldValue |-> 0,
     membership |-> FALSE]

\* Faulty: a leaf of another key is reported as no leaf.
AtLeafOfOther(leaf, key, siblings) ==
    [siblings |-> siblings, isOld0 |-> leaf.k # key,
     oldKey |-> leaf.k, oldValue |-> leaf.v, membership |-> leaf.k = key]

AtLeaf(leaf, key, siblings) ==
    [siblings |-> siblings, isOld0 |-> leaf.k = 0,
     oldKey |-> leaf.k, oldValue |-> leaf.v, membership |-> leaf.k = key]

GetProof(key) ==
    LET lvl == EndLevel(key)
        end == Walk(key)[lvl]
    IN  IF lvl = D \/ Absent(end) THEN NotThere(Siblings(key))
        ELSE AtLeaf(end, key, Siblings(key))

-----------------------------------------------------------------------------
(* The relayer's use of a tree *)

NoEntries == [k \in {} |-> 0]

TreeInit ==
    /\ treeDb = {} /\ dbRoot = Zero
    /\ writeBatch = {} /\ cachedRoot = Zero
    /\ phase = "idle"
    /\ content = NoEntries /\ staged = NoEntries
    /\ writes = 0

\* Faulty: a store that is opened before the last batch was written.
LoadedStale ==
    /\ writeBatch' = {}
    /\ cachedRoot' \in {dbRoot, cachedRoot}
    /\ staged' = content

\* load_state: a store over a fresh batch, with the root of the database.
Loaded ==
    /\ writeBatch' = {}
    /\ cachedRoot' = dbRoot
    /\ staged' = content

Load ==
    /\ phase = "idle"
    /\ Loaded
    /\ phase' = "loaded"
    /\ UNCHANGED <<treeDb, dbRoot, content, writes>>

\* One operation per tree and batch, as relay_inner does it, or its error,
\* on which relay_inner returns and the batch goes out of scope.
Stage(result, key, val) ==
    /\ phase = "loaded"
    /\ UNCHANGED <<treeDb, dbRoot, content, writes>>
    /\ \/ /\ result = Failed
          /\ phase' = "idle"
          /\ UNCHANGED <<writeBatch, cachedRoot, staged>>
       \/ /\ result # Failed
          /\ phase' = "staged"
          /\ writeBatch' = writeBatch \union result.puts
          /\ cachedRoot' = result.root
          /\ staged' = [k \in DOMAIN staged \union {key} |->
                           IF k = key THEN val ELSE staged[k]]

Add(key, val) == Stage(Added(key, val), key, val)
Update(key, val) == Stage(Updated(key, val), key, val)
AddOrUpdate(key, val) == Stage(AddedOrUpdated(key, val), key, val)

\* db.write: nodes and root at once.
Write ==
    /\ phase = "staged"
    /\ writes < MaxWrites
    /\ treeDb' = treeDb \union writeBatch
    /\ dbRoot' = cachedRoot
    /\ content' = staged
    /\ writes' = writes + 1
    /\ phase' = "idle"
    /\ UNCHANGED <<writeBatch, cachedRoot, staged>>

\* An error, a dropped handler or a crash between the operation and the
\* write: the batch is lost.
Discard ==
    /\ phase \in {"loaded", "staged"}
    /\ phase' = "idle"
    /\ UNCHANGED <<treeDb, dbRoot, writeBatch, cachedRoot, content, staged, writes>>

TreeNext ==
    \/ Load
    \/ \E key \in TreeKeys, val \in Values :
          Add(key, val) \/ Update(key, val) \/ AddOrUpdate(key, val)
    \/ Write
    \/ Discard

TreeSpec == TreeInit /\ [][TreeNext]_treeVars

-----------------------------------------------------------------------------
(* What the circuit makes of a proof: SMTVerifier and SMTProcessor *)

\* SMTLevIns: the level under the last sibling that is not zero.
LevIns(siblings) ==
    LET used == {i \in 0..D - 1 : siblings[i] # Zero}
    IN  IF used = {} THEN 0
        ELSE 1 + CHOOSE i \in used : \A j \in used : j <= i

\* The root over a node at level lvl of the path of key.
Fold(n, key, siblings, lvl) == Rebuilt(n, key, siblings, lvl)[lvl]

\* The node the proof claims to be where the key's path ends.
ClaimedEnd(p) == IF p.isOld0 THEN Zero ELSE Leaf(p.oldKey, p.oldValue)

VerifiesPresent(p, key, val) ==
    /\ ~p.isOld0
    /\ p.siblings[D - 1] = Zero
    /\ cachedRoot = Fold(Leaf(key, val), key, p.siblings, LevIns(p.siblings))

VerifiesAbsent(p, key) ==
    /\ p.siblings[D - 1] = Zero
    /\ ~p.isOld0 => p.oldKey # key
    /\ cachedRoot = Fold(ClaimedEnd(p), key, p.siblings, LevIns(p.siblings))

\* The root after inserting a leaf, or updating the one that is there.  An
\* insertion beside an old leaf goes down to the first bit they differ in.
ProcessedRoot(p, key, val, insert) ==
    LET lvl == LevIns(p.siblings)
        d   == CHOOSE i \in lvl..D - 1 :
                   /\ ~(Bit(key, i) <=> Bit(p.oldKey, i))
                   /\ \A j \in lvl..i - 1 : Bit(key, j) <=> Bit(p.oldKey, j)
    IN  IF insert /\ ~p.isOld0
        THEN Fold(Leaf(key, val), key, [p.siblings EXCEPT ![d] = ClaimedEnd(p)], d + 1)
        ELSE Fold(Leaf(key, val), key, p.siblings, lvl)

-----------------------------------------------------------------------------
(* Properties *)

EntriesType == UNION {[ks -> Values] : ks \in SUBSET TreeKeys}

\* The entries on either side of a node at level lvl.
Left(entries, lvl) ==
    [k \in {j \in DOMAIN entries : ~Bit(j, lvl)} |-> entries[k]]
Right(entries, lvl) ==
    [k \in {j \in DOMAIN entries : Bit(j, lvl)} |-> entries[k]]

\* The tree of no entries, and the tree over two others.
NoTree == [root |-> Zero, nodes |-> {}]
Join(l, r) ==
    [root |-> Middle(l.root, r.root),
     nodes |-> {Middle(l.root, r.root)} \union l.nodes \union r.nodes]

\* One level of a tree of entries, below having those of the next level.
TreeStep(e, lvl, below) ==
    IF DOMAIN e = {} THEN NoTree
    ELSE IF \E k \in TreeKeys : DOMAIN e = {k}
    THEN LET leaf == CHOOSE n \in {Leaf(k, e[k]) : k \in DOMAIN e} : TRUE
         IN  [root |-> leaf, nodes |-> {leaf}]
    ELSE Join(below[Left(e, lvl)], below[Right(e, lvl)])

\* The tree of some entries, whatever the order they came in, by level.
CanonicalTree ==
    LET tree[lvl \in 0..D] ==
            [e \in EntriesType |->
                TreeStep(e, lvl, IF lvl = D THEN [x \in EntriesType |-> NoTree]
                                 ELSE tree[lvl + 1])]
    IN  tree

Canonical(entries) == CanonicalTree[0][entries]

\* A store that was just opened shows the database: nothing is staged and its
\* cached root is the stored one (RocksStore::new on a fresh batch).
TreeTypeOK ==
    /\ phase \in {"idle", "loaded", "staged"}
    /\ writes \in 0..MaxWrites
    /\ content \in EntriesType
    /\ staged \in EntriesType
    /\ Zero \notin treeDb \union writeBatch
    /\ phase = "loaded" => writeBatch = {} /\ cachedRoot = dbRoot

\* However its entries were added, updated, dropped and retried, the tree in
\* the database is the one tree of those entries, with every node of it, and
\* so is the staged one: two relayers, and the chain, agree on a root when
\* they agree on what was relayed (add, update, RocksStore, db.write).
TreeIsCanonical ==
    /\ dbRoot = Canonical(content).root
    /\ Canonical(content).nodes \subseteq treeDb
    /\ phase = "staged" =>
          /\ cachedRoot = Canonical(staged).root
          /\ Canonical(staged).nodes \subseteq treeDb \union writeBatch

\* For every key, present or not, the proof of a loaded tree convinces the
\* circuit of the truth, and the circuit then computes the root to which the
\* tree itself moves: no honest message is refused for want of a proof
\* (get_proof; SMTVerifier and SMTProcessor in Relay.circom).
ProofsMeetCircuit ==
    phase = "loaded" =>
        \A key \in TreeKeys, val \in Values :
            LET p       == GetProof(key)
                present == key \in DOMAIN content
            IN  /\ p.membership = present
                /\ IF present
                   THEN /\ VerifiesPresent(p, key, content[key])
                        /\ p.oldValue = content[key]
                        /\ ProcessedRoot(p, key, val, FALSE) = Updated(key, val).root
                        /\ Added(key, val) = Failed
                   ELSE /\ VerifiesAbsent(p, key)
                        /\ ProcessedRoot(p, key, val, TRUE) = Added(key, val).root
                        /\ Updated(key, val) = Failed
=============================================================================
