-------------------------- MODULE MerkleSearchTree --------------------------
(***************************************************************************)
(* The Merkle search tree of hono-factory-atproto-repo/mst/mst.ts and the  *)
(* commits repo.ts makes with it.  A key is a number and Zeros[k] the      *)
(* count leadingZerosOnHash gives for it.  A leaf is [key, val], a node    *)
(* [layer, entries]; a stored node has no layer, so its CID is modelled by *)
(* its entries alone, all the way down.  Every applyWrites loads the tree  *)
(* from the root of the last commit.                                       *)
(***************************************************************************)
EXTENDS Integers, Sequences, FiniteSets, SequencesExt

CONSTANTS
    Zeros,       \* the layer of each key 1..Len(Zeros)
    Values,
    MaxCommits   \* bound on the commits

MstKeys == DOMAIN Zeros

VARIABLES
    mstRoot,     \* entries of the tree of the head commit
    mstTree,     \* #tree of the applyWrites under way
    mstAll,      \* #all, the flat cache
    committed,   \* history: the records of the head commit, as its writers asked
    wanted,      \* history: the records the applyWrites under way asks for
    fresh,       \* history: #tree was never loaded from storage nor emptied
    commits

mstVars == <<mstRoot, mstTree, mstAll, committed, wanted, fresh, commits>>

-----------------------------------------------------------------------------
(* Nodes                                                                   *)

IsLeaf(e) == "key" \in DOMAIN e
Leaf(k, v) == [key |-> k, val |-> v]
Failed == [layer |-> -1, entries |-> <<>>]     \* an exception
Missing == [none |-> TRUE]                      \* null
IsNode(e) == "entries" \in DOMAIN e

\* newTree and create: an exception in a part is one of the whole.
NewTree(layer, es) ==
    IF \E i \in DOMAIN es : es[i] = Failed THEN Failed ELSE [layer |-> layer, entries |-> es]

\* atIndex
At(n, i) == IF i \in DOMAIN n.entries THEN n.entries[i] ELSE Missing

\* findGtOrEqualLeafIndex
GtOrEqual(n, k) ==
    LET above == {i \in DOMAIN n.entries : IsLeaf(n.entries[i]) /\ n.entries[i].key >= k}
    IN  IF above = {} THEN Len(n.entries) + 1 ELSE CHOOSE i \in above : \A j \in above : i <= j

\* replaceWithSplit, spliceIn, updateEntry and removeEntry all put es in the
\* place of the entries from i to j.
Splice(n, i, j, es) ==
    NewTree(n.layer, SubSeq(n.entries, 1, i - 1) \o es \o SubSeq(n.entries, j + 1, Len(n.entries)))

\* The entries a node contributes: none when it is null.
OrNothing(n) == IF n = Missing THEN <<>> ELSE <<n>>

-----------------------------------------------------------------------------
(* Operations on nodes                                                     *)

\* Mutation: the part of a split subtree above the key is dropped.
RECURSIVE SplitAroundDropsRight(_, _)
SplitAroundDropsRight(n, k) ==
    LET i == GtOrEqual(n, k)
        l == SubSeq(n.entries, 1, i - 1)
        r == SubSeq(n.entries, i, Len(n.entries))
        deep == l # <<>> /\ IsNode(Last(l))
        left == IF deep THEN Front(l) \o OrNothing(SplitAroundDropsRight(Last(l), k)[1]) ELSE l
        node(es) == IF es = <<>> THEN Missing ELSE NewTree(n.layer, es)
    IN  <<node(left), node(r)>>

RECURSIVE SplitAround(_, _)
SplitAround(n, k) ==
    LET i == GtOrEqual(n, k)
        l == SubSeq(n.entries, 1, i - 1)
        r == SubSeq(n.entries, i, Len(n.entries))
        deep == l # <<>> /\ IsNode(Last(l))
        sub == IF deep THEN SplitAround(Last(l), k) ELSE <<Missing, Missing>>
        left == IF deep THEN Front(l) \o OrNothing(sub[1]) ELSE l
        right == IF deep THEN OrNothing(sub[2]) \o r ELSE r
        node(es) == IF es = <<>> THEN Missing ELSE NewTree(n.layer, es)
    IN  <<node(left), node(right)>>

RECURSIVE AppendMerge(_, _)
AppendMerge(n, m) ==
    IF n.layer # m.layer THEN Failed
    ELSE IF n.entries # <<>> /\ m.entries # <<>>
            /\ IsNode(Last(n.entries)) /\ IsNode(Head(m.entries))
    THEN NewTree(n.layer, Front(n.entries) \o <<AppendMerge(Last(n.entries), Head(m.entries))>>
                              \o Tail(m.entries))
    ELSE NewTree(n.layer, n.entries \o m.entries)

RECURSIVE TrimTop(_)
TrimTop(n) ==
    IF Len(n.entries) = 1 /\ IsNode(n.entries[1]) THEN TrimTop(n.entries[1]) ELSE n

\* createParent, repeated.
RECURSIVE Raise(_, _)
Raise(n, times) ==
    IF n = Missing \/ times <= 0 THEN n ELSE Raise(NewTree(n.layer + 1, <<n>>), times - 1)

RECURSIVE Add(_, _)
Add(n, leaf) ==
    LET k == leaf.key
        i == GtOrEqual(n, k)
        prev == At(n, i - 1)
        split == SplitAround(prev, k)
        top == SplitAround(n, k)
        up(x) == OrNothing(Raise(x, Zeros[k] - n.layer - 1))
    IN  CASE Zeros[k] = n.layer /\ IsLeaf(At(n, i)) /\ At(n, i).key = k -> Failed
          [] Zeros[k] = n.layer /\ IsNode(prev) ->
                 Splice(n, i - 1, i - 1, OrNothing(split[1]) \o <<leaf>> \o OrNothing(split[2]))
          [] Zeros[k] = n.layer -> Splice(n, i, i - 1, <<leaf>>)
          [] Zeros[k] < n.layer /\ IsNode(prev) -> Splice(n, i - 1, i - 1, <<Add(prev, leaf)>>)
          [] Zeros[k] < n.layer -> Splice(n, i, i - 1, <<Add(NewTree(n.layer - 1, <<>>), leaf)>>)
          [] OTHER -> NewTree(Zeros[k], up(top[1]) \o <<leaf>> \o up(top[2]))

RECURSIVE Get(_, _)
Get(n, k) ==
    LET i == GtOrEqual(n, k) IN
    IF IsLeaf(At(n, i)) /\ At(n, i).key = k THEN At(n, i)
    ELSE IF IsNode(At(n, i - 1)) THEN Get(At(n, i - 1), k) ELSE Missing

RECURSIVE Update(_, _)
Update(n, leaf) ==
    LET i == GtOrEqual(n, leaf.key) IN
    IF IsLeaf(At(n, i)) /\ At(n, i).key = leaf.key THEN Splice(n, i, i, <<leaf>>)
    ELSE IF IsNode(At(n, i - 1)) THEN Splice(n, i - 1, i - 1, <<Update(At(n, i - 1), leaf)>>)
    ELSE Failed

\* Mutation: the subtrees on both sides of the removed leaf are not merged.
RECURSIVE DeleteRecurseUnmerged(_, _)
DeleteRecurseUnmerged(n, k) ==
    LET i == GtOrEqual(n, k)
        prev == At(n, i - 1)
        sub == DeleteRecurseUnmerged(prev, k)
    IN  IF IsLeaf(At(n, i)) /\ At(n, i).key = k
        THEN IF IsNode(prev) /\ IsNode(At(n, i + 1)) THEN Splice(n, i, i + 1, <<>>)
             ELSE Splice(n, i, i, <<>>)
        ELSE IF ~IsNode(prev) THEN Failed
        ELSE IF sub # Failed /\ sub.entries = <<>> THEN Splice(n, i - 1, i - 1, <<>>)
        ELSE Splice(n, i - 1, i - 1, <<sub>>)

RECURSIVE DeleteRecurse(_, _)
DeleteRecurse(n, k) ==
    LET i == GtOrEqual(n, k)
        prev == At(n, i - 1)
        sub == DeleteRecurse(prev, k)
    IN  IF IsLeaf(At(n, i)) /\ At(n, i).key = k
        THEN IF IsNode(prev) /\ IsNode(At(n, i + 1))
             THEN Splice(n, i - 1, i + 1, <<AppendMerge(prev, At(n, i + 1))>>)
             ELSE Splice(n, i, i, <<>>)
        ELSE IF ~IsNode(prev) THEN Failed
        ELSE IF sub # Failed /\ sub.entries = <<>> THEN Splice(n, i - 1, i - 1, <<>>)
        ELSE Splice(n, i - 1, i - 1, <<sub>>)

-----------------------------------------------------------------------------
(* Storage                                                                 *)

\* serializeNodeData refuses two subtrees next to each other, at any depth.
RECURSIVE Serializable(_)
Serializable(n) ==
    /\ \A i \in 1..(Len(n.entries) - 1) : IsLeaf(n.entries[i]) \/ IsLeaf(n.entries[i + 1])
    /\ \A i \in DOMAIN n.entries : IsNode(n.entries[i]) => Serializable(n.entries[i])

\* serialize: what the CID of a node is computed from.
RECURSIVE Stored(_)
Stored(n) ==
    [i \in DOMAIN n.entries |-> IF IsLeaf(n.entries[i]) THEN n.entries[i]
                                ELSE [sub |-> Stored(n.entries[i])]]

\* loadTree and deserializeNodeData: the layer is that of the first leaf, and
\* 0 for a node without leaves.
RECURSIVE LoadTree(_)
LoadTree(s) ==
    LET leaves == {i \in DOMAIN s : IsLeaf(s[i])}
        first == CHOOSE i \in leaves : \A j \in leaves : i <= j
    IN  [layer |-> IF leaves = {} THEN 0 ELSE Zeros[s[first].key],
         entries |-> [i \in DOMAIN s |-> IF IsLeaf(s[i]) THEN s[i] ELSE LoadTree(s[i].sub)]]

RECURSIVE WalkLeaves(_)
WalkLeaves(n) ==
    FlattenSeq([i \in DOMAIN n.entries |->
                   IF IsLeaf(n.entries[i]) THEN <<n.entries[i]>> ELSE WalkLeaves(n.entries[i])])

\* collectAllBlocks of repo/car.ts: the subtree on the left of a node and the
\* records of its entries.  A node that is read again adds nothing.
RECURSIVE CollectAllBlocks(_)
CollectAllBlocks(s) ==
    {s[i] : i \in {j \in DOMAIN s : IsLeaf(s[j])}}
        \cup (IF s # <<>> /\ ~IsLeaf(s[1]) THEN CollectAllBlocks(s[1].sub) ELSE {})

\* com.atproto.sync.getRepo exports from the root of the head commit.
GetRepo == CollectAllBlocks(mstRoot)

-----------------------------------------------------------------------------
(* Commits                                                                 *)

MstInit ==
    /\ mstRoot = <<>> /\ mstTree = NewTree(0, <<>>) /\ mstAll = {}
    /\ committed = {} /\ wanted = {} /\ fresh = TRUE /\ commits = 0

KeyIn(leaves, k) == \E e \in leaves : e.key = k
Without(leaves, k) == {e \in leaves : e.key # k}

\* Mst.init of the next applyWrites on the head commit.
Reload(root, records, isFresh) ==
    /\ mstTree' = LoadTree(root)
    /\ mstAll' = Range(WalkLeaves(LoadTree(root)))
    /\ wanted' = records
    /\ fresh' = isFresh

\* Mst.set within applyWrites; an exception ends applyWrites without a commit.
MstSet(k, v) ==
    LET leaf == Leaf(k, v)
        new == IF KeyIn(mstAll, k) THEN Update(mstTree, leaf) ELSE Add(mstTree, leaf)
    IN  /\ commits < MaxCommits
        /\ IF new # Failed /\ Serializable(new)
           THEN /\ mstTree' = new
                /\ mstAll' = Without(mstAll, k) \cup {leaf}
                /\ wanted' = Without(wanted, k) \cup {leaf}
                /\ UNCHANGED fresh
           ELSE Reload(mstRoot, committed, FALSE)
        /\ UNCHANGED <<mstRoot, committed, commits>>

\* Mst.delete: when the tree refuses, only the cache forgets the key and the
\* root stays.  A tree that is empty keeps its layer.
MstDelete(k) ==
    LET cut == DeleteRecurse(mstTree, k)
        new == IF cut = Failed THEN Failed ELSE TrimTop(cut)
    IN  /\ commits < MaxCommits
        /\ KeyIn(mstAll, k)
        /\ IF new # Failed /\ ~Serializable(new) THEN Reload(mstRoot, committed, FALSE)
           ELSE /\ mstTree' = IF new = Failed THEN mstTree ELSE new
                /\ mstAll' = Without(mstAll, k)
                /\ wanted' = Without(wanted, k)
                /\ fresh' = (fresh /\ new # Failed /\ new.entries # <<>>)
        /\ UNCHANGED <<mstRoot, committed, commits>>

\* The rest of applyWrites: the commit points at the new root (an empty node
\* when there are no records); the next applyWrites loads it.
MstCommit ==
    /\ commits < MaxCommits
    /\ wanted # committed \/ mstTree # LoadTree(mstRoot)
    /\ commits' = commits + 1
    /\ mstRoot' = Stored(mstTree)
    /\ committed' = wanted
    /\ Reload(mstRoot', wanted, FALSE)

MstNext ==
    \/ \E k \in MstKeys, v \in Values : MstSet(k, v)
    \/ \E k \in MstKeys : MstDelete(k)
    \/ MstCommit

MstSpec == MstInit /\ [][MstNext]_mstVars

-----------------------------------------------------------------------------
(* Properties                                                              *)

\* The tree the specification of the format gives to a set of leaves, seen
\* from a layer: leaves of lower layers between two of this layer go into one
\* subtree.
RECURSIVE CanonicalAt(_, _)
CanonicalAt(leaves, layer) ==
    LET here == SetToSortSeq({e \in leaves : Zeros[e.key] = layer}, LAMBDA a, b : a.key < b.key)
        n == Len(here)
        between(i) == {e \in leaves : /\ Zeros[e.key] < layer
                                      /\ i = 0 \/ e.key > here[i].key
                                      /\ i = n \/ e.key < here[i + 1].key}
        below(i) == IF between(i) = {} THEN <<>>
                    ELSE <<[sub |-> CanonicalAt(between(i), layer - 1)]>>
    IN  FlattenSeq([i \in 1..(n + 1) |-> IF i = 1 THEN below(0) ELSE <<here[i - 1]>> \o below(i - 1)])

Canonical(leaves) ==
    IF leaves = {} THEN <<>>
    ELSE CanonicalAt(leaves, CHOOSE l \in {Zeros[e.key] : e \in leaves} :
                                 \A e \in leaves : Zeros[e.key] <= l)

\* Every record written and not deleted is found by a search of the tree of
\* the head commit, over any number of commits, reloads and mislabelled
\* layers.
CommittedIsFound == \A e \in committed : Get(LoadTree(mstRoot), e.key) = e

\* Whatever the order of its sets and deletes, the first applyWrites of a
\* repository builds exactly the tree the format prescribes for its records, as
\* long as no delete empties the tree: an emptied tree keeps its layer, and what
\* is added to it then hangs below that.
FirstTreeIsCanonical == fresh => Stored(mstTree) = Canonical(wanted)

\* PLAN.md of the factory, "deleteRecord removes": the tree of the head commit
\* holds no record that was deleted.
DeletedIsGone == \A e \in Range(WalkLeaves(LoadTree(mstRoot))) : KeyIn(committed, e.key)

\* The comment of exportCar: "Includes the root commit, all MST nodes, and all
\* record blocks."
ExportIsWhole == GetRepo = committed

\* The tree finds what was committed, whatever splits and merges the writes
\* before it caused, and the first applyWrites builds the canonical tree until a
\* delete empties it.
TreeIsSound == CommittedIsFound /\ FirstTreeIsCanonical
=============================================================================
