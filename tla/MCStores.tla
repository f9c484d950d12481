------------------------------ MODULE MCStores ------------------------------
(***************************************************************************)
(* Small instances of what keeps state for others: the repository with its *)
(* tree, blocks and feed, the PLC directory, the package registry, and the *)
(* providers' droplets, images, keys, grants and policies.  They share no  *)
(* variable.  focus names the one that moves in a behaviour while the      *)
(* others rest in an initial state, so that TLC explores their state       *)
(* spaces side by side and not their product.                              *)
(***************************************************************************)
EXTENDS MerkleSearchTree, BlockCodec, AtprotoRepo, PlcDirectory, PackageStore,
        PackageRoutes, DropletApi, QemuImage, AccessControl, DigitalOceanRbac

VARIABLE focus

\* Four keys on three layers: one key is alone on the top.
MCZeros == <<0, 1, 2, 0>>

\* Values around every boundary of the encoding: of the first byte, of one and
\* two bytes, of a word, of MAX_SAFE_INTEGER, maps in several key orders, alone
\* and inside of others, texts that change on their way, and a link with a key
\* beside it.
IntOf(n)  == [t |-> "int", n |-> n]
TextOf(s) == [t |-> "text", s |-> s]
LinkTo(n) == [t |-> "link", c |-> CidFromDigest(n)]
MapOf(s)  == [t |-> "map", s |-> s]
MapIn(s)  == [t |-> "array", s |-> <<MapOf(s)>>]
MCInputs ==
    {IntOf(n) : n \in {-2049, -9, -1, 0, 1, 2, 7, 8, 63, 64, 2047, 4096, 4097, 6143, 9000}}
      \cup {[t |-> "bytes", s |-> <<0, 5, 7>>], [t |-> "simple", n |-> 1],
            TextOf(<<1, 2, 3, 4, 5, 6, 7, 1, 2>>), LinkTo(6),
            [t |-> "array", s |-> <<IntOf(64), LinkTo(2)>>],
            MapOf(<< <<<<2>>, IntOf(9)>>, <<<<1, 1>>, TextOf(<<>>)>>, <<<<1>>, IntOf(0)>> >>),
            MapOf(<< <<<<1>>, IntOf(0)>>, <<<<1, 1>>, TextOf(<<>>)>>, <<<<2>>, IntOf(9)>> >>),
            MapOf(<< <<<<1>>, MapOf(<< <<<<2>>, IntOf(9)>>, <<<<1>>, LinkTo(2)>> >>)>> >>),
            MapOf(<< <<<<1>>, MapOf(<< <<<<1>>, LinkTo(2)>>, <<<<2>>, IntOf(9)>> >>)>> >>),
            MapIn(<< <<<<2>>, IntOf(9)>>, <<<<1>>, IntOf(0)>> >>),
            MapIn(<< <<<<1>>, IntOf(0)>>, <<<<2>>, IntOf(9)>> >>),
            TextOf(<<ByteOrderMark, 1>>), TextOf(<<1, ByteOrderMark>>), TextOf(<<LoneSurrogate>>),
            MapOf(<< <<<<ByteOrderMark, 1>>, IntOf(0)>>, <<<<1>>, IntOf(2)>> >>),
            [t |-> "linkand", c |-> CidFromDigest(6), s |-> << <<<<1>>, IntOf(0)>> >>],
            MapOf(<< <<<<1>>, IntOf(2048)>> >>)}

MCWrites == {[id |-> 1, action |-> "create", key |-> 1], [id |-> 2, action |-> "create", key |-> 2],
             [id |-> 3, action |-> "delete", key |-> 1]}

\* A genesis, an update, another one or a recovery, what follows the first
\* update, and a legacy create; not every key may sign after each of them.
PlcOp(id, type, prev, keys) == [id |-> id, type |-> type, prev |-> prev, signer |-> "a", keys |-> keys]
MCPlcOps == {PlcOp(1, "plc_operation", 0, {"a", "b"}), PlcOp(2, "plc_operation", 1, {"a"}),
             PlcOp(3, "plc_operation", 1, {"a", "c"}), PlcOp(4, "plc_operation", 2, {"b"}),
             PlcOp(5, "plc_tombstone", 2, {}), PlcOp(6, "create", 0, {})}

\* One version with two tags, "1.0.0" the first in git's order.
MCVersionOf == [t \in Tags |-> "1.0.0"]
MCOrder     == [t \in Tags |-> IF t = "v1.0.0" THEN 2 ELSE 1]
MCRequests  == {[id |-> 1, kind |-> "file", version |-> "1.0.0"], [id |-> 2, kind |-> "versionMeta", version |-> "v1.0.0"],
                [id |-> 3, kind |-> "packageMeta", version |-> "1.0.0"]}

\* A package with a scope and one without, which import each other and a third;
\* a tree whose exports map names a file it does not have.
PackageA == [scope |-> <<"s">>, name |-> "a"]
PackageB == [scope |-> <<"s">>, name |-> "b"]
PackageC == [scope |-> <<>>, name |-> "c"]
MCPackages       == {PackageA, PackageC}
MCVersions       == <<"0.1.0-main", "1.0.0">>
MCBranchVersions == <<"0.1.0-main">>
MCBranchRefs     == <<"$main">>
MCTrees == {[files |-> <<"lib.ts", "mod.ts">>, export |-> "lib.ts"], [files |-> <<"x.ts">>, export |-> NoFile],
            [files |-> <<"x.ts">>, export |-> "gone.ts"]}
MCJsrImports == [p \in Packages |-> IF p = PackageA THEN {PackageB, PackageC} ELSE {PackageA}]

\* A droplet's own account deletes it, and another account tries to.
MCActxOf   == [d \in Droplets |-> "a"]
MCApiCalls == {[id |-> 1, actx |-> "a"], [id |-> 1, actx |-> "b"]}

\* Two requests of one guest, for a token and with it, and one of a caller.
MCReqs == {[id |-> 1, kind |-> "prove", who |-> "g1"], [id |-> 2, kind |-> "issue", who |-> "g1"],
           [id |-> 4, kind |-> "account", who |-> "c1"]}

\* One bidder with two provisionings in its clone, and another with one.
MCBidderOf == [v \in DoVms |-> IF v = "v3" THEN "b2" ELSE "b1"]

Parts == {"mst", "codec", "repo", "plc", "packages", "routes", "droplets", "image", "access", "allow", "do"}

storesVars == <<focus, mstVars, codecVars, repoVars, plcVars, packageVars, routeVars,
                apiVars, imageVars, accessVars, doVars>>

\* What rests, rests in one initial state.
Pinned(part, P) == focus # part => P

\* Guests with their grants and callers with their allowlist ask in two parts of
\* the run; no step of one reads what the other writes.
Aside ==
    LET still == IF focus = "allow" THEN Reqs \ {r \in Reqs : r.kind = "account"}
                 ELSE {r \in Reqs : r.kind = "account"}
    IN  /\ \A r \in still : req'[r].at = "none"
        /\ IF focus = "allow" THEN roleRecs' = {} ELSE allowRecs' = {}

StoresInit ==
    /\ focus \in Parts
    /\ MstInit /\ CodecInit /\ RepoInit /\ PlcInit /\ StoreInit /\ RoutesInit
    /\ ApiInit /\ ImageInit /\ AccessInit /\ DoInit
    /\ Pinned("routes", direct /\ storeMode = "git")
    /\ Pinned("droplets", asContainer)

StoresNext ==
    /\ IF focus = "mst" THEN MstNext ELSE UNCHANGED mstVars
    /\ IF focus = "codec" THEN CodecNext ELSE UNCHANGED codecVars
    /\ IF focus = "repo" THEN RepoNext ELSE UNCHANGED repoVars
    /\ IF focus = "plc" THEN PlcNext ELSE UNCHANGED plcVars
    /\ IF focus = "packages" THEN StoreNext ELSE UNCHANGED packageVars
    /\ IF focus = "routes" THEN RoutesNext ELSE UNCHANGED routeVars
    /\ IF focus = "droplets" THEN ApiNext ELSE UNCHANGED apiVars
    /\ IF focus = "image" THEN ImageNext ELSE UNCHANGED imageVars
    /\ IF focus \in {"access", "allow"} THEN AccessNext /\ Aside ELSE UNCHANGED accessVars
    /\ IF focus = "do" THEN DoNext ELSE UNCHANGED doVars
    /\ UNCHANGED focus

\* A subscription of the repository goes on when it is the one that moves.
StoresSpec ==
    /\ StoresInit /\ [][StoresNext]_storesVars
    /\ \A s \in RepoSubs : WF_repoVars(focus = "repo" /\ FeedStep(s))

\* The data of the repository, the tree of mst.ts and the bytes of dag-cbor.ts
\* and car.ts, give back what was put into them after any sequence of edits,
\* commits, reloads and imports.
DataIsSound == TreeIsSound /\ BlocksAreSound

\* Or-ing the shifted groups of a varint is adding them, where no two share a bit.
ASSUME OrIsSum ==
    \A n \in 0..(Word - 1) : OrOfGroups([i \in DOMAIN Varint(n) |-> Varint(n)[i] % Half]) = n

\* Filtering by indices is filtering by a condition.
ASSUME AtIndicesIsSelectSeq ==
    \A n \in 0..4 : \A f \in [1..n -> 1..3] :
        AtIndices(f, {i \in 1..n : f[i] > 1}) = SelectSeq(f, LAMBDA x : x > 1)
=============================================================================
