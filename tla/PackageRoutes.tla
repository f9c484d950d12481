---------------------------- MODULE PackageRoutes ----------------------------
(***************************************************************************)
(* The routes of the package registry: hono-factory-package-registry over  *)
(* any store, mounted and registered by ephemeral-package-registry.        *)
(*                                                                         *)
(* A path is a sequence of segments and a segment a sequence of atoms, the *)
(* atom "@" and names, so that the regular expressions of the two parsers  *)
(* keep their meaning: "@s/n@v/f" is << <<"@","s">>, <<"n","@","v">>,      *)
(* <<"f">> >>.  A package is [scope, name] with scope NoScope when it has  *)
(* none.  What a version of a package holds is a tree, [files, export];    *)
(* versions and trees change while the registry answers.                   *)
(***************************************************************************)
EXTENDS Naturals, Sequences, FiniteSets, SequencesExt

CONSTANTS
    Packages,      \* [scope, name]
    Versions,      \* sequence, in the order list() gives them
    BranchVersions,\* the versions that start with "0.1.0-", the preferred first
    BranchRefs,    \* "$main", "$master": never listed, asked for as a last resort
    Semver,        \* the versions SEMVER_RE accepts
    Trees,         \* [files, export]: its files, and what its exports map gives for "."
    NoFile,        \* the export of a tree without an exports map
    JsrImports,    \* package -> packages its deno.json imports from jsr:
    MaxChanges     \* bound on changes of the store

\* What a version holds for which get() has nothing.
NoTree == [files |-> <<>>, export |-> NoFile]

ASSUME RoutesAssumption ==
    /\ IsFiniteSet(Packages)
    /\ Packages \subseteq [scope : Seq(STRING), name : STRING \ {"@"}]
    /\ Versions \in Seq(STRING) /\ BranchVersions \in Seq(STRING) /\ BranchRefs \in Seq(STRING)
    /\ Semver \subseteq Range(Versions) /\ Range(BranchVersions) \subseteq Range(Versions)
    /\ Trees \subseteq [files : Seq(STRING \ {NoFile}), export : STRING]
    /\ NoTree \notin Trees /\ NoFile \notin {"mod.ts", "mod.js"}
    /\ MaxChanges \in Nat

AllVersions == Range(Versions) \cup Range(BranchRefs)

VARIABLES
    regStage,     \* createEphemeralPackageRegistry: how far it is
    direct,       \* --direct, no relay and no did:plc
    storeMode,    \* --store
    plcKnows,     \* the directory has the genesis operation of this key
    listed,       \* package -> versions list() gives
    content,      \* package -> version -> its tree, NoTree when get() has none
    changes,      \* changes of the store
    mapping,      \* the import map being made: packages left, or "idle"
    snapshot,     \* what list() gave it
    importMap,    \* specifier -> path or pass-through, in the making or finished
    madeFrom,     \* history: package -> its versions when its entry was made
    answered      \* who answered the last request for a path

routeVars == <<regStage, direct, storeMode, plcKnows, listed, content, changes, mapping, snapshot,
               importMap, madeFrom, answered>>
storeVars == <<listed, content, changes>>
mapVars == <<mapping, snapshot, importMap, madeFrom>>
bootVars == <<regStage, direct, storeMode, plcKnows>>

NoScope == <<>>
NoAnswer == "nobody"
Idle == <<[scope |-> NoScope, name |-> ""]>>

RoutesInit ==
    /\ regStage = "key" /\ direct \in BOOLEAN /\ storeMode \in {"git", "local", "pds"}
    /\ plcKnows = FALSE
    /\ listed = [p \in Packages |-> {}] /\ changes = 0
    /\ content = [p \in Packages |-> [v \in AllVersions |-> NoTree]]
    /\ mapping = Idle /\ snapshot = listed /\ importMap = <<>> /\ madeFrom = <<>> /\ answered = NoAnswer

-----------------------------------------------------------------------------
(* createEphemeralPackageRegistry                                          *)

\* resolve first, so that a restart with the same key does not submit again;
\* any error but "not found" ends the start.
ResolveOwnDid ==
    /\ regStage = "key"
    /\ \/ direct /\ regStage' = "store"
       \/ ~direct /\ regStage' = IF plcKnows THEN "store" ELSE "submit"
       \/ ~direct /\ regStage' = "failed"
    /\ UNCHANGED <<direct, storeMode, plcKnows, storeVars, mapVars, answered>>

SubmitGenesis ==
    /\ regStage = "submit"
    /\ \/ plcKnows' = TRUE /\ regStage' = "store"
       \/ plcKnows' \in BOOLEAN /\ regStage' = "failed"      \* the answer is lost, or a refusal
    /\ UNCHANGED <<direct, storeMode, storeVars, mapVars, answered>>

\* The store needs its option; the pds store needs the relay.
ChooseStore ==
    /\ regStage = "store"
    /\ \/ regStage' = IF direct /\ storeMode = "pds" THEN "failed" ELSE "mounted"
       \/ storeMode # "pds" /\ regStage' = "failed"
    /\ UNCHANGED <<direct, storeMode, plcKnows, storeVars, mapVars, answered>>

\* onRegistered of the subscriber; without relay the promise is resolved at once.
RegistryReady ==
    /\ regStage = "mounted"
    /\ regStage' = "ready"
    /\ UNCHANGED <<direct, storeMode, plcKnows, storeVars, mapVars, answered>>

\* The process ends and is started again with the key it had.
StartAgain ==
    /\ regStage \in {"failed", "ready"}
    /\ regStage' = "key" /\ mapping' = Idle /\ importMap' = <<>> /\ madeFrom' = <<>> /\ answered' = NoAnswer
    /\ UNCHANGED <<direct, storeMode, plcKnows, storeVars, snapshot>>

Serves == regStage \in {"mounted", "ready"}

\* A version is listed before it can be read: publishToPds writes the package
\* record first, and git lists branches that get() cannot read.
Announce(p, v) ==
    /\ storeMode # "local" /\ v \notin listed[p] /\ changes < MaxChanges
    /\ listed' = [listed EXCEPT ![p] = @ \cup {v}] /\ changes' = changes + 1
    /\ UNCHANGED <<bootVars, content, mapVars, answered>>

\* A version gets another tree, or none.  A clone keeps the tags it has; a
\* directory, which has no exports map, or a record may change at any time.
Publish(p, v, tree) ==
    /\ content[p][v] # tree /\ changes < MaxChanges
    /\ storeMode = "git" => content[p][v] = NoTree /\ v \in Range(Versions) \ Range(BranchVersions)
    /\ storeMode = "local" => tree.export = NoFile
    /\ content' = [content EXCEPT ![p][v] = tree]
    /\ listed' = [listed EXCEPT ![p] = IF v \notin Range(Versions) THEN @
                                      ELSE IF storeMode = "local" /\ tree = NoTree THEN @ \ {v} ELSE @ \cup {v}]
    /\ changes' = changes + 1
    /\ UNCHANGED <<bootVars, mapVars, answered>>

-----------------------------------------------------------------------------
(* Parsers                                                                 *)

FullName(scope, name) == [scope |-> scope, name |-> name]
Parsed(scope, name, version, rest) ==
    [pkg |-> FullName(scope, name), version |-> version, rest |-> rest]
NotParsed == [none |-> TRUE]

IsScope(seg) == Len(seg) > 1 /\ seg[1] = "@"
From(path, i) == SubSeq(path, i, Len(path))

\* [^/@]+@[^/]+ : one atom, "@", and at least one more.
NameAtVersion(seg) == Len(seg) > 2 /\ seg[1] # "@" /\ seg[2] = "@"

ParsePackageUrl(path) ==
    CASE Len(path) > 1 /\ IsScope(path[1]) /\ NameAtVersion(path[2]) ->
             Parsed(From(path[1], 2), path[2][1], From(path[2], 3), From(path, 3))
      [] path # <<>> /\ NameAtVersion(path[1]) ->
             Parsed(NoScope, path[1][1], From(path[1], 3), From(path, 2))
      [] OTHER -> NotParsed

IsName(seg) == Len(seg) = 1 /\ seg[1] # "@"

ParseJsrUrl(path) ==
    CASE Len(path) > 2 /\ IsScope(path[1]) /\ IsName(path[2]) ->
             Parsed(From(path[1], 2), path[2][1], path[3], From(path, 4))
      [] Len(path) > 1 /\ IsName(path[1]) -> Parsed(NoScope, path[1][1], path[2], From(path, 3))
      [] OTHER -> NotParsed

-----------------------------------------------------------------------------
(* Handlers, in the order in which they are mounted                        *)

\* store.get; a version is a segment with one atom.
Readable(p, version) ==
    /\ p \in Packages /\ Len(version) = 1 /\ version[1] \in AllVersions
    /\ content[p][version[1]] # NoTree

\* get of the git store throws when no tag names the version; the others give
\* null.
GetThrows(version) == storeMode = "git" /\ \A p \in Packages : ~Readable(p, version)

\* The file an empty path stands for: mod.ts, or the first one.
DefaultFile(tree) ==
    IF "mod.ts" \in Range(tree.files) THEN "mod.ts" ELSE IF tree.files = <<>> THEN NoFile ELSE tree.files[1]

AutoDetectEntry(tree) ==
    IF "mod.ts" \in Range(tree.files) THEN "mod.ts"
    ELSE IF "mod.js" \in Range(tree.files) THEN "mod.js"
    ELSE IF tree.files = <<>> THEN "mod.ts" ELSE tree.files[1]

\* The exports map is taken at its word, whatever files there are.
Entry(tree) == IF tree.export # NoFile THEN tree.export ELSE AutoDetectEntry(tree)

\* The last segment that ends in meta.json, and what is before it.
MetaPath(path) ==
    LET n == Len(path)
        scoped == n = 3 /\ IsScope(path[1]) /\ IsName(path[2])
        plain == n = 2 /\ IsName(path[1])
    IN  CASE scoped -> [pkg |-> FullName(From(path[1], 2), path[2][1]), last |-> path[3]]
          [] plain -> [pkg |-> FullName(NoScope, path[1][1]), last |-> path[2]]
          [] OTHER -> NotParsed

\* meta.json lists the versions that are no branches; without any it is
\* proxied.
PackageMeta(p) ==
    LET real == IF p \in Packages THEN listed[p] \ Range(BranchVersions) ELSE {}
    IN  IF real = {} THEN [from |-> "jsr"] ELSE [from |-> "packageMeta", pkg |-> p, versions |-> real]

\* What the store throws sends metadata to jsr.io as well.
VersionMeta(p, version) ==
    IF Readable(p, version)
    THEN [from |-> "versionMeta", pkg |-> p, version |-> version[1], entry |-> Entry(content[p][version[1]])]
    ELSE [from |-> "jsr"]

FileIn(tree, q) ==
    LET file == IF q.rest = <<>> THEN DefaultFile(tree) ELSE q.rest[1][1] IN
    IF file \in Range(tree.files) /\ Len(q.rest) < 2
    THEN [from |-> "file", pkg |-> q.pkg, version |-> q.version[1], file |-> file]
    ELSE [from |-> "notFound"]

ServeFile(q) ==
    CASE Readable(q.pkg, q.version) -> FileIn(content[q.pkg][q.version[1]], q)
      [] GetThrows(q.version) -> [from |-> "error"]
      [] OTHER -> [from |-> "jsr"]

\* The catch-all.  A path neither parser accepts goes to jsr.io.
CatchAll(path) ==
    LET m == MetaPath(path)
        q == IF ParsePackageUrl(path) # NotParsed THEN ParsePackageUrl(path) ELSE ParseJsrUrl(path)
    IN  CASE m # NotParsed /\ Len(m.last) = 2 /\ m.last[2] = "_meta.json" ->
                 VersionMeta(m.pkg, <<m.last[1]>>)
          [] m # NotParsed /\ m.last = <<"meta.json">> -> PackageMeta(m.pkg)
          [] q # NotParsed -> ServeFile(q)
          [] path[1] = <<".well-known">> -> [from |-> "notFound"]
          [] OTHER -> [from |-> "jsr"]

\* The catch-all matches every path, so the route ephemeral-package-registry
\* mounts behind it is never reached.
Route(path) == CatchAll(path)

\* A request for a path; proxyToJsr answers for jsr.io.
Request(path) ==
    /\ Serves
    /\ answered' = Route(path).from
    /\ UNCHANGED <<bootVars, storeVars, mapVars>>

-----------------------------------------------------------------------------
(* /import-map.json                                                        *)

\* `@${name without "@"}@${version}/${file}`
ImportUrl(p, v, file) ==
    (IF p.scope = NoScope THEN << <<"@", p.name, "@", v>> >>
     ELSE << <<"@">> \o p.scope, <<p.name, "@", v>> >>)
        \o (IF file = NoFile THEN <<>> ELSE << <<file>> >>)

FirstOf(s, S) == LET i == SelectInSeq(s, LAMBDA x : x \in S) IN IF i = 0 THEN <<>> ELSE <<s[i]>>

\* The last listed version that is no branch.
LatestVersion(p) == FirstOf(Reverse(Versions), (snapshot[p] \cap Semver) \ Range(BranchVersions))

\* Mutation: the version is taken from the list without reading it.
ChosenVersionUnread(p) ==
    LET branch == FirstOf(BranchVersions, snapshot[p])
    IN  IF branch # <<>> THEN branch ELSE LatestVersion(p)

\* The first version that get() does not answer with null: the listed branches,
\* then the latest version, then the branches themselves.
ChosenVersion(p) ==
    LET notNull == {v \in AllVersions : Readable(p, <<v>>) \/ GetThrows(<<v>>)}
        branch == FirstOf(BranchVersions, snapshot[p] \cap notNull)
        latest == LatestVersion(p)
    IN  IF branch # <<>> THEN branch
        ELSE IF latest # <<>> /\ latest[1] \in notNull THEN latest
        ELSE FirstOf(BranchRefs, notNull)

\* For an import of a jsr: package the registry lists, the version is not read.
LocalVersion(p) ==
    LET branch == FirstOf(BranchVersions, snapshot[p])
    IN  IF branch # <<>> THEN branch ELSE FirstOf(Reverse(Versions), snapshot[p] \cap Semver)

\* The entries a jsr: import adds where there is none yet.
JsrEntry(p) ==
    IF p \in Packages /\ LocalVersion(p) # <<>> THEN ImportUrl(p, LocalVersion(p)[1], NoFile)
    ELSE << <<"jsr:">> >>

\* list()
ImportMapStart ==
    /\ Serves /\ mapping = Idle
    /\ snapshot' = listed
    /\ mapping' = SetToSeq(Packages)
    /\ importMap' = <<>> /\ madeFrom' = <<>>
    /\ UNCHANGED <<bootVars, storeVars, answered>>

\* One package of the loop.
ImportMapPackage ==
    LET p == Head(mapping)
        v == ChosenVersion(p)
        own == ImportUrl(p, v[1], Entry(content[p][v[1]]))
    IN  /\ mapping # Idle /\ mapping # <<>>
        /\ v # <<>> => ~GetThrows(v)
        /\ mapping' = Tail(mapping)
        /\ IF v = <<>> THEN UNCHANGED <<importMap, madeFrom>>
           ELSE /\ importMap' = [q \in {p} \cup DOMAIN importMap \cup JsrImports[p] |->
                                    IF q = p THEN own
                                    ELSE IF q \in DOMAIN importMap THEN importMap[q] ELSE JsrEntry(q)]
                /\ madeFrom' = [q \in {p} \cup DOMAIN madeFrom |-> IF q = p THEN content[p] ELSE madeFrom[q]]
        /\ UNCHANGED <<bootVars, storeVars, snapshot, answered>>

\* A get that throws ends the loop; what there is, is answered.
ImportMapThrows ==
    /\ mapping # Idle /\ mapping # <<>>
    /\ ChosenVersion(Head(mapping)) # <<>> /\ GetThrows(ChosenVersion(Head(mapping)))
    /\ mapping' = <<>>
    /\ UNCHANGED <<bootVars, storeVars, snapshot, importMap, madeFrom, answered>>

ImportMapAnswered ==
    /\ mapping = <<>>
    /\ mapping' = Idle
    /\ UNCHANGED <<bootVars, storeVars, snapshot, importMap, madeFrom, answered>>

\* A client follows an entry of the map, or asks for metadata, a file by the
\* JSR style, or the DID document.
Paths ==
    Range(importMap)
        \cup {<< <<p.name, "@", v>>, <<"mod.ts">> >> : p \in {q \in Packages : q.scope = NoScope}, v \in Range(Versions)}
        \cup {<< <<"@">> \o p.scope, <<p.name>>, <<"meta.json">> >> : p \in {q \in Packages : q.scope # NoScope}}
        \cup {<< <<p.name>>, <<v, "_meta.json">> >> : p \in {q \in Packages : q.scope = NoScope}, v \in Range(Versions)}
        \cup {<< <<".well-known">>, <<"did.json">> >>}

RoutesNext ==
    \/ ResolveOwnDid \/ SubmitGenesis \/ ChooseStore \/ RegistryReady \/ StartAgain
    \/ \E p \in Packages, v \in AllVersions : \E tree \in Trees \cup {NoTree} : Publish(p, v, tree)
    \/ \E p \in Packages, v \in Range(Versions) : Announce(p, v)
    \/ \E path \in Paths : Request(path)
    \/ ImportMapStart \/ ImportMapPackage \/ ImportMapThrows \/ ImportMapAnswered

RoutesSpec == RoutesInit /\ [][RoutesNext]_routeVars

-----------------------------------------------------------------------------
(* Properties                                                              *)

\* The import map is made over many reads of a store that changes; still the
\* entry of each package with a scope is parsed by this registry as a version
\* of that package which could be read when the entry was made, and leads to
\* the entry point of its tree for as long as the version keeps that tree.  Not
\* said: that the file is there when an exports map names one that is not.
ImportMapLeadsHere ==
    \A p \in DOMAIN madeFrom : p.scope # NoScope =>
        \E v \in AllVersions :
            LET tree == madeFrom[p][v] IN
            /\ tree # NoTree
            /\ ParsePackageUrl(importMap[p]) = Parsed(p.scope, p.name, <<v>>, << <<Entry(tree)>> >>)
            /\ content[p][v] = tree /\ Entry(tree) \in Range(tree.files)
                  => Route(importMap[p]) = [from |-> "file", pkg |-> p, version |-> v, file |-> Entry(tree)]
=============================================================================
