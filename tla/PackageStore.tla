---------------------------- MODULE PackageStore ----------------------------
(***************************************************************************)
(* The package registry over a remote git repository:                      *)
(* lib/datastore-remote-git keeps a bare clone and a cache of the package  *)
(* metadata per ref, lib/hono-factory-package-registry answers HTTP        *)
(* requests from it and sends what it does not have on to jsr.io.          *)
(* Commits are numbered; a commit stands for its files and its deno.json.  *)
(***************************************************************************)
EXTENDS Naturals, FiniteSets

CONSTANTS
    Tags,          \* version tags
    VersionOf,     \* tag -> the version it names; "1.0.0" and "v1.0.0" name one
    Order,         \* tag -> its place in the output of git tag
    Branch,        \* the branch listed as 0.1.0-<branch>
    Requests,      \* [id, kind, version]: kind is "file", "versionMeta", "packageMeta"
    MaxPushes,     \* bound on commits of the remote
    MaxStores      \* bound on processes, each with a directory of its own

ASSUME StoreAssumption ==
    /\ Branch \notin Tags
    /\ Order \in [Tags -> Nat]
    /\ MaxPushes \in Nat \ {0} /\ MaxStores \in Nat \ {0}
    /\ \A r \in Requests : r.kind \in {"file", "versionMeta", "packageMeta"}

Refs == Tags \cup {Branch}
Absent == 0
NoTag == Branch

VARIABLES
    remoteRefs,   \* ref -> commit of the remote repository
    clone,        \* the bare clone: none, partial or whole
    initialized,  \* ensureClone has tried to clone
    localRefs,    \* ref -> commit of the clone
    discovery,    \* discoveryCache: ref -> commit whose deno.json was read
    request,      \* request -> where it is
    found,        \* request -> the tag it resolved and the commit of its metadata
    reply,        \* request -> its answer, and the process that gave it
    proc,        \* the process, numbered
    sawTag        \* history: requests whose clone or fetch could see their version

packageVars == <<remoteRefs, clone, initialized, localRefs, discovery, request, found, reply, proc, sawTag>>
gitVars == <<remoteRefs, clone, initialized, localRefs>>

NotFound == [tag |-> NoTag, meta |-> Absent]
NoReply == [from |-> "nobody", tag |-> NoTag, files |-> Absent, meta |-> Absent, versions |-> {}, proc |-> 0]

StoreInit ==
    /\ remoteRefs = [x \in Refs |-> IF x = Branch THEN 1 ELSE Absent]
    /\ clone = "none" /\ initialized = FALSE
    /\ localRefs = [x \in Refs |-> Absent]
    /\ discovery = [x \in Refs |-> Absent]
    /\ request = [r \in Requests |-> "unsent"]
    /\ found = [r \in Requests |-> NotFound]
    /\ reply = [r \in Requests |-> NoReply]
    /\ proc = 1
    /\ sawTag = {}

Goes(r, to) == request' = [request EXCEPT ![r] = to]
Answers(r, a) == reply' = [reply EXCEPT ![r] = a]

\* What the handlers of the registry make of an exception of the store: a file
\* request answers 500, the metadata routes go to jsr.io.
Throws(r) ==
    /\ Goes(r, "answered")
    /\ Answers(r, [NoReply EXCEPT !.from = IF r.kind = "file" THEN "error" ELSE "jsr", !.proc = proc])

\* The tags that name the version of a request: it may be written with or
\* without the "v", and a version may have both tags.
TagsFor(r) == {t \in Tags : r.version \in {t, VersionOf[t]}}

-----------------------------------------------------------------------------
(* The remote repository                                                   *)

Newest == remoteRefs[Branch]

Push ==
    /\ Newest < MaxPushes
    /\ remoteRefs' = [remoteRefs EXCEPT ![Branch] = @ + 1]
    /\ UNCHANGED <<clone, initialized, localRefs, discovery, request, found, reply, proc, sawTag>>

\* A tag is created, or moved to another commit.
PushTag(t) ==
    /\ remoteRefs[t] # Newest
    /\ remoteRefs' = [remoteRefs EXCEPT ![t] = Newest]
    /\ UNCHANGED <<clone, initialized, localRefs, discovery, request, found, reply, proc, sawTag>>

-----------------------------------------------------------------------------
(* ensureClone                                                             *)

EnsureClone(r) ==
    /\ request[r] = "unsent"
    /\ Goes(r, IF initialized THEN "fetch" ELSE IF clone = "none" THEN "cloning" ELSE "refused")
    /\ clone' = IF ~initialized /\ clone = "none" THEN "partial" ELSE clone
    /\ UNCHANGED <<remoteRefs, initialized, localRefs, discovery, found, reply, proc, sawTag>>

\* The remote has a tag for the version, and the request could see it.
Sees(r) == sawTag' = IF \E t \in TagsFor(r) : remoteRefs[t] # Absent THEN sawTag \cup {r} ELSE sawTag

\* git clone --bare ends; when it fails it removes the directory it made, and
\* initialized is set all the same.
CloneEnds(r) ==
    /\ request[r] = "cloning"
    /\ initialized' = TRUE
    /\ \/ /\ clone' = "whole" /\ localRefs' = remoteRefs
          /\ Goes(r, "ready") /\ Sees(r)
          /\ UNCHANGED reply
       \/ /\ clone' = "none"
          /\ Throws(r)
          /\ UNCHANGED <<localRefs, sawTag>>
    /\ UNCHANGED <<remoteRefs, discovery, found, proc>>

\* Mutation: the fetch overwrites tags that have moved.
FetchTagsForced == [x \in Refs |-> IF x \in Tags THEN remoteRefs[x] ELSE localRefs[x]]

\* git fetch --tags in a bare clone: it brings new tags, leaves the ones it has
\* and never touches a branch.
FetchTags == [x \in Refs |-> IF x \in Tags /\ localRefs[x] = Absent THEN remoteRefs[x] ELSE localRefs[x]]

\* A fetch needs a whole clone; a fetch that fails is ignored.
Fetches(r) ==
    \/ clone = "whole" /\ localRefs' = FetchTags /\ Sees(r)
    \/ UNCHANGED <<localRefs, sawTag>>

\* Another request is cloning: git refuses the directory, and the request
\* fetches into what is there and goes on with it, partial as it may be.
CloneRefused(r) ==
    /\ request[r] = "refused"
    /\ initialized' = TRUE
    /\ IF clone = "none" THEN Throws(r) ELSE Goes(r, "ready") /\ UNCHANGED reply
    /\ Fetches(r)
    /\ UNCHANGED <<remoteRefs, clone, discovery, found, proc>>

\* Mutation: the clone is fetched once.
FetchNever(r) ==
    /\ request[r] = "fetch"
    /\ Goes(r, "ready")
    /\ IF clone = "whole" THEN Sees(r) ELSE UNCHANGED sawTag
    /\ UNCHANGED <<gitVars, discovery, found, reply, proc>>

Fetch(r) ==
    /\ request[r] = "fetch"
    /\ Goes(r, "ready")
    /\ Fetches(r)
    /\ UNCHANGED <<remoteRefs, clone, initialized, discovery, found, reply, proc>>

-----------------------------------------------------------------------------
(* list and get                                                            *)

Listed == {x \in Refs : localRefs[x] # Absent}

\* get: the first tag of the clone for the version.  Without one it reaches an
\* undefined name (SEMVER_RE) and throws; so does any command without a clone.
ResolveTag(r) ==
    /\ request[r] = "ready" /\ r.kind # "packageMeta"
    /\ \/ /\ clone = "none" \/ TagsFor(r) \cap Listed = {}
          /\ Throws(r)
          /\ UNCHANGED found
       \/ /\ clone # "none"
          /\ \E t \in TagsFor(r) \cap Listed :
                /\ \A u \in TagsFor(r) \cap Listed : Order[t] <= Order[u]
                /\ found' = [found EXCEPT ![r].tag = t]
          /\ Goes(r, "resolved")
          /\ UNCHANGED reply
    /\ UNCHANGED <<gitVars, discovery, proc, sawTag>>

\* findPackage: the metadata is read once per ref.
GetDiscovery(r) ==
    LET t == found[r].tag IN
    /\ request[r] = "resolved"
    /\ discovery' = [discovery EXCEPT ![t] = IF @ = Absent THEN localRefs[t] ELSE @]
    /\ found' = [found EXCEPT ![r].meta = discovery'[t]]
    /\ Goes(r, "found")
    /\ UNCHANGED <<gitVars, reply, proc, sawTag>>

\* buildPackageVersion, and the answer of the registry, marked immutable.
BuildPackageVersion(r) ==
    /\ request[r] = "found"
    /\ Goes(r, "answered")
    /\ Answers(r, [NoReply EXCEPT !.from = "store", !.tag = found[r].tag, !.files = localRefs[found[r].tag],
                                  !.meta = found[r].meta, !.proc = proc])
    /\ found' = [found EXCEPT ![r] = NotFound]
    /\ UNCHANGED <<gitVars, discovery, proc, sawTag>>

\* list, for meta.json: every tag and branch is discovered; versions of branches
\* are dropped, and a package without others is jsr.io's.
ListPackages(r) ==
    /\ request[r] = "ready" /\ r.kind = "packageMeta"
    /\ IF clone = "none" \/ Listed \cap Tags = {}
       THEN Throws(r)
       ELSE /\ Goes(r, "answered")
            /\ Answers(r, [NoReply EXCEPT !.from = "store", !.versions = {VersionOf[t] : t \in Listed \cap Tags},
                                          !.proc = proc])
    /\ discovery' = [x \in Refs |-> IF discovery[x] = Absent THEN localRefs[x] ELSE discovery[x]]
    /\ UNCHANGED <<gitVars, found, proc, sawTag>>

\* The process ends and another one starts, with a temporary directory and
\* caches of its own; the requests it had are lost.
RestartStore ==
    /\ proc < MaxStores
    /\ proc' = proc + 1
    /\ clone' = "none" /\ initialized' = FALSE
    /\ localRefs' = [x \in Refs |-> Absent] /\ discovery' = [x \in Refs |-> Absent]
    /\ found' = [r \in Requests |-> NotFound]
    /\ request' = [r \in Requests |-> IF request[r] \in {"unsent", "answered"} THEN request[r] ELSE "lost"]
    /\ UNCHANGED <<remoteRefs, reply, sawTag>>

StoreNext ==
    \/ Push \/ RestartStore
    \/ \E t \in Tags : PushTag(t)
    \/ \E r \in Requests : \/ EnsureClone(r) \/ CloneEnds(r) \/ CloneRefused(r) \/ Fetch(r)
                           \/ ResolveTag(r) \/ GetDiscovery(r) \/ BuildPackageVersion(r) \/ ListPackages(r)

StoreSpec == StoreInit /\ [][StoreNext]_packageVars

-----------------------------------------------------------------------------
(* Properties                                                              *)

\* What one process serves as immutable is one commit and stays that commit: the
\* metadata of the cache belongs to the files, and two answers from one tag
\* agree, wherever the remote moves the tag in between.  Two things do change
\* an answer: the other tag of the version, when it arrives and comes first in
\* git's order, and a new process, which clones what the remote then has.
ServedIsConsistent ==
    /\ \A r \in Requests : reply[r].files = reply[r].meta
    /\ \A r, q \in Requests :
         reply[r].proc = reply[q].proc /\ reply[r].tag = reply[q].tag => reply[r].files = reply[q].files

\* A version that the remote had when the request's own clone or fetch reached
\* it is served, from a tag that names it.  Left out is a request that reached
\* no remote: its fetch failed, or another one's clone was in its way.
PublishedTagIsServed ==
    \A r \in sawTag : request[r] = "answered" =>
        IF r.kind = "packageMeta" THEN \E t \in TagsFor(r) : VersionOf[t] \in reply[r].versions
        ELSE reply[r].files # Absent /\ reply[r].tag \in TagsFor(r)

\* What a process serves for a tag is one commit, and a version that was there
\* when the request's clone or fetch looked is served, whatever clones, fetches
\* and pushes overlap.
StoreIsSound == ServedIsConsistent /\ PublishedTagIsServed
=============================================================================
