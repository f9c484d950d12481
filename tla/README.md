# Verification of the compute contract reference implementation

TLA+ models of the services under `src/src/typescript`, checked by TLC on
small instances and, where marked, proved by TLAPS for every instance. Paths
below are relative to `src/src/typescript` unless they begin with `lexicons`.

## 1. The system

A *spindle* runs CI workflows on VMs that it rents. It publishes a request for
proposals (RFP), *bidders* answer with bids, the cheapest one is accepted, its
bidder provisions a VM and answers with a receipt; when the workflow has ended
the spindle reports `vm.delete` and the bidder destroys the VM. Services behind
NAT are reached through the *XRPC relay*: they hold a WebSocket to it, and the
relay forwards HTTP requests and streams to them by subdomain.

| Component | State | Operations | Interacts with |
|---|---|---|---|
| XRPC relay (`lib/xrpc-relay/relay.ts`, `lib/hono-factory-xrpc-relay`) | `subscribers`, `pendingRequests`, `reconnectQueues`, `activeSubscriptions`, timers | register, unregister, drain, flush, dispatch, response, timeouts, streams | subscribers by frames on WebSockets, callers by HTTP and WebSockets |
| Registration nonces (`lib/xrpc-relay/auth.ts`) | `issued` | `issue`, `verify` | relay (`verify` is awaited in `onOpen`) |
| Subscriber (`lib/xrpc-relay/subscriber.ts`), browser relay worker (`compute-spa/src/lib/relay-worker.ts`) | `handle`, `subdomain`, `delay`; ports of the tabs, keys | connect, schedule, stop, frame handler; election of a tab | relay; tabs |
| Spindle (`spindle/main.ts`, `spindle/marketRFP.ts`) | knot cursors, repositories, runs, logs, event log, `pendingBids`, receipts | watch knots, trigger, auction, accept, grant, wait, post, track, report, `/logs`, `/events` | knots, bidders, the policy engine in the VM, viewers |
| Bidder (`bidder/main.ts`, `lib/compute`, `lib/market`) | `activeContracts`, key file, offering | start, bid, `onAccept`, vm.delete | registry, spindle, provider |
| Ephemeral bidder with local provider (`lib/hono-factory-ephemeral-compute-bidder`, `lib/compute-provider-local`) | contracts, provider promises, nonces, containers | background provisioning, prove, teardown | relay, docker, booting guest |
| Droplet API, PID 1, QEMU (`qemu`, `lib/hono-factory-compute-provider-local`) | droplets, marker files, processes, image cache | create, delete, shutdown; start, stop, supervise; build, run | provider, guest |
| DigitalOcean provider (`lib/compute-provider-digitalocean`) | clone of the RBAC repository | write, commit, push role and policy | cloud, issuer |
| Access (`lib/oidc-helper`, `lib/rbac-helper`) | signing key, grants, allowlist | issue, page through grants | guests, bidders |
| Market registry (`market-registry`) | index of bidders | register, health scan, query | bidders, requesters |
| Market messages, settlement, attestations (`lib/market`, `lib/market-*`, `lib/atproto-attestation-port`) | signers, caches, receipts, signatures | sign, write, forward, verify; pay, mint; attest | spindle, bidder, requester |
| Relay-backed PDS (`xrpc-relay-pds`) | the flow of one contract, ssh sessions | discover to delete; connect, stream, reap | bidders, VM |
| AT repository (`lib/hono-factory-atproto-repo`), PLC directory (`lib/did-plc`, `lib/hono-factory-did-plc-directory`) | tree, blocks, head, backlog; operation log | applyWrites, export, subscribe; submit, export | all |
| Package registries (`lib/datastore-remote-git`, `lib/hono-factory-package-registry`, `ephemeral-package-registry`) | bare clone, caches, import map | serve files and metadata, fetch | git remote, jsr.io |
| Pages (`compute-spa`, `spindle-viewer-spa`) | localStorage, sockets, lists, graph | request and delete machines; navigate, record, replay | relay worker, spindle, Jetstream |
| Other datastores, event bus, lexicons, graph viewers, small clients | none that matters here | | |

What makes it hard:

* handlers that await in the middle (the signature check in `onOpen` and in
  `verify`, every network call of the spindle and the bidder) while other
  handlers run on the same maps;
* events that come late: the close event of a socket that was replaced, a
  response after its timer, a registration after its timer, a bid after the
  window;
* timers that are cancelled and made anew as a request moves between maps;
* requests that are replayed after a reconnect, so calls are handled twice;
* contract state that is only in memory on both sides, with VMs and grants that
  outlive it.

`PROJECT.json` lists these as hazards, each at its line.

What makes the components correct, in one line each: a relay caller is always
settled, once, by what happened at its own subdomain; reconnect loops never die;
each timely bid counts once and the cheapest wins; a VM in use is not destroyed,
and one that is not in use is; an event of a knot starts a pipeline once; a log
or a feed arrives without gaps; what was attested, stored or encoded is what is
read; lists that many actors write converge on what is true. Where the code
makes such a claim only with exceptions, the property names them.

## 2. Modules

| Module | Models | Checked in |
|---|---|---|
| `RelayPromise` | what callers of the relay see: the abstract specification | `relay` |
| `XrpcRelay` | `RelayState` and the handlers of subscriber sockets and requests; implements `RelayPromise` | `relay`, `relay_binding` |
| `RelayStreams` | the relay composed with callers' streams, the frames on each socket and the subscriber's frame handler; extends `XrpcRelay` | `relay_clients` |
| `NonceStore` | `createNonceStore` | `relay_clients` |
| `SubscriberLoop` | `runSubscriber` and the life of `createSubscriber` | `relay_clients` |
| `SshSessions` | ssh over a WebSocket | `relay_clients` |
| `BrowserRelay`, `BrowserVms`, `LocalPds` | the compute page: its worker, its machines, its identity | `relay_clients` |
| `SpindleViewer`, `MarketGraph` | the viewer page: runs, and the graph of records | `relay_clients` |
| `ContractLease` | what spindle and bidder promise each other of a machine: the abstract specification | `contract_faults` |
| `ComputeContract` | spindle and bidder from accept to `vm.delete`, two processes composed; implements `ContractLease` | `contract_*`, `hosts` |
| `Auction` | `collectBidsForRfp`, `resolveBidPayloads`, `scoreLowestCost`, settlement | `market` |
| `MarketRegistry`, `MarketMessages`, `RequesterFlow` | the index of bidders, signed submissions, the command line client | `market` |
| `Attestations`, `Settlement` | what attests to a record; how a bid is paid | `market`, `attest_inline` |
| `KnotWatch`, `SpindleRuns` | from an event of a knot to a run, its log and its status events | `hosts` |
| `EphemeralCompute`, `SystemctlShim`, `BidderBringUp` | provisioning raced by deletion, PID 1, start of a bidder | `hosts` |
| `BlockBytes` | base32, items that hold no others, varints and the framing of archives, without recursion | `stores` |
| `MerkleSearchTree`, `BlockCodec`, `AtprotoRepo` | the repository: tree, nested values over `BlockBytes`, commits and firehose | `stores`, `codec_integers`, `export_whole`, `deleted_gone` |
| `PlcDirectory`, `PackageStore`, `PackageRoutes` | logs and stores with readers | `stores` |
| `DropletApi`, `QemuImage`, `AccessControl`, `DigitalOceanRbac` | the providers' droplets, images, keys and policies | `stores` |
| `SeqFilter` | filtering of a sequence, by indices | |
| `SequenceLemmas` | TLAPS proofs of facts about numbers and sequences | |
| `RelayProofs` | about `XrpcRelay`, `RelayStreams`, `NonceStore`, `SubscriberLoop`, `SshSessions`, `BrowserRelay`, `BrowserVms`, `LocalPds`, `SpindleViewer`, `MarketGraph` | |
| `MarketProofs` | about `Auction`, `MarketRegistry`, `MarketMessages`, `RequesterFlow`, `Attestations`, `Settlement` | |
| `HostsProofs` | about `KnotWatch`, `SpindleRuns`, `ComputeContract`, `BidderBringUp`, `EphemeralCompute`, `SystemctlShim` | |
| `StoresProofs` | about `AtprotoRepo`, `PlcDirectory`, `PackageStore`, `PackageRoutes`, `DropletApi`, `QemuImage`, `AccessControl`, `DigitalOceanRbac`, `BlockBytes` | |
| `MCXrpcRelay` | constants of one system; with faults, `ComputeContract` is run as it is | |
| `MCRelayClients`, `MCMarket`, `MCHosts`, `MCStores` | small instances of several components | |

**The last four MC modules** check components that share no variable. A
variable `focus`, chosen by `Init`, names the component whose next-state relation
is taken; the others rest in an initial state (one of them, if there are
several). TLC so explores the sum of their state spaces instead of the product,
and every behaviour of each component alone, from each of its initial states,
is among those explored. The fairness of a component is conjoined with
`focus = "..."`, so it obliges nothing when another one moves.

The comment "Mutation of ..." marks a variant of a definition with a plausible
bug; replacing the definition by its mutation breaks the property
`PROJECT.json` names. They are part of no specification.

JavaScript runs a handler to its next `await` without interruption; throughout,
an action is one such run, with every change it makes, and the position of a
handler between two runs is a variable of the model (`phase`, `step`, `call`,
`at`, ...). Crashes lose the variables that stand for memory and keep those that
stand for files, repositories and other processes. History variables, marked in
their declaration, remember what a property needs and the code does not keep.

### XrpcRelay

`Connect` is `onOpen` up to the await of
`nonceStore.verify`; `AcceptRegistration` and `RejectRegistration` are the rest.
Nothing is checked between: the socket may have closed, and another may have
registered. `Unregister` is the common body of `onClose` and `onError`, which
act on the *subdomain* of the socket and not on the socket.

`pending` is `pendingRequests`; `grace` the key set of `reconnectQueues`; `queued`
the union of their entries (a request's queue is its target's). Each entry of
`pending` has a relay timer, each member of `grace` a grace timer; the timers
have no durations. `stranded` holds the requests that were in neither map when
a `send` threw in the middle of a flush: the queue is deleted before the loop
begins. Whether `send` throws on a socket that is not open depends on the
WebSocket implementation (only CONNECTING throws in a browser), so it is a
constant: `SendThrows`. The run `relay` lets it throw, `relay_clients` does not,
and the proofs cover both. `inflight` holds the copies of a request that a
subscriber may answer; a replayed request has several, and a response is
matched by its id only. `PeerClose` is the interval between the end of the
connection and the close event.

### RelayStreams

Adds `activeSubscriptions` (`active`), the callers' sockets, and the frames
queued on each subscriber socket in order (`wire`). Each relay action that
touches streams (`Register`, `Dispatch`, `Disconnect`, `Answer`) is the action
of `XrpcRelay` conjoined with its effect on them; the others are `Elsewhere`.
`producers` is the disposers map of `createSubscriber`. `errored` records the
callers whose socket reported an error: `onError` deletes the entry that
`onClose` would need to send the cancel, so those streams are excepted in
`CancelIsOnTheWay` and `StreamsWindDown`.

### NonceStore

`VerifyStart` is `verify` up to the first await of `verifySignature`, `VerifyOk`
and `VerifyBad` the rest, `VerifyMalformed` the early return. The several
signatures of a registration are one result. Nonces are random, so one is never
issued twice. `MaxTime` bounds the clock.

### SubscriberLoop

One attempt is one call of `createSubscriber`: its fetches, its socket, its
promise and its ten second timer end independently. A rejected promise makes
`connect` schedule; a close event makes `onClose` schedule; a close before
registration does both, so two timers run (`Schedule(2)`). Attempts are recycled
when they are finished (`Recycle`), so the loop runs forever on few identities;
`MaxScheduled` bounds the timers that are pending at once.

### Auction

`SubmitBid` is possible at any time, as the code allows; `FirehoseBid` only in
the window. `heard` is a history variable with the bids that came in time. A
payload is a type and a cost; `Cost` and `Less` are JavaScript's `Number` and `<`
on prices, `Infinity` (no cost) and `NaN` (a cost that is no number, which the
lexicon's type `unknown` allows; `Unpriceable`).

### ComputeContract

`step` is the position of a job in `marketRFPSubmitWorkflow` and `trackRun`; an
element of `Accepts` is one run of `onAccept`, and stands for its VM and its
receipt as well. `active` is `activeContracts`. Calls are delivered late, again
(`duplicate`, from relay replays) or with their response lost, and each step
that can fail does so if the constant `Faults` names it:

| Fault | Where |
|---|---|
| `grantFails` | writing the grant fails, or only its response is lost |
| `acceptLost`, `acceptRefused` | `submitAccept` times out, or is refused |
| `provisionFails`, `noProviderId`, `receiptFails` | steps of `onAccept` |
| `postFails` | posting the workflow to the policy engine |
| `revokeFails`, `reportLost` | the halves of `reportVmDelete` |
| `resolveFails`, `destroyFails` | steps of the vm.delete handler |
| `duplicate` | `submitAccept` or `vm.delete` handled again |
| `bidderRestart`, `spindleRestart` | loss of the state in memory |

### Clients of the relay

`SshSessions`: an attempt is one call of `connect`; `registry` is `#sessions`. A
close that comes while `connect` awaits finds no session, and a second connect
message replaces the variable `session`; those sockets are `raced` and excepted
from `NoProcessOutlivesItsSocket`, which holds of the others.

`BrowserRelay`: `doConnect` runs as a timer, a fetch of the nonce, a proof by the
elected tab and a socket; tabs close, hide or crash. One rejection in it has no
handler and ends the loop (`abandoned`), which `DisconnectedIsRetried` excepts.
`BrowserVms`: `saved` is the page's list, `disk` the shared one, which each page
reads once; `ListedGuestIsServed` is about what the worker can hand to the guests
of the stored list. `LocalPds`: every tab makes or reads
the two keys; a DID is the pair of its genesis keys.

`SpindleViewer`: a load is a call of `loadRepo` with the navigation it belongs to;
answers come in any order. `MarketGraph`: `graph` is `recordNodes` and `edgeList`;
a recording is compared with the graph it was made from. `MaxFrames` bounds the
frames all sockets deliver together, `MaxClicks` the user.

### Market

`MarketRegistry`: writes of the index are a read of the head and a later
replacement (`regBase`, `scanBase`), as in `applyWrites`; `excused` marks bidders
that a failed lookup or an overlapping write hit, `missed` those whose delete the
tree of the repository passed over (as in the run `deleted_gone`). `getAll` and
`removeBidder` see the first `ScanLimit` entries (100 in the code) and never turn
the page, so a stopped bidder behind them stays, and `StoppedBidderIsPruned` is
about those within. `MarketMessages`: a submission goes through signing,
`createRecord`, forwarding and the handler; each may be lost. `Deliver` is also the
replay of a request by the relay, so one submission may be handled several times
at once, and the client takes the first answer. Each kind of submission has its
handler and its own cache of keys (`keyCache[kind]`), written after an awaited
lookup (`fetching`) that others may overtake, with nothing after a failure; PDS
locations are cached forever. `RequesterFlow`: bids come from
anyone, the bidder may provision and not answer. `Settlement`: the payload of an
accept is any receipt that exists. `Attestations` has the class
and the function interface of the library, which share no state; an identifier
is the value it was computed from, so hashes do not collide.

### Hosts

`KnotWatch`: the cursor is saved before an event is acted upon, so a crash may lose
an event. It repeats one when the save had failed, which `saveDB` only logs
(`SaveDB` leaves the file as it was or truncated; every save writes the cursor of
now, those of `submitWorkflows` too): `forgotten` counts, for each event, the
restarts that read an older cursor, and an event is triggered once more at most for
each of them. After a truncated save the cursor is seeded anew and passes over what
came before (`skipped`). `SpindleRuns`: a line is its trigger and its number;
`KeyOf` gives the run a trigger is for, and nothing in `handleTrigger` keeps two
triggers from naming the same one; `sock` has the position of each `/logs` handler;
the status events share nothing with the runs: an event is its time stamp, the log a
capped ring. `EphemeralCompute`: a contract has a background process (`prov`), its
guest's proofs and its vm.delete handlers; what docker and the PDS answer to a
removal is ignored, and `kept` has the containers and grants that remain for that
reason. `SystemctlShim`: each command is a process that edits marker files, and PID
1 reads them tick by tick; `MaxCommands` bounds the commands of a behaviour. The two
copies of the file differ in details that the properties do not tell apart.
`BidderBringUp`: the start-up steps of both kinds of bidder, with a new `BASE_URL`
at each start.

### Stores

`MerkleSearchTree` translates `set`, `delete`, `splitAround`, `appendMerge` and the
reload from blocks, with the layer of a loaded node guessed as the code does;
`Zeros` gives the layer of each key. `BlockBytes` has bytes of `ByteBits` bits, so
that every boundary of the encoding is within reach; `<< 24` is the signed shift
of the width four bytes have; a loop over bytes is a function of the number of
turns. Words are those of JavaScript: shifts and ors of 32 bits with a sign, in
varints too. A text has one character that `TextDecoder` drops at its front (the
byte order mark) and one that does not survive UTF-8 (a lone surrogate); a CASE
without a matching arm stands for an exception. `BlockCodec` nests values in arrays
and maps; a `linkand` is an object with a text `$link` and further keys, of which the
encoder keeps the link alone; the key `__proto__` is left out.

`AtprotoRepo`: writers await between reading and setting the head, and a delete may
be passed over by the tree. `skipped` are the frames a subscription has no chance to
see: those that left the backlog before it, those published between its backfill and
its subscription to the bus, and one for each frame that a full backlog drops while
the backfill, which goes by index, is under way. `PlcDirectory`: handlers await
between validation and appending; an operation is submitted successfully once, a
refused one may come again, and the clock does not step back. A tombstone may name
any current operation and a legacy `create` none, so both may stand beside the chain.

`PackageStore`: commands of git are steps, the remote moves between them. A version
has up to two tags, `1.0.0` and `v1.0.0`, and a request may name it either way; `get`
takes the first in the order of `git tag` (`Order`), so a tag that arrives later can
change what a version is. `RestartStore` begins with a new directory. A request that
reached no remote, as its fetch failed or another clone was under way, is not in
`sawTag`, and nothing is said of what it is answered. `PackageRoutes`: paths are
sequences of segments, so that both parsers keep their meaning. A version holds a
tree of files that changes while the registry answers (in a git clone only from
none to one; branches are listed there and cannot be read), an exports map may name
a file that is not there, the branches themselves are tried last, and a `get` that
throws ends the map (`ImportMapThrows`).

`DropletApi`: what docker answers to `kill` and `rm -f` is ignored; `stuck` has the
containers that remain. `AccessControl`: the issuer's URL is the one of the
environment until the relay registers the service (`OnRegistered`) and again after a
restart; tokens and grants are for one URL; a lookup of records may fail and then
refuses the request (`fault`). `MCStores` has guests and the operator's allowlist in
two parts, as no step of one reads what the other writes. `QemuImage` and
`DigitalOceanRbac`: what survives a failed command, a restart or an overlap of
handlers.

## 3. Runs

| Run | Checks | Shows |
|---|---|---|
| `relay` | `RequestsAreSafe`, `EveryRequestSettles`, `KeepsPromise` | connections compete for a subdomain, beside another one, and sends throw: nothing is lost, doubled, misdirected or left without a timer, other than what a throwing send strands; every other caller is answered; refinement of `RelayPromise` |
| `relay_clients` | `StreamsAreSound`, `NoncePromise`, `LoopPromise`, `NoProcessOutlivesItsSocket`, `DisconnectedIsRetried`, `ListedGuestIsServed`, `IdentityIsSound`, `ViewerIsSound`, `GraphIsSound`, `ClientsWindDown` | streams across takeovers, overlapping verifications and attempts, ssh sessions, tabs and pages |
| `contract_faults` | `ContractPromise`, `KeepsLease` | safety of the contract under all faults together; refinement of `ContractLease` |
| `market` | `AuctionPromise`, `FreshBidderStaysListed`, `StoppedBidderIsPruned`, `MessagesAreSound`, `FlowIsSound`, `VerifiesIffAttested`, `AppendedProofFits`, `ProvisionedIsPaid` | the auction against a reference winner, the registry under overlapping writes, honest messages, the requester's flow, attestations, payment |
| `hosts` | `TriggeredAtMostOnce`, `LogIsSound`, `FeedIsGapless`, `EphemeralIsSound`, `OneProcessPerUnit`, `BringUpIsSound`, `HostsMakeProgress` | events, logs, provisioning, supervision and bring-up across crashes, and what each must finish: without faults, a contract leaves nothing behind |
| `stores` | `DataIsSound` (of the tree and of the blocks), `RepoIsSound`, `LiveFramesArrive`, `DirectoryIsSound`, `StoreIsSound`, `ImportMapLeadsHere`, `ContainersAreAccounted`, `ImageBootsLive`, `GuestsAreServed`, `RolesHavePolicies` | what is written is what is read, in order, under overlaps and restarts |

A property named `...Promise`, `...Sound`, `...Hold` or `...Served` is the
conjunction of named parts in its module, each with a comment of its own.

Six runs end in a violation, each a disagreement of the code with what the
repository says of it (`findings` in `PROJECT.json` quotes the lines):

| Run | Property | The code |
|---|---|---|
| `relay_binding` | `BoundWhileOpen` | a late close event of an earlier socket unbinds the open one |
| `contract_grant` | `NoStaleGrant` | a failed post leaves the grant and does not report the VM |
| `attest_inline` | `InlineRoundTrips` | verification recomputes the identifier over other metadata than was signed |
| `codec_integers` | `RecordsReadBack` | `<< 24` is signed, so some integers decode to others |
| `deleted_gone` | `DeletedIsGone` | a delete that fails to merge subtrees of a reloaded tree is swallowed, and the record stays |
| `export_whole` | `ExportIsWhole` | an export never follows the right subtree of an entry |

Further disagreements are in the models and restated by no run: replayed
requests precede the `#registered` frame that `subscribe.json` calls the first
(`XrpcRelay.AcceptRegistration`); overlapping verifications admit a "one-time"
nonce twice (`NonceStore.VerifyOk`); a first bid whose cost is no number is never
beaten (`Auction.Less`, with `Unpriceable`); a page sends the worker the issuers of
the list it read when it loaded, and the worker replaces its set, although
`relay-client.svelte.ts:195` asks for "the full set for every VM this browser
holds" (`BrowserVms.Rewire`: a page that deletes a machine from an older list also
drops those another page has bought since); a second trigger of a run key puts a
new array in place of the one a waiting `/logs` socket reads by index, so that its
first lines are skipped (`SpindleRuns.Register` with a `KeyOf` that is not
injective, for which `LogIsExact` fails; the run `hosts` takes two keys); a tree that
a delete has emptied keeps its layer (`mst.ts:728`), and what is added to it then
hangs below, although `mst.ts:8` says "same entries -> identical root CID, regardless
of insertion order" (`FirstTreeIsCanonical` ends there); a subscription may miss
frames at the end of its backfill or under a backlog that moves on, although
`contracts.ts:87` says "Replay events since a cursor" (`AtprotoRepo.AppendFrame`); a
version is served as immutable and changes when its second tag arrives
(`PackageStore.ResolveTag`).

**Bounds.** *Relay*: two sockets on a subdomain allow a holder and its successor, or
a holder and a stale or refused one, in every order of events, and a third belongs
to another subdomain; two requests are needed for a flush to strand one of them, and
for one to be replayed while another is dispatched. *Clients*: streams need two
sockets (before and after a takeover) and one caller, as callers do not interact;
two `verify` calls on two nonces overlap, and the clock passes the life time; two
attempts overlap, are recycled, and the backoff doubles to a cap that is no power of
two; two tabs or two ssh attempts race; two pages and two machines of one name, so
that one is superseded; three repositories, one without a spindle; four records
whose references make every kind of edge. *Contract*: two jobs and three `onAccept`
runs allow a duplicate of one job while the other is under way; two vm.delete runs
race on one receipt. *Market*: a tie, a dearer bid and a bidder that is not allowed;
three bidders with pages of two, so that one is behind the page, and scans that
overlap; a submission that is replayed, and a lookup that fails in one handler;
three attestations on one record; two purchases of which one payer pays. *Hosts*:
three events and two faults; two triggers of different runs, one socket, one
restart; a ring of two events under four statuses; two jobs of one contract each,
without faults; two contracts, two deletes and two proofs of one nonce; four kinds
of unit and two commands; three starts. *Stores*: four keys on three layers and
three commits reach splits, merges and reloads of mislabelled nodes; every boundary
of the scaled encoding; three writers, one of which deletes, with a short backlog;
six PLC operations with a fork, a recovery, a tombstone and a legacy create; two
tags of one version under three requests and two processes; a version with three
trees to choose from; two URLs of an issuer and two starts. Constants named `Max...`
bound counters.

`CHECK_DEADLOCK FALSE` is set everywhere because identities are finite: when
each socket, request, call, bid or job has been used, nothing more happens.

**Symmetry** is used only in `contract_faults`, where only safety is checked, over
sets whose elements the specification does not tell apart.

**Fairness** is weak, of single steps of the code's own scheduling.
`XrpcRelay`: both timers, since `setTimeout` callbacks run; no peer is assumed to
answer, connect or leave. `RelayStreams`: frame delivery on an open socket and the
close event of a caller. `SshSessions`: reaping, exits of killed processes, exit
frames. `BrowserRelay`: timers and fetches of the loop and answers or time-outs of
proxied frames. `MarketRegistry`: steps of a scan, of a registration and the
expiry of a record nobody refreshes. `KnotWatch`, `SpindleRuns`,
`EphemeralCompute`, `SystemctlShim`, `BidderBringUp`: the next step of a handler that
awaits a call with a time limit or a process of its own; in each of these
modules what an unreliable peer does is not fair. `AtprotoRepo`: a subscription's
loop. `ComputeContract`: each job, each `onAccept` and each vm.delete run; without
faults, awaited calls return; that workflows end is an assumption on the
workload (`trackRun` polls without limit). The other modules need none.

## 4. Proofs

All theorems are for arbitrary constants that satisfy the named assumptions of the
modules: any number of sockets, requests, bids, writers, jobs and so on, and any
value of the bounds. The assumptions (`...Assumption`) only type the constants, keep
markers such as `NoSocket` apart from what they are told from, and give an operation
of a DID a CID of its own; TLC evaluates each of them. Three theorems have a
hypothesis of their own, named in their statement and below. Each proof has an
inductive invariant `...Inv`, with `Init => Inv`, `Inv /\ [Next]_vars => Inv'` and
`Inv => property`, and one step for each action.

**`SequenceLemmas`**

* Induction over a sequence is needed for `Auction`, `RequesterFlow` and
  `MarketGraph`. It is done without the library's induction theorems: a set of
  numbers that is not empty has a least element (`LeastOf`, from the cardinality of
  finite sets), so a claim that fails fails first somewhere (`SetInduction`).
* tlapm knows nothing of `SelectSeq`. Where a proof is about what a filter keeps,
  the model filters with `AtIndices` of `SeqFilter`, and `AtIndicesPicks` says that it
  keeps the elements at the indices, each once and in order. `MCStores` has TLC
  compare the two on short sequences.

**`RelayProofs`**

* `XrpcRelay`: `Tracked`, `QueueOnlyWhileAway`, `WaitingIsServed` and `Isolation`,
  the parts of `RequestsAreSafe`, are inductive only together, with
  `EarlySocket` (an unopened socket has no registration). A drain, for instance,
  keeps the maps disjoint because pending requests belong to bound subdomains
  and queues to unbound ones. Theorems: `TypeCorrect`, one for each part,
  `RelaySafe`, `OutcomesHonest`, and `PromiseKept`: every step is a step of
  `RelayPromise` or a stutter, where a stranded request is mapped to the reply
  "lost", which the promise allows only if sends throw.
* `RelayStreams`: `StreamsHold`. The invariant is about single frames at single
  places of a wire: a stream concerns one registered socket (`ConcernsOne`), is
  subscribed once (`SubscribedOnce`), and one that is over has its cancel behind
  the frame that would start it, or its producer is gone (`EndedIsCancelled`).
  The frames a drain or a flush appends are a fold over the waiting requests, so
  the proof needs that those are finitely many. `StreamsRunTheRelay`: with
  streams, every step is still a step of `XrpcRelay` or leaves its variables
  alone, from which `RequestsSafeAmongStreams` follows.
* `NonceStore`: `NoncesHold`, from one theorem for each part; the strengthening is
  `EntryWasIssued`: what is in the map is what was issued.
* `SubscriberLoop`: `LoopHolds`; the type invariant, `NeverGivesUp` and
  `PublishedIsOpen` are inductive together.
* `SshSessions`: `SessionsEndWithTheirSocket`; a socket that did not race connects
  once (`ConnectsOnce`), so the process that runs is the one `onclose` kills
  (`RunsTheSession`).
* `BrowserRelay`: `DisconnectedIsAlwaysRetried`; the worker finds no host only
  when no port is there (`NoHostNoPort`).
* `BrowserVms`: `ListedGuestsAreServed`. Every list, stored or held by a page, has a
  name once and only machines that were asked for and that no page is still
  asking for (`GoodList`), and a machine is asked for by one page (`AskedOnce`); so
  registering a list anew gives each name to its machine (`ReregisterServes`).
* `SpindleViewer`: `ViewerHolds`; of the sockets ever made at most the one in the
  variable is up (`OneUp`), whichever socket ends and whichever load answers.
* `MarketGraph`: `GraphHolds`. A replay is a fold, so it draws one frame after the
  other (`ReplayIsDrawn`, by induction over the frames), and a recording that
  grows by a frame replays as the graph that grows by it (`ReplayGrows`), whatever
  the fix-ups of `AddRecord` are; the invariant is that a recording made under
  unchanged filters replays as the graph (`SeenIsReplayed`).
* `LocalPds`: `IdentityHolds`; nobody makes a key who could find one
  (`SettledHasTheKeys`), and a PDS is up only after its DID is registered.

**`MarketProofs`**

* `Auction`: `TimelyBidsCountOnce` from `Collected`: what is collected has no
  duplicates and is what was seen of allowed bidders, however queue and firehose
  repeat each other. `AuctionHolds`: the winner the fold of `scoreLowestCost`
  leaves is the earliest of the cheapest. Its hypothesis is `~Unpriceable`: with
  a cost that is no number the claim is false (section 3).
* `MarketRegistry`: `FreshStaysListed`; what a scan has judged is stale or excused
  (`JudgedIsExcused`). `MarketMessages`: `MessagesHold`; a configured key signs
  whichever call made the signer (`ConfiguredKeySigns`), a cache without keys comes
  from a failed lookup of its own handler, and each step of a request moves that
  request alone, so the callbacks started are no more than the requests that are
  through. `RequesterFlow`: `FlowHolds`.
* `Attestations`: `AttestationsVerify`; each entry is the one of its signer's last
  signing (`EntriesAreLast`), and proofs are under uris that no entry had before
  (`ProofsAreNew`). Its hypothesis `KeptInProofs` says that metadata has only
  fields that a proof record keeps; the run `market` has such metadata;
  without it `verify` recomputes the identifier over the fields the proof kept,
  and the entry does not verify. Of the functions: `ProofsFitTheirRecords`.
  `Settlement`: `PaidBeforeProvisioned`; no receipt exists unpaid
  (`NoReceiptUnpaid`).

**`HostsProofs`**

* `KnotWatch`: `KnotTriggersOnce`; what was looked up or started is published and at
  or behind the cursor (`CursorFirst`), and an event has been started by no more
  than the restarts that forgot it, and once more when it is behind the cursor
  (`StartedOnce`).
* `SpindleRuns`: `LogsHold`. Its hypothesis `OneTriggerEach` says that no two
  triggers name the same run; without it the property is false (section 3). The
  array of a run, in memory or on disk, is the lines of its trigger in order
  (`ArrayIsKept`); once a run has a task or a settled waiter no line is to come
  (`TaskEndsLines`); a socket has every line so far, unless the process ended
  while it was open (`SockIsAt`).
* Its status events: `FeedHolds`; the log and what a client got are ascending and before
  the next stamp (`Ascending`, `Stamped`), and a live client has what the log has
  after its cursor (`HasAfterCursor`).
* `ComputeContract`: `VmKeptWhileInUse` needs a chain of facts: a receipt belongs to
  an answered run of its job (`ReceiptOfTheJob`), is reported only at the end of the
  job (`ReportedAtTheEnd`, also in the step that reports it), vm.delete runs are
  about reported receipts and only their VMs go (`DeletesReported`), a run's VM
  shows how far it is (`HandlerProgress`). `ReceiptIsTracked` follows from
  `AnsweredIsTracked`, `GrantBeforeVm` from `SubmittedIsGranted`. Theorems
  `ContractHolds` and `ForgetsOnlyReported`, under any set of faults. `LeaseKept`:
  every step is a step of `ContractLease` or a stutter. There a job that learns its
  machine takes hold of it while it is up, and a machine goes only after its own job
  has released it; accepts, duplicates, grants, `activeContracts` and the restarts
  of either side stutter.
* `BidderBringUp`: `BringUpHolds`; the one record names what is served
  (`OfferingIsCurrent`), and the offer comes after the setup (`OfferedAfterSetup`).
* `EphemeralCompute`: `EphemeralHolds`; a nonce is to be made, in the store, held by
  one checking call or gone with one token (`NonceSpentOnce`), and every vm.delete
  does its part in order (`DeletesInOrder`).
* `SystemctlShim`: `ShimRunsOneProcess`; a live process is the last its unit
  spawned, and `superviseUnit` waits for it (`LiveIsAwaited`).

**`StoresProofs`**

* `AtprotoRepo`: `RepoHolds`. Revisions grow with the order of storing, which gives
  `RevsGrow` under any overlap (`RevsOrdered`). Without an overlap one call at most
  is under way, from the head (`OneAtATime`), and the backlog ends at the revision
  the next frame continues (`ChainIsWhole`). A subscription has a *position*, the
  number of the frame it looks at next, which the backlog, its place in it or its
  queue determine; what lies between cursor and position was emitted or could not
  be seen (`FeedIsAt`). Dropping the oldest frame moves the position by one, past
  the frame that is then in `skipped`. A delete that was passed over only adds to
  what survives.
* `PlcDirectory`: `DirectoryHolds`; an operation is inserted once, in the order of
  time (`InsertedOnce`); while submissions do not overlap, one is under way, what it
  was checked for still holds (`StillFits`), what it will nullify is what lies
  behind its predecessor now (`Behind`), and every current update follows the entry
  it names at once, every tombstone some entry before it (`Linked`). An export has
  seen the log up to its cursor, but for ties (`SeenUpto`).
* `PackageRoutes`: `ImportMapsLeadHere`; an entry names a version that could be read
  when it was made, and the entry point of the tree it had (`LedBy`), and the address
  written is the one the route takes apart (`UrlSegments`, `UrlRoutes`).
* `PackageStore`: `StoreHolds`; one request clones (`OneCloner`), what was read or
  resolved of a ref is what the clone has there (`ReadIsLocal`), and so is what this
  process served, while ended ones agree with themselves (`ServedIsLocal`); a tag
  that a request could see is there (`SeenIsThere`).
* `DropletApi`: `ContainersStayAccounted`; a droplet whose `docker run` is to come
  is registered or was noted (`ToStartIsKnown`). `QemuImage`: `ImagesBootLive`; the
  marker vouches for the initrd (`MarkerVouches`). `AccessControl`: `AccessHolds`;
  no request looks for a key before the warm-up has one (`RequestsAfterWarmUp`), a
  guest with a record for the service all along is listed or still ahead of the
  cursor (`ListedOrAhead`), and a refusal has one of the four reasons
  (`RefusedForAReason`).
  `DigitalOceanRbac`: `RolesCarryPolicies`; every place files pass through on the
  way to the remote pairs roles with policies (`PairedEverywhere`).
* `BlockBytes`: what is encoded is what is decoded, for every width of a byte and of
  a character. Lengths are below half a word, as the shifts of JavaScript are signed
  there. The assumption `BytesAssumption` says of the widths only that a byte has two
  bits at least and a character of a CID no more than a byte, that numbers in the
  first byte are below a byte, that the bytes of a link are fewer than half a word,
  and that a word is a safe integer. The digits of a
  number make that number again (`NumberOfDigits`, `DigitsOfNumber`, by induction on
  their count); the rest follows from them.
  * `HeaderReadsBack`: a head is read wherever it stands, its value as two
    signed words. `IntegersSurvive`: that value is the one written
    exactly if neither word has its top bit set, so up to 2^31 - 1, and from 2^32 on
    where the lower word allows it. The run `codec_integers` shows a number
    that is not.
  * `ItemsReadBack`: such integers, bytes, links and simple values are decoded to
    themselves, and texts without lone surrogates that begin with no byte order mark.
  * `Base32ReadsBack`, whatever fills up the last character; `VarintReadsBack`, for
    numbers below half a word: the code ors 32-bit words.
  * `ArchiveReadsBack`: `importCar` finds the header and the blocks in order, each with
    its CID, and nothing else. Its loop is behind one more block after each turn
    (`ArchiveCourse`), and stands still at the end.

Only model-checked, because the provers cannot do it:

* the liveness properties (`EveryRequestSettles`, `ClientsWindDown`,
  `StoppedBidderIsPruned`, `HostsMakeProgress` with `EventuallyReclaimed`,
  `LiveFramesArrive`), which need fairness and `ENABLED`;
* `DataIsSound`: what the recursive definitions compute, the tree of
  `MerkleSearchTree` and the nesting of arrays and maps with sorted keys in
  `BlockCodec`. Heads, flat items, CIDs and archives are proved.

## 5. Not modelled

* Durations: a timer may fire at any time. So the model does not show that
  restarts of the grace timer can delay a queued request for as long as
  connections keep failing.
* Cryptography is the result of a check or an injective constructor.
* `#subscriptionOpen` and `#subscriptionEvent` frames, which only carry payloads.
* Rendering, logging, command lines, record formats, and shell commands beyond
  their outcome and what they leave behind.
* Components with status `not_modelled` in `PROJECT.json`, for the reason given
  there: wrappers without state, the event bus, generated code, earlier copies
  of the graph page, sequential scripts and examples.

## 6. Plan

The models are complete up to the list above, and every safety property a
passing run checks is a theorem, but for `DataIsSound`. What is left is proofs:

1. `BlockCodec`: arrays and maps as functions over a bound on the depth, in place of
   `RECURSIVE`. `ItemsReadBack` is the base case; the step needs that sorting keys
   permutes them.
2. `MerkleSearchTree`: the layers of keys and the invariant of one node, likewise
   apart from the recursion over the tree.
3. More abstract specifications in the manner of `RelayPromise` and
   `ContractLease`: what a store promises its readers, which `PlcDirectory` and
   `PackageStore` would implement.
