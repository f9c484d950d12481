----------------------------- MODULE MarketGraph -----------------------------
(***************************************************************************)
(* The live graph of market records (spindle-viewer-spa/main.js, graph tab,*)
(* with graph.js).  Jetstream frames of watched collections become nodes   *)
(* and edges; fix-ups add synthetic nodes and the edges no record states.  *)
(* The page may be paused, filtered, cleared, recorded and replayed, and   *)
(* its socket reconnects.  A URI is <<rkey, tag>>; record keys tell the    *)
(* edge labels of one node apart from those of another.                    *)
(***************************************************************************)
EXTENDS Naturals, FiniteSets, SequencesExt

CONSTANTS
    Records,      \* nodes [uri, kind, refs, roles, routes]
    Hideable,     \* collections with a toggle
    MaxSockets,   \* bound on sockets opened
    MaxFrames,    \* bound on the frames all sockets deliver
    MaxClicks     \* bound on clicks

VARIABLES
    graph,       \* [nodes, edges]: recordNodes in order, edgeList
    hidden,      \* hiddenNsids
    frames,      \* recordingFrames
    recording,   \* isRecording
    savedRecording,       \* the recordings in localStorage
    whole,       \* history: the graph grew by recorded frames alone
    socket,      \* the sockets made, and the frames each delivered
    jetstream,   \* jetstreamSocket: its number, 0 is undefined
    timers,      \* pending reconnects
    paused, clicks

drawVars == <<graph, hidden, frames, recording, savedRecording, whole>>
graphVars == <<graph, hidden, frames, recording, savedRecording, whole, socket, jetstream, timers, paused, clicks>>

EmptyGraph == [nodes |-> <<>>, edges |-> {}]
Edge(from, to, label) == [from |-> from, to |-> to, label |-> label]

-----------------------------------------------------------------------------
(* graph.js                                                                *)

RefFields(kind) ==
    CASE kind = "rfp" -> {"payload"}
      [] kind = "bid" -> {"rfp", "payload", "config"}
      [] kind = "accept" -> {"rfp", "bid", "payload"}
      [] kind = "receipt" -> {"rfp", "bid", "accept", "payload"}
      [] kind = "event" -> {"receipt", "payload"}
      [] kind = "provisioning" -> {"vm"}
      [] OTHER -> {}

ExtractEdges(n) == {Edge(n.uri, n.refs[f], f) : f \in RefFields(n.kind) \cap DOMAIN n.refs}

\* The nodes of a kind with a property, in the order they came.
Matching(nodes, kind, P(_)) == SelectSeq(nodes, LAMBDA n : n.kind = kind /\ P(n))

ByUri(nodes, uri) == SelectSeq(nodes, LAMBDA n : n.uri = uri)

RefIs(n, f, uri) == f \in DOMAIN n.refs /\ n.refs[f] = uri

\* resolveReceiptVm: the payload of the RFP of a receipt, as far as it is known.
ReceiptVm(n, nodes) ==
    LET rfp == IF "rfp" \in DOMAIN n.refs THEN ByUri(nodes, n.refs["rfp"]) ELSE <<>>
    IN  IF rfp # <<>> /\ "payload" \in DOMAIN rfp[1].refs THEN {rfp[1].refs["payload"]} ELSE {}

ProvisioningFor(vm, nodes) == Matching(nodes, "provisioning", LAMBDA n : RefIs(n, "vm", vm))

Synthetic(uri, kind, refs) ==
    [uri |-> uri, kind |-> kind, refs |-> refs, roles |-> {}, routes |-> {}]

NoFixUps == [nodes |-> <<>>, edges |-> {}]

ReceiptFixUps(n, nodes) ==
    LET vms == {v \in ReceiptVm(n, nodes) : ByUri(nodes, v) # <<>>} IN
    IF vms = {} THEN NoFixUps
    ELSE LET vm     == CHOOSE v \in vms : TRUE
             known  == ProvisioningFor(vm, nodes)
             prov   == IF known # <<>> THEN known[1]
                       ELSE Synthetic(<<n.uri[1], "prov">>, "provisioning", [f \in {"vm"} |-> vm])
             events == Matching(nodes, "event", LAMBDA e : RefIs(e, "receipt", n.uri))
             event  == Synthetic(<<n.uri[1], "synthetic">>, "event",
                                 [f \in {"receipt", "payload"} |-> IF f = "receipt" THEN n.uri ELSE prov.uri])
         IN  [nodes |-> (IF known = <<>> THEN <<prov>> ELSE <<>>)
                          \o (IF events = <<>> THEN <<event>> ELSE <<>>),
              edges |-> IF events = <<>> THEN {} ELSE {Edge(events[1].uri, prov.uri, "payload")}]

RfpFixUps(n, nodes) ==
    LET gha == Synthetic(<<n.uri[1], "gha">>, "gha", <<>>) IN
    IF ByUri(nodes, gha.uri) # <<>> THEN NoFixUps
    ELSE [nodes |-> <<gha>>, edges |-> {Edge(gha.uri, n.uri, "created")}]

IsSynthetic(n) == n.uri[2] = "synthetic"

\* A market.event that was not merged is linked to the provisioning.
EventFixUps(n, nodes) ==
    LET receipt == IF "receipt" \in DOMAIN n.refs THEN ByUri(nodes, n.refs["receipt"]) ELSE <<>>
        provs   == IF receipt = <<>> THEN {}
                   ELSE {p \in ToSet(nodes) : \E v \in ReceiptVm(receipt[1], nodes) :
                                                 ProvisioningFor(v, nodes) # <<>> /\ p = ProvisioningFor(v, nodes)[1]}
    IN  IF IsSynthetic(n) \/ receipt = <<>> THEN NoFixUps
        ELSE [nodes |-> <<>>,
              edges |-> {Edge(n.uri, p.uri, "payload") : p \in
                            {q \in provs : ByUri(nodes, <<receipt[1].uri[1], "synthetic">>) = <<>>}}]

TunnelEdges(n, nodes) ==
    LET ghas == Matching(nodes, "gha", LAMBDA g : TRUE)
    IN  IF n.kind = "ssh" /\ ghas # <<>> THEN {Edge(n.uri, ghas[1].uri, "tunnel")} ELSE {}

\* Edges between an rbac record, the VM of one of its roles and its ssh key.
RoleEdges(rbac, n, nodes) ==
    LET vms  == IF n.kind = "vm" THEN (IF n.roles \subseteq rbac.roles THEN <<n>> ELSE <<>>)
                ELSE Matching(nodes, "vm", LAMBDA v : v.roles \subseteq rbac.roles)
        sshs == IF vms = <<>> THEN <<>>
                ELSE IF n.kind = "ssh" THEN (IF n.roles = vms[1].roles THEN <<n>> ELSE <<>>)
                ELSE Matching(nodes, "ssh", LAMBDA k : k.roles = vms[1].roles)
    IN  IF vms = <<>> THEN {}
        ELSE {Edge(vms[1].uri, rbac.uri, r) : r \in rbac.routes \ {"createRecord"}}
               \cup (IF sshs = <<>> THEN {}
                     ELSE {Edge(sshs[1].uri, rbac.uri, r) : r \in rbac.routes \cap {"createRecord"}}
                            \cup {Edge(vms[1].uri, sshs[1].uri, "post public key")})

AccessFixUps(n, nodes) ==
    LET rbacs == {b \in (IF n.kind = "rbac" THEN {n} ELSE {m \in ToSet(nodes) : m.kind = "rbac"}) : b.roles # {}}
    IN  [nodes |-> <<>>,
         edges |-> TunnelEdges(n, nodes) \cup UNION {RoleEdges(b, n, nodes) : b \in rbacs}]

FixUps(n, nodes) ==
    CASE n.kind = "receipt" -> ReceiptFixUps(n, nodes)
      [] n.kind = "rfp" -> RfpFixUps(n, nodes)
      [] n.kind = "event" -> EventFixUps(n, nodes)
      [] n.kind \in {"rbac", "vm", "ssh"} -> AccessFixUps(n, nodes)
      [] OTHER -> NoFixUps

-----------------------------------------------------------------------------
(* addRecord                                                               *)

Ingests(g, n, off) == ByUri(g.nodes, n.uri) = <<>> /\ n.kind \notin off

IngestNode(g, n, off) ==
    IF ~Ingests(g, n, off) THEN g
    ELSE [nodes |-> Append(g.nodes, n), edges |-> g.edges \cup ExtractEdges(n)]

\* The synthetic nodes of a fix-up have none of their own.
ApplyFixUps(g, n, off) ==
    LET f == FixUps(n, g.nodes)
        h == FoldLeft(LAMBDA acc, s : IngestNode(acc, s, off), g, f.nodes)
    IN  [h EXCEPT !.edges = @ \cup f.edges]

\* The synthetic event a real one is merged into.
SyntheticFor(g, n) ==
    IF n.kind # "event" \/ "receipt" \notin DOMAIN n.refs THEN <<>>
    ELSE SelectSeq(g.nodes, LAMBDA m : IsSynthetic(m) /\ RefIs(m, "receipt", n.refs["receipt"]))

MergeMarketEvent(g, n) ==
    LET synth == SyntheticFor(g, n)[1] IN
    IF "payload" \in DOMAIN n.refs
    THEN [g EXCEPT !.edges = @ \cup {Edge(synth.uri, n.refs["payload"], "payload")}]
    ELSE g

AddRecord(g, n, off) ==
    IF SyntheticFor(g, n) # <<>> THEN MergeMarketEvent(g, n)
    ELSE IF ~Ingests(g, n, off) THEN g
    ELSE ApplyFixUps(IngestNode(g, n, off), n, off)

\* Mutation: a real event is not merged on replay.
ReplayUnmerged(events, off) ==
    FoldLeft(LAMBDA g, n : IF ~Ingests(g, n, off) THEN g ELSE ApplyFixUps(IngestNode(g, n, off), n, off),
             EmptyGraph, events)

\* replaySession
Replay(events, off) ==
    FoldLeft(LAMBDA g, n : IF SyntheticFor(g, n) # <<>> THEN MergeMarketEvent(g, n)
                           ELSE IF ~Ingests(g, n, off) THEN g
                           ELSE ApplyFixUps(IngestNode(g, n, off), n, off),
             EmptyGraph, events)

-----------------------------------------------------------------------------
(* The socket                                                              *)

GraphInit ==
    /\ graph = EmptyGraph /\ hidden = {} /\ frames = <<>> /\ savedRecording = <<>>
    /\ recording = TRUE /\ whole = TRUE
    /\ socket = <<[at |-> "connecting", got |-> {}]>> /\ jetstream = 1
    /\ timers = 0 /\ paused = FALSE /\ clicks = 0

SocketTo(s, at) == socket' = [socket EXCEPT ![s].at = at]

\* connectJetstream: a new socket, or another try in five seconds.
ConnectJetstream ==
    \/ /\ Len(socket) < MaxSockets
       /\ socket' = Append(socket, [at |-> "connecting", got |-> {}])
       /\ jetstream' = Len(socket) + 1
       /\ timers' = timers
    \/ timers' = timers + 1 /\ UNCHANGED <<socket, jetstream>>

TimerFires ==
    /\ timers > 0 /\ Len(socket) < MaxSockets
    /\ socket' = Append(socket, [at |-> "connecting", got |-> {}])
    /\ jetstream' = Len(socket) + 1
    /\ timers' = timers - 1
    /\ UNCHANGED <<drawVars, paused, clicks>>

GraphSocketOpens(s) ==
    /\ socket[s].at = "connecting"
    /\ SocketTo(s, "open")
    /\ UNCHANGED <<drawVars, jetstream, timers, paused, clicks>>

\* Mutation: the end of a stream is taken for the end of the session.
GraphSocketClosedFinal(s) ==
    /\ socket[s].at \in {"connecting", "open", "closing"}
    /\ SocketTo(s, "closed")
    /\ jetstream' = 0
    /\ UNCHANGED <<timers, drawVars, paused, clicks>>

\* onclose, of whichever socket: the variable is reset and, unless the page is
\* paused, a reconnect is due.
GraphSocketClosed(s) ==
    /\ socket[s].at \in {"connecting", "open", "closing"}
    /\ SocketTo(s, "closed")
    /\ jetstream' = 0
    /\ timers' = IF paused THEN timers ELSE timers + 1
    /\ UNCHANGED <<drawVars, paused, clicks>>

Delivered == FoldLeft(LAMBDA sum, c : sum + Cardinality(c.got), 0, socket)

\* onmessage
GraphFrame(s, n) ==
    /\ socket[s].at = "open" /\ n \notin socket[s].got
    /\ Delivered < MaxFrames
    /\ socket' = [socket EXCEPT ![s].got = @ \cup {n}]
    /\ IF paused THEN UNCHANGED <<graph, frames>>
       ELSE /\ graph' = AddRecord(graph, n, hidden)
            /\ frames' = IF recording THEN Append(frames, n) ELSE frames
    /\ UNCHANGED <<hidden, recording, savedRecording, whole, jetstream, timers, paused, clicks>>

-----------------------------------------------------------------------------
(* Buttons                                                                 *)

Click == clicks < MaxClicks /\ clicks' = clicks + 1

PauseButton ==
    /\ Click
    /\ paused' = ~paused
    /\ IF paused THEN ConnectJetstream
       ELSE /\ jetstream' = 0
            /\ IF jetstream # 0 /\ socket[jetstream].at \in {"connecting", "open"}
               THEN SocketTo(jetstream, "closing") ELSE UNCHANGED socket
            /\ UNCHANGED timers
    /\ UNCHANGED drawVars

ClearButton ==
    /\ Click
    /\ graph' = EmptyGraph
    /\ whole' = (frames = <<>>)
    /\ UNCHANGED <<hidden, frames, recording, savedRecording, socket, jetstream, timers, paused>>

ToggleNsid(k) ==
    /\ Click
    /\ hidden' = IF k \in hidden THEN hidden \ {k} ELSE hidden \cup {k}
    /\ whole' = FALSE
    /\ UNCHANGED <<graph, frames, recording, savedRecording, socket, jetstream, timers, paused>>

\* startRecording, or stopRecording, which keeps every commit.
RecButton ==
    /\ Click
    /\ recording' = ~recording
    /\ savedRecording' = IF recording /\ frames # <<>> THEN Append(savedRecording, frames) ELSE savedRecording
    /\ frames' = <<>>
    /\ whole' = (~recording /\ graph = EmptyGraph)
    /\ UNCHANGED <<graph, hidden, socket, jetstream, timers, paused>>

LoadButton(i) ==
    /\ Click
    /\ graph' = Replay(savedRecording[i], hidden)
    /\ whole' = FALSE
    /\ UNCHANGED <<hidden, frames, recording, savedRecording, socket, jetstream, timers, paused>>

GraphNext ==
    \/ \E s \in DOMAIN socket : GraphSocketOpens(s) \/ GraphSocketClosed(s) \/ \E n \in Records : GraphFrame(s, n)
    \/ TimerFires \/ PauseButton \/ ClearButton \/ RecButton
    \/ \E k \in Hideable : ToggleNsid(k)
    \/ \E i \in DOMAIN savedRecording : LoadButton(i)

GraphSpec == GraphInit /\ [][GraphNext]_graphVars

-----------------------------------------------------------------------------
(* Properties                                                              *)

\* A recording made from an empty graph on replays as the graph that was seen,
\* whatever the order of its records, with frames delivered by two sockets and
\* with real events merged into synthetic ones.
ReplayIsWhatWasSeen == recording /\ whole /\ hidden = {} => Replay(frames, {}) = graph

\* While the page is not paused, a socket is up or on its way, or a reconnect
\* is due, however fast pause and resume follow each other.
UnpausedIsWatching ==
    ~paused => timers > 0 \/ \E s \in DOMAIN socket : socket[s].at \in {"connecting", "open"}

\* A recording replays as the graph that was seen, and a page that is not paused
\* is connected or will be, however pauses, clicks and socket events interleave.
GraphIsSound == ReplayIsWhatWasSeen /\ UnpausedIsWatching
=============================================================================
