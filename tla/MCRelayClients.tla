--------------------------- MODULE MCRelayClients ---------------------------
(***************************************************************************)
(* Small instances of what surrounds the relay: its streams, its nonces,   *)
(* its subscribers on servers and in browsers, and the pages that watch    *)
(* through it.  They share no variable.  focus names the one that moves in *)
(* a behaviour while the others rest in an initial state, so that TLC      *)
(* explores their state spaces side by side and not their product.         *)
(***************************************************************************)
EXTENDS RelayStreams, NonceStore, SubscriberLoop, SshSessions, BrowserRelay,
        BrowserVms, LocalPds, SpindleViewer, MarketGraph

CONSTANT d1
VARIABLE focus

\* One subdomain for all sockets, requests and callers.
AllAtD1(S) == [x \in S |-> d1]
MCSubOf      == AllAtD1(Sockets)
MCTarget     == AllAtD1(Requests)
MCCallTarget == AllAtD1(Callers)

\* Machines that share a name, so that one is requested again.
MCNameOf   == [m \in Machines |-> "a"]
MCIssuerOf == [m \in Machines |-> m]

\* A callee with a service entry in its DID document and one without.
MCTargets == {[host |-> "h", doc |-> "found"], [host |-> "h", doc |-> "noService"]}

MCSpindleOf == [r \in Repositories |-> IF r = "c" THEN NoSpindle ELSE "s"]

\* A VM, the RFP that asks for it, its receipt and an event about it: every
\* record but the first points at another one.
Node(key, kind, refs, roles) ==
    [uri |-> <<key, "real">>, kind |-> kind, refs |-> refs, roles |-> roles, routes |-> {}]
MCRecords ==
    {Node("v", "vm", <<>>, {"w"}),
     Node("f", "rfp", [payload |-> <<"v", "real">>], {}),
     Node("r", "receipt", [rfp |-> <<"f", "real">>], {}),
     Node("e", "event", [receipt |-> <<"r", "real">>, payload |-> <<"p", "real">>], {})}

Parts == {"streams", "nonces", "loop", "ssh", "browser", "vms", "pds", "viewer", "graph"}

clientsVars == <<focus, allVars, nonceVars, loopVars, sshVars, browserVars, vmVars, localVars,
                 viewerVars, graphVars>>

ClientsInit ==
    /\ focus \in Parts
    /\ StreamInit /\ SshInit /\ BrowserInit /\ VmInit /\ LocalInit /\ GraphInit
    /\ NonceInit /\ LoopInit /\ ViewerInit
    /\ focus # "nonces" => \A c, d \in Calls : call[c] = call[d] /\ call[c].key = (CHOOSE k \in Keys : TRUE)
                                               /\ call[c].nonce = (CHOOSE n \in Nonces : TRUE)
    /\ focus # "loop" => phase[CHOOSE a \in Attempts : TRUE] = "fetching"
    /\ focus # "viewer" => signedIn

ClientsNext ==
    /\ IF focus = "streams" THEN StreamNext ELSE UNCHANGED allVars
    /\ IF focus = "nonces" THEN NonceNext ELSE UNCHANGED nonceVars
    /\ IF focus = "loop" THEN LoopNext ELSE UNCHANGED loopVars
    /\ IF focus = "ssh" THEN SshNext ELSE UNCHANGED sshVars
    /\ IF focus = "browser" THEN BrowserNext ELSE UNCHANGED browserVars
    /\ IF focus = "vms" THEN VmNext ELSE UNCHANGED vmVars
    /\ IF focus = "pds" THEN LocalNext ELSE UNCHANGED localVars
    /\ IF focus = "viewer" THEN ViewerNext ELSE UNCHANGED viewerVars
    /\ IF focus = "graph" THEN GraphNext ELSE UNCHANGED graphVars
    /\ UNCHANGED focus

\* The fairness of the component in focus; the others do not move.
ClientsFairness ==
    /\ \A s \in Sockets : WF_allVars(focus = "streams" /\ ReceiveFrame(s))
    /\ \A c \in Callers : WF_allVars(focus = "streams" /\ callerState[c] = "CLOSING" /\ CallerOnClose(c))
    /\ \A s \in Sessions : /\ WF_sshVars(focus = "ssh" /\ SshForget(s))
                           /\ WF_sshVars(focus = "ssh" /\ proc[s] = "dying" /\ SshExit(s))
    /\ \A w \in WebSockets : WF_sshVars(focus = "ssh" /\ SshExitFrame(w))
    /\ \A s \in Loops : WF_browserVars(focus = "browser" /\ LoopStep(s))
    /\ \A f \in Frames : WF_browserVars(focus = "browser" /\ FrameAnswered(f))
    /\ WF_browserVars(focus = "browser" /\ EnsureKeypair)

ClientsSpec == ClientsInit /\ [][ClientsNext]_clientsVars /\ ClientsFairness

-----------------------------------------------------------------------------
(* Properties                                                              *)

\* What must come to an end does: the producer of a caller that left is
\* stopped, the ssh session of a closed socket is reaped, and a request handed
\* to a browser is answered although the tab that was asked is gone.
ClientsWindDown == StreamsWindDown /\ SessionsAreReaped /\ FramesAreAnswered
=============================================================================
