------------------------------ MODULE XrpcRelay ------------------------------
(***************************************************************************)
(* The XRPC relay: the in-memory RelayState (lib/xrpc-relay/relay.ts) and  *)
(* the WebSocket and HTTP handlers that drive it                           *)
(* (lib/hono-factory-xrpc-relay/mod.ts).                                   *)
(*                                                                         *)
(* A subscriber behind NAT opens a WebSocket, proves custody of a key and  *)
(* is bound to the subdomain of that key.  HTTP requests to the subdomain  *)
(* are framed onto the socket and answered by response frames.  While the  *)
(* subscriber is away its requests wait in a reconnect queue until it      *)
(* comes back or a grace timer fires.                                      *)
(*                                                                         *)
(* JavaScript runs every handler to its next await without interruption,   *)
(* so one action is one such run.  The only await that splits a handler    *)
(* here is the signature check inside onOpen: Connect is the part before   *)
(* it, AcceptRegistration and RejectRegistration the part after it.        *)
(***************************************************************************)
EXTENDS Naturals, FiniteSets

CONSTANTS
    Subdomains,   \* the keys of the Map subscribers, one per did:key
    Sockets,      \* subscriber connections, each opened at most once
    SubOf,        \* the subdomain of the did a connection asks for
    Requests,     \* HTTP requests that reach the relay, by requestId
    Target,       \* the subdomain in the Host header of a request
    SendThrows,   \* does WebSocket.send throw when the socket is not OPEN?
    NoSocket      \* "no entry" in the Map subscribers

ASSUME RelayAssumption ==
    /\ SubOf \in [Sockets -> Subdomains]
    /\ Target \in [Requests -> Subdomains]
    /\ SendThrows \in BOOLEAN
    /\ NoSocket \notin Sockets

VARIABLES
    readyState,    \* WebSocket.readyState of a connection at the relay
    registration,  \* how far onOpen has come for a connection
    subscribers,   \* RelayState.subscribers
    pending,       \* RelayState.pendingRequests: requests with a relay timer
    grace,         \* the subdomains with an entry in RelayState.reconnectQueues
    queued,        \* the requests in the entries of those queues
    stranded,      \* requests a throwing send dropped between the two maps
    inflight,      \* request frames on their way to, or handled by, a peer
    outcome        \* what the HTTP caller has been told

vars == <<readyState, registration, subscribers, pending, grace, queued,
          stranded, inflight, outcome>>

socketVars  == <<readyState, registration>>
requestVars == <<pending, grace, queued, stranded, inflight, outcome>>

ReadyStates   == {"NEW", "OPEN", "CLOSING", "CLOSED"}
Registrations == {"none", "verifying", "accepted", "rejected"}
Outcomes      == {"idle", "waiting", "answered", "timedOut", "dropped",
                  "notFound"}
Settled       == {"answered", "timedOut", "dropped", "notFound"}

-----------------------------------------------------------------------------

PendingOf(d) == {r \in pending : Target[r] = d}

QueuedOf(d) == {r \in queued : Target[r] = d}

\* A subscriber that dispatchRequest may send to.
Live(d) == /\ subscribers[d] # NoSocket
           /\ readyState[subscribers[d]] = "OPEN"

Init ==
    /\ readyState   = [s \in Sockets |-> "NEW"]
    /\ registration = [s \in Sockets |-> "none"]
    /\ subscribers  = [d \in Subdomains |-> NoSocket]
    /\ pending  = {}
    /\ grace    = {}
    /\ queued   = {}
    /\ stranded = {}
    /\ inflight = {}
    /\ outcome  = [r \in Requests |-> "idle"]

-----------------------------------------------------------------------------
(* Subscriber connections                                                  *)

\* The upgrade succeeded and onOpen runs up to the await of nonceStore.verify,
\* or refuses a connection whose did or registration is malformed.
Connect(s) ==
    /\ readyState[s] = "NEW"
    /\ \/ /\ readyState'   = [readyState EXCEPT ![s] = "OPEN"]
          /\ registration' = [registration EXCEPT ![s] = "verifying"]
       \/ /\ readyState'   = [readyState EXCEPT ![s] = "CLOSING"]
          /\ registration' = [registration EXCEPT ![s] = "rejected"]
    /\ UNCHANGED <<subscribers, requestVars>>

\* Mutation of RejectRegistration: a refused socket is bound before it closes.
RejectRegistrationBinds(s) ==
    /\ registration[s] = "verifying"
    /\ registration' = [registration EXCEPT ![s] = "rejected"]
    /\ subscribers'  = [subscribers EXCEPT ![SubOf[s]] = s]
    /\ grace' = grace \ {SubOf[s]}
    /\ queued' = queued \ QueuedOf(SubOf[s])
    /\ pending' = pending \cup QueuedOf(SubOf[s])
    /\ UNCHANGED <<readyState, stranded, inflight, outcome>>

\* onOpen after the await, when verification failed or the key is another's.
RejectRegistration(s) ==
    /\ registration[s] = "verifying"
    /\ registration' = [registration EXCEPT ![s] = "rejected"]
    /\ readyState' = [readyState EXCEPT ![s] = IF @ = "OPEN" THEN "CLOSING" ELSE @]
    /\ UNCHANGED <<subscribers, requestVars>>

\* Mutation of FlushReconnectQueue: the grace timer is not cancelled.
FlushKeepsGraceTimer(d, s) ==
    /\ pending'  = pending \cup QueuedOf(d)
    /\ queued'   = queued \ QueuedOf(d)
    /\ inflight' = inflight \cup ({s} \X QueuedOf(d))
    /\ UNCHANGED <<grace, stranded, outcome>>

\* flushReconnectQueue: every queued request gets a relay timer and is sent
\* again.  A send that throws leaves the loop after the first request; the
\* queue is already gone from the map, so the rest of its entries are lost.
FlushReconnectQueue(d, s) ==
    /\ grace'  = grace \ {d}
    /\ queued' = queued \ QueuedOf(d)
    /\ \/ /\ readyState[s] = "OPEN"
          /\ pending'  = pending \cup QueuedOf(d)
          /\ inflight' = inflight \cup ({s} \X QueuedOf(d))
          /\ UNCHANGED stranded
       \/ /\ readyState[s] # "OPEN"
          /\ ~SendThrows \/ QueuedOf(d) = {}
          /\ pending' = pending \cup QueuedOf(d)
          /\ UNCHANGED <<inflight, stranded>>
       \/ /\ readyState[s] # "OPEN"
          /\ SendThrows
          /\ \E first \in QueuedOf(d) :
                /\ pending'  = pending \cup {first}
                /\ stranded' = stranded \cup (QueuedOf(d) \ {first})
          /\ UNCHANGED inflight
    /\ UNCHANGED outcome

\* onOpen after the await, when the registration verified.  Nothing here asks
\* whether the socket closed meanwhile or another one holds the subdomain.
AcceptRegistration(s) ==
    /\ registration[s] = "verifying"
    /\ registration' = [registration EXCEPT ![s] = "accepted"]
    /\ subscribers'  = [subscribers EXCEPT ![SubOf[s]] = s]
    /\ FlushReconnectQueue(SubOf[s], s)
    /\ UNCHANGED readyState

\* The peer or the network ends the connection; onClose is still to come.
PeerClose(s) ==
    /\ readyState[s] = "OPEN"
    /\ readyState' = [readyState EXCEPT ![s] = "CLOSING"]
    /\ UNCHANGED <<registration, subscribers, requestVars>>

\* Mutation of DrainToReconnectQueue: the entries of an earlier drain are
\* overwritten, as if the queue had been created anew.
DrainReplacesQueue(d) ==
    /\ grace'   = grace \cup {d}
    /\ queued'  = (queued \ QueuedOf(d)) \cup PendingOf(d)
    /\ pending' = pending \ PendingOf(d)
    /\ UNCHANGED <<stranded, inflight, outcome>>

\* Mutation of DrainToReconnectQueue: pending requests keep their relay timers.
DrainLeavesPending(d) ==
    /\ grace' = grace \cup {d}
    /\ UNCHANGED <<queued, pending, stranded, inflight, outcome>>

\* drainToReconnectQueue: the pending requests of the subdomain lose their
\* timers and wait in its queue, whose grace timer is started afresh.
DrainToReconnectQueue(d) ==
    /\ grace'   = grace \cup {d}
    /\ queued'  = queued \cup PendingOf(d)
    /\ pending' = pending \ PendingOf(d)
    /\ UNCHANGED <<stranded, inflight, outcome>>

\* The bodies of onClose and onError: whatever socket d is bound to is unbound.
Unregister(d) ==
    /\ subscribers' = [subscribers EXCEPT ![d] = NoSocket]
    /\ DrainToReconnectQueue(d)

OnClose(s) ==
    /\ readyState[s] \in {"OPEN", "CLOSING"}
    /\ readyState' = [readyState EXCEPT ![s] = "CLOSED"]
    /\ Unregister(SubOf[s])
    /\ UNCHANGED registration

\* An error event; the close event of the same socket follows it.
OnError(s) ==
    /\ readyState[s] = "OPEN"
    /\ readyState' = [readyState EXCEPT ![s] = "CLOSING"]
    /\ Unregister(SubOf[s])
    /\ UNCHANGED registration

-----------------------------------------------------------------------------
(* Requests                                                                *)

\* Mutation of DispatchRequest: the readyState of the socket is not looked at
\* and a request without a subscriber waits instead of failing.
DispatchAlwaysQueues(r) ==
    /\ outcome[r] = "idle"
    /\ \/ /\ Live(Target[r])
          /\ pending'  = pending \cup {r}
          /\ inflight' = inflight \cup {<<subscribers[Target[r]], r>>}
          /\ UNCHANGED queued
       \/ /\ ~Live(Target[r])
          /\ queued' = queued \cup {r}
          /\ UNCHANGED <<pending, inflight>>
    /\ outcome' = [outcome EXCEPT ![r] = "waiting"]
    /\ UNCHANGED <<socketVars, subscribers, grace, stranded>>

\* dispatchRequest: send to a live subscriber, wait for one in its grace
\* period, or answer 404.
DispatchRequest(r) ==
    /\ outcome[r] = "idle"
    /\ LET d == Target[r] IN
       \/ /\ Live(d)
          /\ pending'  = pending \cup {r}
          /\ inflight' = inflight \cup {<<subscribers[d], r>>}
          /\ outcome'  = [outcome EXCEPT ![r] = "waiting"]
          /\ UNCHANGED queued
       \/ /\ ~Live(d)
          /\ d \in grace
          /\ queued'  = queued \cup {r}
          /\ outcome' = [outcome EXCEPT ![r] = "waiting"]
          /\ UNCHANGED <<pending, inflight>>
       \/ /\ ~Live(d)
          /\ d \notin grace
          /\ outcome' = [outcome EXCEPT ![r] = "notFound"]
          /\ UNCHANGED <<pending, queued, inflight>>
    /\ UNCHANGED <<socketVars, subscribers, grace, stranded>>

\* handleResponse: only a request that is still pending can be answered.
HandleResponse(r) ==
    \/ /\ r \in pending
       /\ pending' = pending \ {r}
       /\ outcome' = [outcome EXCEPT ![r] = "answered"]
    \/ /\ r \notin pending
       /\ UNCHANGED <<pending, outcome>>

\* A #response frame arrives; whichever socket brings it, it is matched by id.
OnResponse(s, r) ==
    /\ <<s, r>> \in inflight
    /\ readyState[s] = "OPEN"
    /\ inflight' = inflight \ {<<s, r>>}
    /\ HandleResponse(r)
    /\ UNCHANGED <<socketVars, subscribers, grace, queued, stranded>>

\* The relay timer of a pending request fires.
RelayTimeout(r) ==
    /\ r \in pending
    /\ pending' = pending \ {r}
    /\ outcome' = [outcome EXCEPT ![r] = "timedOut"]
    /\ UNCHANGED <<socketVars, subscribers, grace, queued, stranded, inflight>>

\* Mutation of GraceExpired: the queue is deleted but its entries are kept.
GraceExpiredForgets(d) ==
    /\ d \in grace
    /\ grace'  = grace \ {d}
    /\ queued' = queued \ QueuedOf(d)
    /\ UNCHANGED <<socketVars, subscribers, pending, stranded, inflight, outcome>>

\* The grace timer of a queue fires: the queue goes and its requests fail.
GraceExpired(d) ==
    /\ d \in grace
    /\ grace'   = grace \ {d}
    /\ queued'  = queued \ QueuedOf(d)
    /\ outcome' = [r \in Requests |-> IF r \in QueuedOf(d) THEN "dropped"
                                                           ELSE outcome[r]]
    /\ UNCHANGED <<socketVars, subscribers, pending, stranded, inflight>>

-----------------------------------------------------------------------------

SocketStep(s) == \/ Connect(s) \/ RejectRegistration(s) \/ AcceptRegistration(s)
                 \/ PeerClose(s) \/ OnClose(s) \/ OnError(s)

Next ==
    \/ \E s \in Sockets : SocketStep(s)
    \/ \E r \in Requests : DispatchRequest(r) \/ RelayTimeout(r)
    \/ \E s \in Sockets, r \in Requests : OnResponse(s, r)
    \/ \E d \in Subdomains : GraceExpired(d)

\* Timers fire.  No peer is assumed to connect, to answer or to go away.
Fairness ==
    /\ \A r \in Requests : WF_vars(RelayTimeout(r))
    /\ \A d \in Subdomains : WF_vars(GraceExpired(d))

Spec == Init /\ [][Next]_vars /\ Fairness

-----------------------------------------------------------------------------
(* Correctness                                                             *)

\* The maps of RelayState and the sockets of its handlers keep their shape; an
\* entry of subscribers is a connection or absent.
TypeOK ==
    /\ readyState   \in [Sockets -> ReadyStates]
    /\ registration \in [Sockets -> Registrations]
    /\ subscribers  \in [Subdomains -> Sockets \cup {NoSocket}]
    /\ pending  \subseteq Requests
    /\ grace    \subseteq Subdomains
    /\ queued   \subseteq Requests
    /\ stranded \subseteq Requests
    /\ inflight \subseteq Sockets \X Requests
    /\ outcome  \in [Requests -> Outcomes]

\* A caller waits exactly while its request is in one of the relay's maps,
\* and never in two: through drains, flushes, timers and responses in any
\* order no request is lost, doubled or left behind after it was settled.
\* Only a send that throws in the middle of a flush can strand one.
Tracked ==
    /\ \A r \in Requests :
          outcome[r] = "waiting" <=> r \in pending \cup queued \cup stranded
    /\ pending \cap queued = {}
    /\ stranded \cap (pending \cup queued) = {}
    /\ stranded # {} => SendThrows

\* A reconnect queue exists only while its subdomain is unbound, so no
\* request waits out a grace period behind a subscriber that is back.
QueueOnlyWhileAway ==
    \A d \in grace : subscribers[d] = NoSocket

\* A request waits only where something will settle it: a pending one has a
\* bound subscriber, a queued one a queue with a running grace timer.
WaitingIsServed ==
    /\ \A r \in pending : subscribers[Target[r]] # NoSocket
    /\ \A r \in queued  : Target[r] \in grace

\* Requests reach only sockets whose registration was accepted for the
\* subdomain the caller named, also when they are replayed after a reconnect.
Isolation ==
    /\ \A d \in Subdomains : subscribers[d] # NoSocket =>
          /\ SubOf[subscribers[d]] = d
          /\ registration[subscribers[d]] = "accepted"
    /\ \A f \in inflight :
          /\ SubOf[f[1]] = Target[f[2]]
          /\ registration[f[1]] = "accepted"

\* What the two maps of RelayState guarantee to a request at any time, however
\* connections, late close events, timers and answers interleave: it is in
\* exactly one place, something will settle it there, and only the subdomain
\* its caller named sees it.
RequestsAreSafe == Tracked /\ QueueOnlyWhileAway /\ WaitingIsServed /\ Isolation

\* A failure of the grace period is reported only when the subdomain is
\* unbound, and a settled request is never settled again.
HonestOutcome ==
    [][\A r \in Requests :
          /\ outcome[r] \in Settled => outcome'[r] = outcome[r]
          /\ outcome'[r] = "dropped" /\ outcome[r] # "dropped"
                => subscribers[Target[r]] = NoSocket /\ outcome[r] = "waiting"]_vars

\* Every caller gets an answer or an error: the timers see to it even if
\* subscribers never answer and never come back.  Only a request that a
\* throwing send stranded waits for ever.
EveryRequestSettles ==
    \A r \in Requests :
        outcome[r] = "waiting" ~> outcome[r] \in Settled \/ r \in stranded

\* The subscribe lexicon: the relay "binds the WebSocket to that key", with
\* an id assigned "for the connection lifetime".  So a bound socket that
\* stays OPEN is unbound only in favour of another one.
BoundWhileOpen ==
    [][\A d \in Subdomains :
          /\ subscribers[d] # NoSocket
          /\ readyState'[subscribers[d]] = "OPEN"
          => subscribers'[d] # NoSocket]_vars

-----------------------------------------------------------------------------
(* The promise to the callers                                              *)

\* A subdomain as its callers see it.
ServiceOf(d) == IF subscribers[d] # NoSocket THEN "up"
                ELSE IF d \in grace THEN "grace" ELSE "down"

\* What its caller is to be told of a request.
ReplyTo(r) == IF r \in stranded THEN "lost" ELSE outcome[r]

Abstract == INSTANCE RelayPromise
              WITH service <- [d \in Subdomains |-> ServiceOf(d)],
                   reply   <- [r \in Requests |-> ReplyTo(r)],
                   MayLose <- SendThrows

\* Sockets, drains, flushes and timers together do what RelayPromise says, and
\* requests are lost only by a send that throws during a flush.
KeepsPromise == Abstract!Promise

=============================================================================
