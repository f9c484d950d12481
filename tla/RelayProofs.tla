---------------------------- MODULE RelayProofs -----------------------------
(***************************************************************************)
(* Proofs about the relay and its clients: requests and what callers see   *)
(* of them, subscriptions, nonces, the reconnecting subscriber, ssh        *)
(* sessions and the identity behind them, for any number of sockets,       *)
(* requests, callers, calls, attempts and sessions; and about the pages in *)
(* the browser.                                                            *)
(***************************************************************************)
EXTENDS XrpcRelay, RelayStreams, NonceStore, SubscriberLoop, SshSessions,
        BrowserRelay, BrowserVms, LocalPds, SpindleViewer, MarketGraph,
        SequenceLemmas, TLAPS

-----------------------------------------------------------------------------
(* XrpcRelay: requests, for both behaviours of WebSocket.send              *)

\* A connection that was never opened has no registration.  The bookkeeping
\* invariants only hold together: that a queue exists only
\* while the subdomain is unbound is what keeps a flush from meeting pending
\* requests, and WaitingIsServed what lets one timer settle all that waits.
EarlySocket == \A s \in Sockets : readyState[s] = "NEW" => registration[s] = "none"

IInv == /\ TypeOK
        /\ EarlySocket
        /\ Tracked
        /\ QueueOnlyWhileAway
        /\ WaitingIsServed
        /\ Isolation

\* The relay starts with empty maps, where nothing waits.
LEMMA InitIInv == Init => IInv
BY RelayAssumption
DEF Init, IInv, TypeOK, Tracked, QueueOnlyWhileAway, WaitingIsServed, Isolation,
    EarlySocket, ReadyStates, Registrations, Outcomes

\* flushReconnectQueue moves each queued request of d to the pending map or,
\* when a send throws, strands it; it never touches another subdomain.
LEMMA FlushPreserves ==
    ASSUME IInv, NEW s \in Sockets, AcceptRegistration(s)
    PROVE  IInv'
<1> DEFINE d == SubOf[s]
<1>d. d \in Subdomains BY RelayAssumption
<1> USE DEF IInv
<1>f. /\ grace'  = grace \ {d}
      /\ queued' = queued \ QueuedOf(d)
      /\ outcome' = outcome
      /\ readyState' = readyState
      /\ registration' = [registration EXCEPT ![s] = "accepted"]
      /\ subscribers'  = [subscribers EXCEPT ![d] = s]
  BY DEF AcceptRegistration, FlushReconnectQueue
<1>q. QueuedOf(d) \subseteq queued /\ \A r \in QueuedOf(d) : Target[r] = d
  BY DEF QueuedOf
<1>c. \/ /\ pending'  = pending \cup QueuedOf(d)
         /\ inflight' = inflight \cup ({s} \X QueuedOf(d))
         /\ stranded' = stranded
      \/ /\ pending' = pending \cup QueuedOf(d)
         /\ inflight' = inflight
         /\ stranded' = stranded
      \/ /\ SendThrows
         /\ inflight' = inflight
         /\ \E first \in QueuedOf(d) :
               /\ pending'  = pending \cup {first}
               /\ stranded' = stranded \cup (QueuedOf(d) \ {first})
  BY DEF AcceptRegistration, FlushReconnectQueue
<1>1. TypeOK'
  BY <1>c, <1>d, <1>f, <1>q DEF TypeOK, Registrations
<1>2. Tracked'
  BY <1>c, <1>f, <1>q DEF Tracked, TypeOK
<1>3. QueueOnlyWhileAway'
  BY <1>f, <1>d DEF QueueOnlyWhileAway, TypeOK
<1>4. WaitingIsServed'
  <2>1. \A r \in pending' : subscribers'[Target[r]] # NoSocket
    BY <1>c, <1>f, <1>d, <1>q, RelayAssumption DEF WaitingIsServed, TypeOK
  <2>2. \A r \in queued' : Target[r] \in grace'
    BY <1>f, <1>q DEF WaitingIsServed, TypeOK, QueuedOf
  <2> QED BY <2>1, <2>2 DEF WaitingIsServed
<1>5. Isolation'
  <2>1. \A e \in Subdomains : subscribers'[e] # NoSocket =>
          /\ SubOf[subscribers'[e]] = e
          /\ registration'[subscribers'[e]] = "accepted"
    BY <1>f, <1>d, RelayAssumption DEF Isolation, TypeOK
  <2>2. \A f \in inflight' : \/ f \in inflight
                             \/ \E r \in QueuedOf(d) : f = <<s, r>>
    BY <1>c
  <2>3. \A f \in inflight' : /\ SubOf[f[1]] = Target[f[2]]
                             /\ registration'[f[1]] = "accepted"
    BY <2>2, <1>f, <1>q DEF Isolation, TypeOK
  <2> QED BY <2>1, <2>3 DEF Isolation
<1>6. EarlySocket'
  BY <1>f DEF EarlySocket, TypeOK, AcceptRegistration
<1> QED BY <1>1, <1>2, <1>3, <1>4, <1>5, <1>6

\* The shared body of onClose and onError: the pending requests of the
\* subdomain move to its queue, which exists from then on.
LEMMA UnregisterPreserves ==
    ASSUME IInv, NEW s \in Sockets, OnClose(s) \/ OnError(s)
    PROVE  IInv'
<1> DEFINE d == SubOf[s]
<1>d. d \in Subdomains BY RelayAssumption
<1> USE DEF IInv
<1>f. /\ grace'   = grace \cup {d}
      /\ queued'  = queued \cup PendingOf(d)
      /\ pending' = pending \ PendingOf(d)
      /\ stranded' = stranded
      /\ inflight' = inflight
      /\ outcome' = outcome
      /\ registration' = registration
      /\ subscribers' = [subscribers EXCEPT ![d] = NoSocket]
      /\ \/ readyState' = [readyState EXCEPT ![s] = "CLOSED"]
         \/ readyState' = [readyState EXCEPT ![s] = "CLOSING"]
  BY DEF OnClose, OnError, Unregister, DrainToReconnectQueue
<1>1. TypeOK'
  BY <1>d, <1>f DEF TypeOK, ReadyStates, PendingOf
<1>2. Tracked'
  BY <1>f DEF Tracked, TypeOK, PendingOf
<1>3. QueueOnlyWhileAway'
  BY <1>d, <1>f DEF QueueOnlyWhileAway, TypeOK
<1>4. WaitingIsServed'
  BY <1>d, <1>f, RelayAssumption DEF WaitingIsServed, TypeOK, PendingOf
<1>5. Isolation'
  BY <1>d, <1>f, RelayAssumption DEF Isolation, TypeOK
<1>6. EarlySocket'
  BY <1>f DEF EarlySocket, TypeOK
<1> QED BY <1>1, <1>2, <1>3, <1>4, <1>5, <1>6

\* dispatchRequest gives a new request exactly one place, or refuses it.
LEMMA DispatchPreserves ==
    ASSUME IInv, NEW r \in Requests, DispatchRequest(r)
    PROVE  IInv'
<1> DEFINE d == Target[r]
<1>d. d \in Subdomains BY RelayAssumption
<1> USE DEF IInv
<1>f. /\ outcome[r] = "idle"
      /\ readyState' = readyState
      /\ registration' = registration
      /\ subscribers' = subscribers
      /\ grace' = grace
      /\ stranded' = stranded
  BY DEF DispatchRequest, socketVars
<1>n. r \notin pending \cup queued \cup stranded
  BY <1>f DEF Tracked
<1>e. EarlySocket'
  BY <1>f DEF EarlySocket
<1>1. CASE /\ Live(d)
           /\ pending'  = pending \cup {r}
           /\ inflight' = inflight \cup {<<subscribers[d], r>>}
           /\ outcome'  = [outcome EXCEPT ![r] = "waiting"]
           /\ queued' = queued
  <2>b. subscribers[d] # NoSocket /\ subscribers[d] \in Sockets
    BY <1>1, <1>d DEF Live, TypeOK
  <2>1. TypeOK'
    BY <1>1, <1>f, <2>b DEF TypeOK, Outcomes
  <2>2. Tracked'
    BY <1>1, <1>f, <1>n DEF Tracked, TypeOK
  <2>3. QueueOnlyWhileAway' /\ WaitingIsServed'
    BY <1>1, <1>f, <2>b DEF QueueOnlyWhileAway, WaitingIsServed, TypeOK
  <2>4. Isolation'
    BY <1>1, <1>f, <1>d, <2>b DEF Isolation, TypeOK
  <2> QED BY <2>1, <2>2, <2>3, <2>4, <1>e
<1>2. CASE /\ d \in grace
           /\ queued'  = queued \cup {r}
           /\ outcome' = [outcome EXCEPT ![r] = "waiting"]
           /\ pending' = pending
           /\ inflight' = inflight
  <2>1. TypeOK'
    BY <1>2, <1>f DEF TypeOK, Outcomes
  <2>2. Tracked'
    BY <1>2, <1>f, <1>n DEF Tracked, TypeOK
  <2>3. QueueOnlyWhileAway' /\ WaitingIsServed' /\ Isolation'
    BY <1>2, <1>f DEF QueueOnlyWhileAway, WaitingIsServed, Isolation, TypeOK
  <2> QED BY <2>1, <2>2, <2>3, <1>e
<1>3. CASE /\ outcome' = [outcome EXCEPT ![r] = "notFound"]
           /\ pending' = pending
           /\ queued' = queued
           /\ inflight' = inflight
  <2>1. TypeOK'
    BY <1>3, <1>f DEF TypeOK, Outcomes
  <2>2. Tracked'
    BY <1>3, <1>f, <1>n DEF Tracked, TypeOK
  <2>3. QueueOnlyWhileAway' /\ WaitingIsServed' /\ Isolation'
    BY <1>3, <1>f DEF QueueOnlyWhileAway, WaitingIsServed, Isolation, TypeOK
  <2> QED BY <2>1, <2>2, <2>3, <1>e
<1> QED BY <1>1, <1>2, <1>3 DEF DispatchRequest

\* The end of a request, by a response or by its relay timer: it leaves the
\* pending map in the step that settles it.
LEMMA FinishPreserves ==
    ASSUME IInv, NEW r \in Requests,
           RelayTimeout(r) \/ \E s \in Sockets : OnResponse(s, r)
    PROVE  IInv'
<1> USE DEF IInv
<1>f. /\ readyState' = readyState
      /\ registration' = registration
      /\ subscribers' = subscribers
      /\ grace' = grace
      /\ queued' = queued
      /\ stranded' = stranded
      /\ inflight' \subseteq inflight
  BY DEF RelayTimeout, OnResponse, socketVars
<1>c. \/ /\ r \in pending
         /\ pending' = pending \ {r}
         /\ \/ outcome' = [outcome EXCEPT ![r] = "answered"]
            \/ outcome' = [outcome EXCEPT ![r] = "timedOut"]
      \/ pending' = pending /\ outcome' = outcome
  BY DEF RelayTimeout, OnResponse, HandleResponse
<1>1. TypeOK'
  BY <1>f, <1>c DEF TypeOK, Outcomes
<1>2. Tracked'
  BY <1>f, <1>c DEF Tracked, TypeOK
<1>3. QueueOnlyWhileAway' /\ WaitingIsServed' /\ Isolation'
  BY <1>f, <1>c DEF QueueOnlyWhileAway, WaitingIsServed, Isolation, TypeOK
<1>4. EarlySocket'
  BY <1>f DEF EarlySocket
<1> QED BY <1>1, <1>2, <1>3, <1>4

\* The grace timer settles exactly the requests it removes.
LEMMA ExpirePreserves ==
    ASSUME IInv, NEW d \in Subdomains, GraceExpired(d)
    PROVE  IInv'
<1> USE DEF IInv
<1>1. TypeOK'
  BY DEF GraceExpired, TypeOK, Outcomes, socketVars
<1>2. Tracked'
  BY DEF GraceExpired, Tracked, TypeOK, QueuedOf
<1>3. QueueOnlyWhileAway' /\ WaitingIsServed'
  BY DEF GraceExpired, QueueOnlyWhileAway, WaitingIsServed, TypeOK, QueuedOf
<1>4. Isolation' /\ EarlySocket'
  BY DEF GraceExpired, Isolation, EarlySocket, socketVars
<1> QED BY <1>1, <1>2, <1>3, <1>4

\* Steps that move only a socket along its life cycle.  A socket that gets as
\* far as "accepted" never leaves it.
LEMMA SocketPreserves ==
    ASSUME IInv, NEW s \in Sockets,
           Connect(s) \/ RejectRegistration(s) \/ PeerClose(s)
    PROVE  IInv'
<1> USE DEF IInv
<1>f. /\ subscribers' = subscribers
      /\ pending' = pending
      /\ grace' = grace
      /\ queued' = queued
      /\ stranded' = stranded
      /\ inflight' = inflight
      /\ outcome' = outcome
  BY DEF Connect, RejectRegistration, PeerClose, requestVars
<1>1. TypeOK'
  BY <1>f DEF TypeOK, Connect, RejectRegistration, PeerClose, ReadyStates,
             Registrations
<1>2. Tracked' /\ QueueOnlyWhileAway' /\ WaitingIsServed'
  BY <1>f DEF Tracked, QueueOnlyWhileAway, WaitingIsServed
<1>3. Isolation'
  <2>1. \A t \in Sockets : registration[t] = "accepted"
                              => registration'[t] = "accepted"
    BY DEF Connect, RejectRegistration, PeerClose, TypeOK, EarlySocket
  <2> QED BY <2>1, <1>f, RelayAssumption DEF Isolation, TypeOK
<1>4. EarlySocket'
  BY DEF EarlySocket, TypeOK, Connect, RejectRegistration, PeerClose
<1> QED BY <1>1, <1>2, <1>3, <1>4

\* Every step of the relay preserves the invariant.
LEMMA NextIInv == IInv /\ [Next]_vars => IInv'
<1> SUFFICES ASSUME IInv, [Next]_vars PROVE IInv'
  OBVIOUS
<1>1. ASSUME NEW s \in Sockets, SocketStep(s) PROVE IInv'
  BY <1>1, FlushPreserves, UnregisterPreserves, SocketPreserves DEF SocketStep
<1>2. ASSUME NEW r \in Requests, DispatchRequest(r) PROVE IInv'
  BY <1>2, DispatchPreserves
<1>3. ASSUME NEW r \in Requests,
             RelayTimeout(r) \/ \E s \in Sockets : OnResponse(s, r)
      PROVE IInv'
  BY <1>3, FinishPreserves
<1>4. ASSUME NEW d \in Subdomains, GraceExpired(d) PROVE IInv'
  BY <1>4, ExpirePreserves
<1>5. CASE UNCHANGED vars
  BY <1>5 DEF vars, IInv, TypeOK, EarlySocket, Tracked, QueueOnlyWhileAway,
              WaitingIsServed, Isolation
<1> QED BY <1>1, <1>2, <1>3, <1>4, <1>5 DEF Next

\* The combined invariant holds in every reachable state.
LEMMA SpecIInv == Spec => []IInv
BY InitIInv, NextIInv, PTL DEF Spec

\* The relay's variables keep their types.
THEOREM TypeCorrect == Spec => []TypeOK
BY SpecIInv, PTL DEF IInv

\* No request is lost, doubled or left behind by the drains, flushes, timers
\* and responses of any number of connections.
THEOREM NothingLost == Spec => []Tracked
BY SpecIInv, PTL DEF IInv

\* No reconnect queue outlives the absence of its subscriber.
THEOREM NoQueueBehindSubscriber == Spec => []QueueOnlyWhileAway
BY SpecIInv, PTL DEF IInv

\* Whatever waits has a bound subscriber or a running grace timer.
THEOREM AlwaysServed == Spec => []WaitingIsServed
BY SpecIInv, PTL DEF IInv

\* Requests only reach accepted sockets of the subdomain they name.
THEOREM SubdomainsIsolated == Spec => []Isolation
BY SpecIInv, PTL DEF IInv

\* The four together: what RelayState guarantees to every request it holds, for
\* any number of connections, subdomains and requests.
THEOREM RelaySafe == Spec => []RequestsAreSafe
BY NothingLost, NoQueueBehindSubscriber, AlwaysServed, SubdomainsIsolated, PTL
   DEF RequestsAreSafe

\* Grace-period failures are reported only for an unbound subdomain, and what
\* a caller was told never changes.
THEOREM OutcomesHonest == Spec => HonestOutcome
<1> DEFINE Honest == \A r \in Requests :
          /\ outcome[r] \in Settled => outcome'[r] = outcome[r]
          /\ outcome'[r] = "dropped" /\ outcome[r] # "dropped"
                => subscribers[Target[r]] = NoSocket /\ outcome[r] = "waiting"
<1>1. IInv /\ [Next]_vars => [Honest]_vars
  <2> SUFFICES ASSUME IInv, Next PROVE Honest
    OBVIOUS
  <2> USE DEF IInv
  <2>u. outcome' = outcome => Honest
    OBVIOUS
  <2>1. ASSUME NEW s \in Sockets, SocketStep(s) PROVE Honest
    BY <2>1, <2>u DEF SocketStep, Connect, RejectRegistration, AcceptRegistration,
       FlushReconnectQueue, PeerClose, OnClose, OnError, Unregister,
       DrainToReconnectQueue, requestVars
  <2>2. ASSUME NEW r \in Requests, DispatchRequest(r) PROVE Honest
    BY <2>2 DEF DispatchRequest, Settled, TypeOK
  <2>3. ASSUME NEW r \in Requests,
               RelayTimeout(r) \/ \E s \in Sockets : OnResponse(s, r)
        PROVE Honest
    BY <2>3 DEF RelayTimeout, OnResponse, HandleResponse, Tracked, Settled, TypeOK
  <2>4. ASSUME NEW d \in Subdomains, GraceExpired(d) PROVE Honest
    BY <2>4 DEF GraceExpired, QueuedOf, Tracked, QueueOnlyWhileAway, Settled, TypeOK
  <2> QED BY <2>1, <2>2, <2>3, <2>4 DEF Next
<1> QED BY <1>1, SpecIInv, PTL DEF Spec, HonestOutcome

\* How an action of the relay looks to the callers: the service of one
\* subdomain changes, or that of none.
LEMMA ServiceChange ==
    ASSUME TypeOK, NEW d \in Subdomains, NEW b \in {"up", "grace", "down"},
           \A e \in Subdomains \ {d} : ServiceOf(e)' = ServiceOf(e),
           ServiceOf(d)' = b
    PROVE  [e \in Subdomains |-> ServiceOf(e)']
             = [[e \in Subdomains |-> ServiceOf(e)] EXCEPT ![d] = b]
OBVIOUS

\* The relay implements RelayPromise: every step of its sockets, maps and
\* timers is a step of the promise or invisible to it.
THEOREM PromiseKept == Spec => KeepsPromise
<1> DEFINE Step == Abstract!Next
           Same == UNCHANGED Abstract!promiseVars
<1>1. Init => Abstract!Init
  BY DEF Init, Abstract!Init, ServiceOf, ReplyTo
<1>2. IInv /\ IInv' /\ [Next]_vars => Step \/ Same
  <2> SUFFICES ASSUME IInv, IInv', [Next]_vars PROVE Step \/ Same
    OBVIOUS
  <2> USE DEF IInv
  <2>s. subscribers' = subscribers /\ grace' = grace
          => [e \in Subdomains |-> ServiceOf(e)']
               = [e \in Subdomains |-> ServiceOf(e)]
    BY DEF ServiceOf
  <2>r. outcome' = outcome /\ stranded' = stranded
          => [r \in Requests |-> ReplyTo(r)'] = [r \in Requests |-> ReplyTo(r)]
    BY DEF ReplyTo
  <2>x. ASSUME NEW r \in Requests, NEW result, r \notin stranded,
               stranded' = stranded, outcome' = [outcome EXCEPT ![r] = result]
        PROVE  [q \in Requests |-> ReplyTo(q)']
                 = [[q \in Requests |-> ReplyTo(q)] EXCEPT ![r] = result]
    BY <2>x DEF ReplyTo, TypeOK
  <2>1. ASSUME NEW s \in Sockets, AcceptRegistration(s) PROVE Step
    <3> DEFINE d == SubOf[s]
    <3>1. d \in Subdomains /\ s # NoSocket BY RelayAssumption
    <3>2. /\ \A e \in Subdomains \ {d} : ServiceOf(e)' = ServiceOf(e)
          /\ ServiceOf(d)' = "up"
      BY <2>1, <3>1 DEF AcceptRegistration, FlushReconnectQueue, ServiceOf, TypeOK
    <3>3. outcome' = outcome
      BY <2>1 DEF AcceptRegistration, FlushReconnectQueue
    <3>4. [e \in Subdomains |-> ServiceOf(e)']
            = [[e \in Subdomains |-> ServiceOf(e)] EXCEPT ![d] = "up"]
      BY <3>1, <3>2, ServiceChange
    <3>5. ASSUME stranded' = stranded PROVE Abstract!Attach(d)
      BY <3>3, <3>4, <3>5, <2>r DEF Abstract!Attach
    <3>6. ASSUME stranded' # stranded PROVE Abstract!Attach(d)
      <4>1. PICK first \in QueuedOf(d) :
               stranded' = stranded \cup (QueuedOf(d) \ {first})
        BY <2>1, <3>6 DEF AcceptRegistration, FlushReconnectQueue
      <4>2. SendThrows
        BY <2>1, <3>6 DEF AcceptRegistration, FlushReconnectQueue
      <4>3. ServiceOf(d) = "grace"
        BY <4>1 DEF QueuedOf, ServiceOf, WaitingIsServed, QueueOnlyWhileAway
      <4>4. \A r \in Requests :
              r \in QueuedOf(d) <=> Target[r] = d /\ ReplyTo(r) = "waiting"
        BY <4>3 DEF QueuedOf, ReplyTo, Tracked, WaitingIsServed, ServiceOf, TypeOK
      <4>5. [r \in Requests |-> ReplyTo(r)']
              = [r \in Requests |->
                   IF Target[r] = d /\ ReplyTo(r) = "waiting" /\ r # first
                     THEN "lost" ELSE ReplyTo(r)]
        BY <4>1, <4>4, <3>3 DEF ReplyTo, QueuedOf
      <4>6. first \in Requests /\ Target[first] = d /\ ReplyTo(first) = "waiting"
        BY <4>1, <4>4 DEF QueuedOf, TypeOK
      <4> QED
        BY <3>1, <3>4, <4>2, <4>3, <4>5, <4>6 DEF Abstract!Attach, Abstract!Waits
    <3> QED BY <3>1, <3>5, <3>6 DEF Abstract!Next
  <2>2. ASSUME NEW s \in Sockets, OnClose(s) \/ OnError(s) PROVE Step
    <3> DEFINE d == SubOf[s]
    <3>1. d \in Subdomains BY RelayAssumption
    <3>2. /\ \A e \in Subdomains \ {d} : ServiceOf(e)' = ServiceOf(e)
          /\ ServiceOf(d)' = "grace"
          /\ outcome' = outcome /\ stranded' = stranded
      BY <2>2, <3>1 DEF OnClose, OnError, Unregister, DrainToReconnectQueue,
                        ServiceOf, TypeOK
    <3>3. Abstract!Detach(d)
      BY <3>1, <3>2, <2>r, ServiceChange DEF Abstract!Detach
    <3> QED BY <3>1, <3>3 DEF Abstract!Next
  <2>3. ASSUME NEW s \in Sockets,
               Connect(s) \/ RejectRegistration(s) \/ PeerClose(s)
        PROVE Same
    BY <2>3, <2>s, <2>r DEF Connect, RejectRegistration, PeerClose, requestVars,
                      Abstract!promiseVars
  <2>4. ASSUME NEW r \in Requests, DispatchRequest(r) PROVE Step
    <3> DEFINE d == Target[r]
    <3>1. d \in Subdomains BY RelayAssumption
    <3>2. /\ outcome[r] = "idle"
          /\ subscribers' = subscribers
          /\ grace' = grace
          /\ stranded' = stranded
          /\ r \notin stranded
      BY <2>4 DEF DispatchRequest, Tracked
    <3>r. ReplyTo(r) = "idle"
      BY <3>2 DEF ReplyTo
    <3>3. CASE Live(d) \/ d \in grace
      <4>1. ServiceOf(d) # "down"
        BY <3>3, <3>1 DEF Live, ServiceOf, QueueOnlyWhileAway, TypeOK
      <4>2. outcome' = [outcome EXCEPT ![r] = "waiting"]
        BY <3>3, <2>4 DEF DispatchRequest
      <4>3. Abstract!Accept(r)
        BY <3>1, <3>2, <3>r, <4>1, <4>2, <2>s, <2>x DEF Abstract!Accept
      <4> QED BY <4>3 DEF Abstract!Next
    <3>4. CASE ~Live(d) /\ d \notin grace
      <4>1. ServiceOf(d) # "grace"
        BY <3>4, <3>1 DEF ServiceOf
      <4>2. outcome' = [outcome EXCEPT ![r] = "notFound"]
        BY <3>4, <2>4 DEF DispatchRequest
      <4>3. Abstract!Refuse(r)
        BY <3>1, <3>2, <3>r, <4>1, <4>2, <2>s, <2>x DEF Abstract!Refuse
      <4> QED BY <4>3 DEF Abstract!Next
    <3> QED BY <3>3, <3>4
  <2>5. ASSUME NEW r \in Requests,
               RelayTimeout(r) \/ \E s \in Sockets : OnResponse(s, r)
        PROVE Step \/ Same
    <3>1. subscribers' = subscribers /\ grace' = grace /\ stranded' = stranded
      BY <2>5 DEF RelayTimeout, OnResponse
    <3>2. CASE outcome' = outcome
      BY <3>1, <3>2, <2>s, <2>r DEF Abstract!promiseVars
    <3>3. CASE /\ r \in pending
               /\ \E result \in {"answered", "timedOut"} :
                     outcome' = [outcome EXCEPT ![r] = result]
      <4>1. r \notin stranded /\ ReplyTo(r) = "waiting"
        BY <3>3 DEF ReplyTo, Tracked, TypeOK
      <4>2. Target[r] \in Subdomains /\ ServiceOf(Target[r]) = "up"
        BY <3>3, RelayAssumption DEF ServiceOf, WaitingIsServed
      <4>3. Abstract!Finish(r)
        BY <3>1, <3>3, <4>1, <4>2, <2>s, <2>x DEF Abstract!Finish, Abstract!Waits
      <4> QED BY <4>3 DEF Abstract!Next
    <3> QED BY <3>2, <3>3, <2>5 DEF RelayTimeout, OnResponse, HandleResponse
  <2>6. ASSUME NEW d \in Subdomains, GraceExpired(d) PROVE Step
    <3>1. subscribers' = subscribers /\ grace' = grace \ {d} /\ d \in grace
      BY <2>6 DEF GraceExpired
    <3>2. /\ \A e \in Subdomains \ {d} : ServiceOf(e)' = ServiceOf(e)
          /\ ServiceOf(d) = "grace"
          /\ ServiceOf(d)' = "down"
      BY <3>1 DEF ServiceOf, QueueOnlyWhileAway
    <3>3. stranded' = stranded
      BY <2>6 DEF GraceExpired
    <3>4. \A r \in Requests :
            r \in QueuedOf(d) <=> Target[r] = d /\ ReplyTo(r) = "waiting"
      BY <3>1 DEF QueuedOf, ReplyTo, Tracked, WaitingIsServed, QueueOnlyWhileAway
    <3>5. [r \in Requests |-> ReplyTo(r)']
            = [r \in Requests |-> IF Target[r] = d /\ ReplyTo(r) = "waiting"
                                    THEN "dropped" ELSE ReplyTo(r)]
      BY <2>6, <3>3, <3>4 DEF GraceExpired, ReplyTo, QueuedOf, Tracked
    <3>6. Abstract!Expire(d)
      BY <3>2, <3>5, ServiceChange DEF Abstract!Expire, Abstract!Waits
    <3> QED BY <3>6 DEF Abstract!Next
  <2>7. CASE UNCHANGED vars
    BY <2>7, <2>s, <2>r DEF vars, Abstract!promiseVars
  <2> QED BY <2>1, <2>2, <2>3, <2>4, <2>5, <2>6, <2>7 DEF Next, SocketStep
<1> QED BY <1>1, <1>2, SpecIInv, PTL DEF Spec, KeepsPromise, Abstract!Promise

-----------------------------------------------------------------------------
(* RelayStreams: streams, callers and the frames under way agree           *)

\* The frames the relay sends.
StreamFrames ==
    {f \in [kind : {"registered", "request", "subscribe", "subscriptionCancel"},
            id : Sockets \cup Requests \cup Callers] :
        f.kind \in {"subscribe", "subscriptionCancel"} => f.id \in Callers}

SubscribeFrame(c) == Frame("subscribe", c)
CancelFrame(c) == Frame("subscriptionCancel", c)

\* Frame f is the i-th on the wire to s.
IsAt(s, i, f) == i \in 1..Len(wire[s]) /\ wire[s][i] = f

\* The stream of c is fed by s, or about to be.
Concerns(s, c) == c \in producers[s] \/ \E i : IsAt(s, i, SubscribeFrame(c))

StreamsTyped ==
    /\ callerState \in [Callers -> ReadyStates]
    /\ active \subseteq Callers
    /\ wire \in [Sockets -> Seq(StreamFrames)]
    /\ producers \in [Sockets -> SUBSET Callers]

\* A stream concerns one registered socket of its subdomain, from the time its
\* caller's socket opened.
ConcernsOne ==
    \A s \in Sockets, c \in Callers : Concerns(s, c) =>
        /\ registration[s] = "accepted" /\ SubOf[s] = CallTarget[c]
        /\ callerState[c] # "NEW"
        /\ \A t \in Sockets : Concerns(t, c) => t = s

\* A stream is subscribed once.
SubscribedOnce ==
    \A s \in Sockets, c \in Callers :
        /\ \A i, j : IsAt(s, i, SubscribeFrame(c)) /\ IsAt(s, j, SubscribeFrame(c)) => i = j
        /\ c \in producers[s] => \A i : ~IsAt(s, i, SubscribeFrame(c))

\* The bound socket that could still be told.
Told(s) == subscribers[SubOf[s]] = s /\ readyState[s] = "OPEN"

\* A stream that is over is cancelled behind its producer's back or behind the
\* frame that would start it.
EndedIsCancelled ==
    \A s \in Sockets, c \in Callers : Told(s) /\ c \notin active \cup errored =>
        /\ c \in producers[s] => \E j : IsAt(s, j, CancelFrame(c))
        /\ \A i : IsAt(s, i, SubscribeFrame(c)) =>
               \E j : IsAt(s, j, CancelFrame(c)) /\ (j \in Nat /\ i \in Nat /\ i < j)

ActiveIsOld == \A c \in active : callerState[c] # "NEW"

FewWait == IsFiniteSet(pending \cup queued)

StreamCore ==
    /\ StreamsTyped /\ ConcernsOne /\ SubscribedOnce /\ EndedIsCancelled
    /\ ActiveIsOld /\ ActiveIsBound /\ OpenCallerIsActive

StreamInv == IInv /\ FewWait /\ StreamCore

\* The initial states satisfy the invariant.
LEMMA StreamInitInv == StreamInit => StreamInv
  <1> SUFFICES ASSUME StreamInit PROVE StreamInv
    OBVIOUS
  <1>1. IInv
    BY InitIInv DEF StreamInit
  <1>2. FewWait
    BY FS_EmptySet DEF StreamInit, Init, FewWait
  <1>3. StreamsTyped
    BY DEF StreamInit, StreamsTyped, ReadyStates
  <1>4. \A s \in Sockets : \A c : ~Concerns(s, c) /\ producers[s] = {} /\ \A i, f : ~IsAt(s, i, f)
    BY DEF StreamInit, Concerns, IsAt
  <1>5. ConcernsOne /\ SubscribedOnce /\ EndedIsCancelled
    BY <1>4 DEF ConcernsOne, SubscribedOnce, EndedIsCancelled
  <1>6. ActiveIsOld /\ ActiveIsBound /\ OpenCallerIsActive
    BY DEF StreamInit, ActiveIsOld, ActiveIsBound, OpenCallerIsActive
  <1> QED
    BY <1>1, <1>2, <1>3, <1>5, <1>6 DEF StreamInv, StreamCore

\* Every step of the streams is a step of the relay, or none.
LEMMA StreamStepIsRelayStep == [StreamNext]_allVars => [Next]_vars
  <1>1. ASSUME NEW s \in Sockets,
               Register(s) \/ Disconnect(s) \/ ReceiveFrame(s) \/ SubscriberSeesClose(s)
        PROVE [Next]_vars
    BY <1>1 DEF Register, Disconnect, ReceiveFrame, SubscriberSeesClose, Next, SocketStep
  <1>2. ASSUME NEW r \in Requests, Dispatch(r) PROVE [Next]_vars
    BY <1>2 DEF Dispatch, Next
  <1>3. ASSUME NEW s \in Sockets, NEW r \in Requests, Answer(s, r) PROVE [Next]_vars
    BY <1>3 DEF Answer, Next
  <1>4. ASSUME NEW c \in Callers,
               CallerOpen(c) \/ CallerLeaves(c) \/ CallerOnClose(c) \/ CallerOnError(c)
        PROVE [Next]_vars
    BY <1>4 DEF CallerOpen, CallerLeaves, CallerOnClose, CallerOnError
  <1>5. ASSUME NEW s \in Sockets, NEW c \in Callers, SubscriptionClose(s, c) PROVE [Next]_vars
    BY <1>5 DEF SubscriptionClose
  <1>6. ASSUME Elsewhere PROVE [Next]_vars
    BY <1>6 DEF Elsewhere, Next, SocketStep
  <1>7. ASSUME UNCHANGED allVars PROVE [Next]_vars
    BY <1>7 DEF allVars
  <1> QED
    BY <1>1, <1>2, <1>3, <1>4, <1>5, <1>6, <1>7 DEF StreamNext

\* A step of the relay takes in one request at most.
LEMMA FewWaitStays == ASSUME FewWait, [Next]_vars PROVE FewWait'
  <1> DEFINE W == pending \cup queued
  <1>1. ASSUME NEW r PROVE IsFiniteSet(W \cup {r})
    BY FS_AddElement DEF FewWait
  <1>2. W' \subseteq W \/ \E r : W' \subseteq W \cup {r}
    <2>1. ASSUME NEW s \in Sockets, AcceptRegistration(s) PROVE W' \subseteq W
      <3>1. QueuedOf(SubOf[s]) \subseteq queued
        BY DEF QueuedOf
      <3> QED
        BY <2>1, <3>1 DEF AcceptRegistration, FlushReconnectQueue
    <2>2. ASSUME NEW s \in Sockets, SocketStep(s), ~AcceptRegistration(s) PROVE W' \subseteq W
      <3>1. PendingOf(SubOf[s]) \subseteq pending
        BY DEF PendingOf
      <3> QED
        BY <2>2, <3>1 DEF SocketStep, Connect, RejectRegistration, PeerClose, OnClose, OnError,
             Unregister, DrainToReconnectQueue, requestVars
    <2>3. ASSUME NEW r \in Requests, DispatchRequest(r) PROVE W' \subseteq W \cup {r}
      BY <2>3 DEF DispatchRequest
    <2>4. ASSUME NEW r \in Requests, RelayTimeout(r) PROVE W' \subseteq W
      BY <2>4 DEF RelayTimeout
    <2>5. ASSUME NEW s \in Sockets, NEW r \in Requests, OnResponse(s, r) PROVE W' \subseteq W
      BY <2>5 DEF OnResponse, HandleResponse
    <2>6. ASSUME NEW d \in Subdomains, GraceExpired(d) PROVE W' \subseteq W
      BY <2>6 DEF GraceExpired
    <2>7. ASSUME UNCHANGED vars PROVE W' \subseteq W
      BY <2>7 DEF vars
    <2> QED
      BY <2>1, <2>2, <2>3, <2>4, <2>5, <2>6, <2>7 DEF Next
  <1> QED
    BY <1>1, <1>2, FS_Subset DEF FewWait

\* What is sent comes behind what was sent before.
LEMMA Sent ==
    ASSUME StreamsTyped, NEW t \in Sockets, NEW fs \in Seq(StreamFrames), Send(t, fs)
    PROVE  /\ wire' \in [Sockets -> Seq(StreamFrames)]
           /\ \A s \in Sockets \ {t} : \A i, f : IsAt(s, i, f)' <=> IsAt(s, i, f)
           /\ \A i, f : IsAt(t, i, f) => IsAt(t, i, f)'
           /\ \A i, f : IsAt(t, i, f)' => IsAt(t, i, f) \/ \E k \in 1..Len(fs) : fs[k] = f
           /\ \A k \in 1..Len(fs) : \E i \in Nat :
                  IsAt(t, i, fs[k])' /\ \A j, f : IsAt(t, j, f) => j \in Nat /\ j < i
           /\ Len(fs) = 1 =>
                  \A i, j, f : IsAt(t, i, f)' /\ ~IsAt(t, i, f) /\ IsAt(t, j, f)' /\ ~IsAt(t, j, f) => i = j
  <1>1. wire[t] \in Seq(StreamFrames) /\ DOMAIN wire = Sockets
    BY DEF StreamsTyped
  <1> DEFINE w == wire[t] \o fs
             n == Len(wire[t])
  <1>2. /\ w \in Seq(StreamFrames) /\ n \in Nat /\ Len(fs) \in Nat /\ Len(w) = n + Len(fs)
        /\ \A i \in 1..n : w[i] = wire[t][i]
        /\ \A k \in 1..Len(fs) : w[n + k] = fs[k]
    BY <1>1
  <1>3. wire' = [wire EXCEPT ![t] = w]
    BY DEF Send
  <1>4. wire'[t] = w /\ \A s \in Sockets \ {t} : wire'[s] = wire[s]
    BY <1>1, <1>3
  <1>5. wire' \in [Sockets -> Seq(StreamFrames)]
    BY <1>2, <1>3 DEF StreamsTyped
  <1> HIDE DEF w
  <1>6. \A i : i \in 1..(n + Len(fs)) => i \in 1..n \/ \E k \in 1..Len(fs) : i = n + k
    <2> SUFFICES ASSUME NEW i \in 1..(n + Len(fs)), i \notin 1..n
                 PROVE  \E k \in 1..Len(fs) : i = n + k
      OBVIOUS
    <2>1. i - n \in 1..Len(fs) /\ i = n + (i - n)
      BY <1>2
    <2> QED
      BY <2>1
  <1>7. \A s \in Sockets \ {t} : \A i, f : IsAt(s, i, f)' <=> IsAt(s, i, f)
    BY <1>4 DEF IsAt
  <1>8. \A i, f : IsAt(t, i, f) => IsAt(t, i, f)'
    BY <1>2, <1>4 DEF IsAt
  <1>9. \A i, f : IsAt(t, i, f)' => IsAt(t, i, f) \/ \E k \in 1..Len(fs) : fs[k] = f
    <2> SUFFICES ASSUME NEW i, NEW f, IsAt(t, i, f)', ~IsAt(t, i, f)
                 PROVE  \E k \in 1..Len(fs) : fs[k] = f
      OBVIOUS
    <2>1. i \in 1..(n + Len(fs)) /\ w[i] = f
      BY <1>2, <1>4 DEF IsAt
    <2>2. i \notin 1..n
      BY <1>2, <2>1 DEF IsAt
    <2>3. PICK k \in 1..Len(fs) : i = n + k
      BY <1>6, <2>1, <2>2
    <2> QED
      BY <1>2, <2>1, <2>3
  <1>10. ASSUME NEW k \in 1..Len(fs)
         PROVE  \E i \in Nat : IsAt(t, i, fs[k])' /\ \A j, f : IsAt(t, j, f) => j \in Nat /\ j < i
    <2> DEFINE i == n + k
    <2>1. i \in Nat /\ i \in 1..(n + Len(fs)) /\ \A j \in 1..n : j \in Nat /\ j < i
      BY <1>2
    <2>2. \A j, f : IsAt(t, j, f) => j \in 1..n
      BY DEF IsAt
    <2>3. ASSUME NEW l, l = i PROVE IsAt(t, l, fs[k])'
      BY <1>2, <1>4, <2>1, <2>3 DEF IsAt
    <2> QED
      BY <2>1, <2>2, <2>3
  <1>11. ASSUME Len(fs) = 1, NEW i, NEW f, IsAt(t, i, f)', ~IsAt(t, i, f) PROVE i = n + 1
    <2>1. i \in 1..(n + 1) /\ w[i] = f
      BY <1>2, <1>4, <1>11 DEF IsAt
    <2>2. i \notin 1..n
      BY <1>2, <1>11, <2>1 DEF IsAt
    <2> QED
      BY <1>2, <2>1, <2>2
  <1> QED
    BY <1>5, <1>7, <1>8, <1>9, <1>10, <1>11

\* What a step of the relay does not do to a socket: open one that is bound,
\* or undo its registration.
SocketsGoOn ==
    /\ \A s \in Sockets : registration[s] = "accepted" => registration'[s] = "accepted"
    /\ \A s \in Sockets : registration[s] = "accepted" /\ readyState'[s] = "OPEN" => readyState[s] = "OPEN"

\* No step of the relay does.
LEMMA SocketsDoGoOn == ASSUME IInv, [Next]_vars PROVE SocketsGoOn
  <1>1. TypeOK /\ EarlySocket
    BY DEF IInv
  <1>2. ASSUME NEW s \in Sockets, SocketStep(s) PROVE SocketsGoOn
    BY <1>1, <1>2 DEF TypeOK, EarlySocket, SocketsGoOn, SocketStep, Connect, RejectRegistration,
         AcceptRegistration, PeerClose, OnClose, OnError
  <1>3. CASE UNCHANGED socketVars
    BY <1>3 DEF socketVars, SocketsGoOn
  <1>4. ASSUME NEW r \in Requests, DispatchRequest(r) \/ RelayTimeout(r) PROVE SocketsGoOn
    BY <1>3, <1>4 DEF DispatchRequest, RelayTimeout
  <1>5. ASSUME NEW s \in Sockets, NEW r \in Requests, OnResponse(s, r) PROVE SocketsGoOn
    BY <1>3, <1>5 DEF OnResponse
  <1>6. ASSUME NEW d \in Subdomains, GraceExpired(d) PROVE SocketsGoOn
    BY <1>3, <1>6 DEF GraceExpired
  <1>7. ASSUME UNCHANGED vars PROVE SocketsGoOn
    BY <1>3, <1>7 DEF vars, socketVars
  <1> QED
    BY <1>2, <1>4, <1>5, <1>6, <1>7 DEF Next

\* A step that neither subscribes nor cancels nor ends a stream.
LEMMA OtherFrames ==
    ASSUME IInv, StreamCore, SocketsGoOn, StreamsTyped',
           UNCHANGED <<callerState, errored, active, producers>>,
           \A s \in Sockets, c \in Callers : \A i :
               /\ IsAt(s, i, SubscribeFrame(c))' => IsAt(s, i, SubscribeFrame(c))
               /\ IsAt(s, i, CancelFrame(c)) => IsAt(s, i, CancelFrame(c))',
           \A s \in Sockets : Told(s)' => \/ subscribers[SubOf[s]] = s
                                          \/ registration[s] # "accepted",
           \A c \in active : subscribers[CallTarget[c]] # NoSocket
                              => subscribers'[CallTarget[c]] # NoSocket
    PROVE  StreamCore'
  <1>1. \A s \in Sockets, c \in Callers : Concerns(s, c)' => Concerns(s, c)
    BY DEF Concerns
  <1>2. ConcernsOne'
    BY <1>1 DEF StreamCore, ConcernsOne, SocketsGoOn
  <1>3. SubscribedOnce'
    BY DEF StreamCore, SubscribedOnce
  <1>4. EndedIsCancelled'
    <2> SUFFICES ASSUME NEW s \in Sockets, NEW c \in Callers, Told(s)', c \notin active \cup errored
                 PROVE  /\ c \in producers[s] => \E j : IsAt(s, j, CancelFrame(c))'
                        /\ \A i : IsAt(s, i, SubscribeFrame(c))' =>
                               \E j : IsAt(s, j, CancelFrame(c))' /\ (j \in Nat /\ i \in Nat /\ i < j)
      BY DEF EndedIsCancelled
    <2>1. CASE Concerns(s, c)
      <3>1. registration[s] = "accepted" /\ subscribers[SubOf[s]] = s
        BY <2>1 DEF StreamCore, ConcernsOne
      <3>2. Told(s)
        BY <3>1 DEF SocketsGoOn, Told
      <3> QED
        BY <3>2 DEF StreamCore, EndedIsCancelled
    <2>2. CASE ~Concerns(s, c)
      BY <2>2 DEF Concerns
    <2> QED
      BY <2>1, <2>2
  <1>5. ActiveIsOld' /\ OpenCallerIsActive'
    BY DEF StreamCore, ActiveIsOld, OpenCallerIsActive
  <1>6. ActiveIsBound'
    BY DEF StreamCore, ActiveIsBound
  <1> QED
    BY <1>2, <1>3, <1>4, <1>5, <1>6 DEF StreamCore

\* Requests and greetings are no business of the streams.
LEMMA RelayFrames ==
    ASSUME IInv, FewWait, StreamCore, [Next]_vars,
           \/ Elsewhere
           \/ \E s \in Sockets, r \in Requests : Answer(s, r)
           \/ \E r \in Requests : Dispatch(r)
           \/ \E s \in Sockets : Register(s)
    PROVE  StreamCore'
  <1>1. SocketsGoOn /\ StreamsTyped /\ TypeOK
    BY SocketsDoGoOn DEF StreamCore, IInv
  <1>2. CASE Elsewhere \/ \E s \in Sockets, r \in Requests : Answer(s, r)
    <2>1. UNCHANGED streamVars /\ subscribers' = subscribers
      BY <1>2 DEF Elsewhere, Answer, Connect, RejectRegistration, PeerClose, RelayTimeout, GraceExpired,
           OnResponse
    <2>2. StreamsTyped' /\ \A s, i, f : IsAt(s, i, f)' <=> IsAt(s, i, f)
      BY <1>1, <2>1 DEF StreamsTyped, IsAt, streamVars
    <2> QED
      BY <1>1, <2>1, <2>2, OtherFrames DEF streamVars, Told
  <1>3. ASSUME NEW r \in Requests, Dispatch(r) PROVE StreamCore'
    <2>1. UNCHANGED <<callerState, errored, active, producers>> /\ subscribers' = subscribers
      BY <1>3 DEF Dispatch, DispatchRequest
    <2>2. \/ UNCHANGED wire
          \/ Live(Target[r]) /\ Send(subscribers[Target[r]], <<Frame("request", r)>>)
      BY <1>3 DEF Dispatch
    <2>3. CASE UNCHANGED wire
      <3>1. StreamsTyped' /\ \A s, i, f : IsAt(s, i, f)' <=> IsAt(s, i, f)
        BY <1>1, <2>1, <2>3 DEF StreamsTyped, IsAt
      <3> QED
        BY <1>1, <2>1, <3>1, OtherFrames DEF Told
    <2>4. CASE Live(Target[r]) /\ Send(subscribers[Target[r]], <<Frame("request", r)>>)
      <3> DEFINE t == subscribers[Target[r]]
                 fs == <<Frame("request", r)>>
      <3>1. t \in Sockets
        BY <1>1, <2>4, RelayAssumption DEF TypeOK, Live
      <3>2. /\ fs \in Seq(StreamFrames) /\ Len(fs) = 1 /\ fs[1] = Frame("request", r)
            /\ \A c : fs[1] # SubscribeFrame(c)
        BY DEF Frame, StreamFrames, SubscribeFrame
      <3>3. Send(t, fs)
        BY <2>4
      <3> HIDE DEF t, fs
      <3>4. StreamsTyped'
        BY <1>1, <2>1, <3>1, <3>2, <3>3, Sent DEF StreamsTyped
      <3>5. \A s \in Sockets, c \in Callers : \A i :
               /\ IsAt(s, i, SubscribeFrame(c))' => IsAt(s, i, SubscribeFrame(c))
               /\ IsAt(s, i, CancelFrame(c)) => IsAt(s, i, CancelFrame(c))'
        <4>1. \A s \in Sockets : \A i, f :
                 /\ IsAt(s, i, f) => IsAt(s, i, f)'
                 /\ IsAt(s, i, f)' => IsAt(s, i, f) \/ \E k \in 1..Len(fs) : fs[k] = f
          BY <1>1, <3>1, <3>2, <3>3, Sent
        <4> QED
          BY <3>2, <4>1 DEF SubscribeFrame, CancelFrame, Frame
      <3>6. \A s \in Sockets : Told(s)' => subscribers[SubOf[s]] = s
        BY <2>1 DEF Told
      <3> QED
        BY <1>1, <2>1, <3>4, <3>5, <3>6, OtherFrames
    <2> QED
      BY <2>2, <2>3, <2>4
  <1>4. ASSUME NEW s \in Sockets, Register(s) PROVE StreamCore'
    <2>1. /\ UNCHANGED <<callerState, errored, active, producers>>
          /\ registration[s] = "verifying"
          /\ subscribers' = [subscribers EXCEPT ![SubOf[s]] = s]
      BY <1>4 DEF Register, AcceptRegistration
    <2>2. \/ UNCHANGED wire
          \/ \E replay \in SetToSeqs(QueuedOf(SubOf[s])) :
                Send(s, [i \in DOMAIN replay |-> Frame("request", replay[i])]
                          \o <<Frame("registered", s)>>)
      BY <1>4 DEF Register
    <2>3. /\ \A t \in Sockets : subscribers'[SubOf[t]] = t =>
                subscribers[SubOf[t]] = t \/ registration[t] # "accepted"
          /\ \A d \in Subdomains : subscribers[d] # NoSocket => subscribers'[d] # NoSocket
      BY <1>1, <2>1, RelayAssumption DEF TypeOK
    <2>4. /\ \A t \in Sockets : Told(t)' => subscribers[SubOf[t]] = t \/ registration[t] # "accepted"
          /\ \A c \in active : subscribers[CallTarget[c]] # NoSocket
                               => subscribers'[CallTarget[c]] # NoSocket
      BY <1>1, <2>3, StreamAssumption DEF Told, StreamsTyped
    <2>5. CASE UNCHANGED wire
      <3>1. StreamsTyped' /\ \A t, i, f : IsAt(t, i, f)' <=> IsAt(t, i, f)
        BY <1>1, <2>1, <2>5 DEF StreamsTyped, IsAt
      <3> QED
        BY <1>1, <2>1, <2>4, <3>1, OtherFrames
    <2>6. ASSUME NEW replay \in SetToSeqs(QueuedOf(SubOf[s])),
                 Send(s, [i \in DOMAIN replay |-> Frame("request", replay[i])]
                          \o <<Frame("registered", s)>>)
          PROVE  StreamCore'
      <3> DEFINE Q == QueuedOf(SubOf[s])
                 rs == [i \in DOMAIN replay |-> Frame("request", replay[i])]
                 fs == rs \o <<Frame("registered", s)>>
      <3>1. Q \subseteq Requests /\ Cardinality(Q) \in Nat
        <4>1. Q \subseteq pending \cup queued /\ Q \subseteq Requests
          BY <1>1 DEF QueuedOf, TypeOK
        <4> HIDE DEF Q
        <4> QED
          BY <4>1, FS_Subset, FS_CardinalityType DEF FewWait
      <3>2. replay \in [1..Cardinality(Q) -> Q]
        BY DEF SetToSeqs
      <3> HIDE DEF Q
      <3>3. /\ rs \in Seq(StreamFrames) /\ Len(rs) \in Nat
            /\ \A i \in 1..Len(rs) : rs[i].kind = "request"
        <4>1. rs \in [1..Cardinality(Q) -> StreamFrames] /\ \A i \in 1..Cardinality(Q) : rs[i].kind = "request"
          BY <3>1, <3>2 DEF Frame, StreamFrames
        <4> HIDE DEF rs
        <4> QED
          BY <3>1, <4>1
      <3> HIDE DEF rs
      <3>4. /\ fs \in Seq(StreamFrames)
            /\ \A i \in 1..Len(fs) : fs[i].kind \in {"request", "registered"}
        <4> DEFINE g == Frame("registered", s)
        <4>1. g \in StreamFrames /\ g.kind = "registered"
          BY DEF Frame, StreamFrames
        <4> HIDE DEF g
        <4>2. fs = rs \o <<g>>
          BY DEF g
        <4> HIDE DEF fs
        <4> QED
          BY <3>3, <4>1, <4>2
      <3>5. Send(s, fs)
        BY <2>6 DEF rs
      <3> HIDE DEF fs
      <3>6. \A i \in 1..Len(fs) : \A c : fs[i] # SubscribeFrame(c)
        BY <3>4 DEF SubscribeFrame, Frame
      <3>7. StreamsTyped'
        BY <1>1, <2>1, <3>4, <3>5, Sent DEF StreamsTyped
      <3>8. \A t \in Sockets, c \in Callers : \A i :
               /\ IsAt(t, i, SubscribeFrame(c))' => IsAt(t, i, SubscribeFrame(c))
               /\ IsAt(t, i, CancelFrame(c)) => IsAt(t, i, CancelFrame(c))'
        <4>1. \A t \in Sockets : \A i, f :
                 /\ IsAt(t, i, f) => IsAt(t, i, f)'
                 /\ IsAt(t, i, f)' => IsAt(t, i, f) \/ \E k \in 1..Len(fs) : fs[k] = f
          <5>1. /\ \A t \in Sockets \ {s} : \A i, f : IsAt(t, i, f)' <=> IsAt(t, i, f)
                /\ \A i, f : IsAt(s, i, f) => IsAt(s, i, f)'
                /\ \A i, f : IsAt(s, i, f)' => IsAt(s, i, f) \/ \E k \in 1..Len(fs) : fs[k] = f
            BY <1>1, <3>4, <3>5, Sent
          <5> QED
            BY <5>1
        <4> QED
          BY <3>6, <4>1 DEF SubscribeFrame, CancelFrame, Frame
      <3> QED
        BY <1>1, <2>1, <2>4, <3>7, <3>8, OtherFrames
    <2> QED
      BY <2>2, <2>5, <2>6
  <1> QED
    BY <1>2, <1>3, <1>4

\* A caller comes: its stream begins with a frame to the live subscriber.
LEMMA CallerComes ==
    ASSUME IInv, StreamCore, SocketsGoOn, NEW c \in Callers, CallerOpen(c)
    PROVE  StreamCore'
  <1>1. StreamsTyped /\ TypeOK /\ Isolation
    BY DEF StreamCore, IInv
  <1>r. PICK d, t, first : d = CallTarget[c] /\ t = subscribers[d] /\ first = SubscribeFrame(c)
    OBVIOUS
  <1> DEFINE fs == <<first>>
  <1>2. d \in Subdomains
    BY <1>r, StreamAssumption
  <1>3. /\ callerState[c] = "NEW" /\ UNCHANGED <<vars, errored, producers>>
        /\ \/ /\ Live(d) /\ callerState' = [callerState EXCEPT ![c] = "OPEN"]
              /\ active' = active \cup {c} /\ Send(t, fs)
           \/ /\ callerState' = [callerState EXCEPT ![c] = "CLOSING"]
              /\ UNCHANGED <<active, wire>>
    BY <1>r DEF CallerOpen, SubscribeFrame
  <1>4. UNCHANGED <<registration, subscribers, readyState>>
    BY <1>3 DEF vars
  <1>5. c \notin active /\ \A s \in Sockets : ~Concerns(s, c)
    BY <1>3 DEF StreamCore, ActiveIsOld, ConcernsOne
  <1>6. callerState' \in [Callers -> ReadyStates] /\ callerState'[c] \in {"OPEN", "CLOSING"}
        /\ \A b \in Callers \ {c} : callerState'[b] = callerState[b]
    BY <1>1, <1>3 DEF StreamsTyped, ReadyStates
  <1>7. /\ active \subseteq active' /\ active' \subseteq active \cup {c}
        /\ callerState'[c] = "OPEN" => c \in active'
        /\ c \in active' => subscribers[d] # NoSocket
    BY <1>1, <1>3, <1>5 DEF StreamsTyped, Live
  <1>8. ActiveIsOld' /\ OpenCallerIsActive'
    BY <1>6, <1>7 DEF StreamCore, ActiveIsOld, OpenCallerIsActive, StreamsTyped
  <1>9. ActiveIsBound'
    BY <1>4, <1>7, <1>r DEF StreamCore, ActiveIsBound
  <1>10. \/ /\ Live(d) /\ Send(t, fs) /\ t \in Sockets /\ c \in active'
            /\ registration[t] = "accepted" /\ SubOf[t] = d
         \/ UNCHANGED wire
    BY <1>1, <1>2, <1>3, <1>r, RelayAssumption DEF Live, TypeOK, Isolation
  <1>11. fs \in Seq(StreamFrames) /\ Len(fs) = 1 /\ \A k \in 1..Len(fs) : fs[k] = first
    BY <1>r DEF SubscribeFrame, Frame, StreamFrames
  <1>12. /\ \A b : b # c => SubscribeFrame(b) # first
         /\ \A b : CancelFrame(b) # first
    BY <1>r DEF SubscribeFrame, CancelFrame, Frame
  <1>f. \A b : SubscribeFrame(b)' = SubscribeFrame(b) /\ CancelFrame(b)' = CancelFrame(b)
    BY DEF SubscribeFrame, CancelFrame, Frame
  <1>13. \A s \in Sockets : c \notin producers[s] /\ \A i : ~IsAt(s, i, first)
    BY <1>5, <1>r DEF Concerns
  <1>14. /\ wire' \in [Sockets -> Seq(StreamFrames)]
         /\ \A s \in Sockets : \A i, f : IsAt(s, i, f) => IsAt(s, i, f)'
         /\ \A s \in Sockets : \A i, f : IsAt(s, i, f)' => IsAt(s, i, f) \/ f = first
         /\ \A s \in Sockets : \A i :
                IsAt(s, i, first)' => s = t /\ c \in active' /\ registration[t] = "accepted" /\ SubOf[t] = d
         /\ \A s \in Sockets : \A i, j : IsAt(s, i, first)' /\ IsAt(s, j, first)' => i = j
    <2>1. CASE UNCHANGED wire
      <3>1. \A s, i, f : IsAt(s, i, f)' <=> IsAt(s, i, f)
        BY <2>1 DEF IsAt
      <3> QED
        BY <1>1, <1>13, <2>1, <3>1 DEF StreamsTyped
    <2>2. CASE /\ Live(d) /\ Send(t, fs) /\ t \in Sockets /\ c \in active'
               /\ registration[t] = "accepted" /\ SubOf[t] = d
      <3> HIDE DEF fs
      <3>1. /\ wire' \in [Sockets -> Seq(StreamFrames)]
            /\ \A s \in Sockets \ {t} : \A i, f : IsAt(s, i, f)' <=> IsAt(s, i, f)
            /\ \A i, f : IsAt(t, i, f) => IsAt(t, i, f)'
            /\ \A i, f : IsAt(t, i, f)' => IsAt(t, i, f) \/ \E k \in 1..Len(fs) : fs[k] = f
            /\ \A i, j, f : IsAt(t, i, f)' /\ ~IsAt(t, i, f) /\ IsAt(t, j, f)' /\ ~IsAt(t, j, f) => i = j
        BY <1>1, <1>11, <2>2, Sent
      <3>2. \A i, f : IsAt(t, i, f)' => IsAt(t, i, f) \/ f = first
        BY <1>11, <3>1
      <3>3. \A s \in Sockets \ {t} : \A i : ~IsAt(s, i, first)'
        BY <1>13, <3>1
      <3>4. \A i, j : IsAt(t, i, first)' /\ IsAt(t, j, first)' => i = j
        BY <1>13, <2>2, <3>1
      <3>5. \A s \in Sockets : \A i, f : IsAt(s, i, f) => IsAt(s, i, f)'
        BY <3>1
      <3>6. \A s \in Sockets : \A i, f : IsAt(s, i, f)' => IsAt(s, i, f) \/ f = first
        BY <3>1, <3>2
      <3>7. \A s \in Sockets : \A i, j : IsAt(s, i, first)' /\ IsAt(s, j, first)' => i = j
        BY <3>3, <3>4
      <3> QED
        BY <2>2, <3>1, <3>3, <3>5, <3>6, <3>7
    <2> QED
      BY <1>10, <2>1, <2>2
  <1>15. /\ \A s \in Sockets, b \in Callers \ {c} : \A i :
               /\ IsAt(s, i, SubscribeFrame(b))' => IsAt(s, i, SubscribeFrame(b))
               /\ IsAt(s, i, CancelFrame(b)) => IsAt(s, i, CancelFrame(b))'
         /\ \A s \in Sockets : Concerns(s, c)' =>
                s = t /\ c \in active' /\ registration[t] = "accepted" /\ SubOf[t] = d
         /\ \A s \in Sockets, b \in Callers \ {c} : Concerns(s, b)' => Concerns(s, b)
         /\ \A s \in Sockets : \A i, j : IsAt(s, i, SubscribeFrame(c))' /\ IsAt(s, j, SubscribeFrame(c))' => i = j
    <2>1. first = SubscribeFrame(c)'
      BY <1>r, <1>f
    <2>2. \A s \in Sockets, b \in Callers \ {c} : \A i :
               /\ IsAt(s, i, SubscribeFrame(b))' => IsAt(s, i, SubscribeFrame(b))
               /\ IsAt(s, i, CancelFrame(b)) => IsAt(s, i, CancelFrame(b))'
      BY <1>12, <1>14, <1>f
    <2>3. \A s \in Sockets : Concerns(s, c)' =>
                s = t /\ c \in active' /\ registration[t] = "accepted" /\ SubOf[t] = d
      <3> SUFFICES ASSUME NEW s \in Sockets, Concerns(s, c)'
                   PROVE s = t /\ c \in active' /\ registration[t] = "accepted" /\ SubOf[t] = d
        OBVIOUS
      <3>1. c \notin producers'[s]
        BY <1>3, <1>13
      <3>2. PICK i : IsAt(s, i, first)'
        BY <2>1, <3>1 DEF Concerns
      <3> QED
        BY <1>14, <3>2
    <2>4. \A s \in Sockets, b \in Callers \ {c} : Concerns(s, b)' => Concerns(s, b)
      BY <1>3, <2>2 DEF Concerns
    <2> QED
      BY <1>14, <2>1, <2>2, <2>3, <2>4
  <1>16. StreamsTyped'
    BY <1>1, <1>3, <1>6, <1>7, <1>14 DEF StreamsTyped
  <1>17. ConcernsOne'
    <2> SUFFICES ASSUME NEW s \in Sockets, NEW b \in Callers, Concerns(s, b)'
                 PROVE  /\ registration[s] = "accepted" /\ SubOf[s] = CallTarget[b]
                        /\ callerState'[b] # "NEW"
                        /\ \A u \in Sockets : Concerns(u, b)' => u = s
      BY <1>4 DEF ConcernsOne
    <2>1. CASE b = c
      BY <1>6, <1>15, <1>r, <2>1
    <2>2. CASE b # c
      BY <1>6, <1>15, <2>2 DEF StreamCore, ConcernsOne
    <2> QED
      BY <2>1, <2>2
  <1>18. SubscribedOnce'
    <2> SUFFICES ASSUME NEW s \in Sockets, NEW b \in Callers
                 PROVE  /\ \A i, j : IsAt(s, i, SubscribeFrame(b))' /\ IsAt(s, j, SubscribeFrame(b))' => i = j
                        /\ b \in producers'[s] => \A i : ~IsAt(s, i, SubscribeFrame(b))'
      BY DEF SubscribedOnce
    <2>1. CASE b = c
      BY <1>3, <1>13, <1>15, <2>1
    <2>2. CASE b # c
      BY <1>3, <1>15, <2>2 DEF StreamCore, SubscribedOnce
    <2> QED
      BY <2>1, <2>2
  <1>19. EndedIsCancelled'
    <2> SUFFICES ASSUME NEW s \in Sockets, NEW b \in Callers, Told(s)', b \notin active' \cup errored
                 PROVE  /\ b \in producers[s] => \E j : IsAt(s, j, CancelFrame(b))'
                        /\ \A i : IsAt(s, i, SubscribeFrame(b))' =>
                               \E j : IsAt(s, j, CancelFrame(b))' /\ (j \in Nat /\ i \in Nat /\ i < j)
      BY <1>3 DEF EndedIsCancelled
    <2>1. Told(s) /\ b \notin active \cup errored
      BY <1>4, <1>7 DEF Told
    <2>2. CASE b = c
      BY <1>13, <1>15, <2>2 DEF Concerns
    <2>3. CASE b # c
      BY <1>15, <2>1, <2>3 DEF StreamCore, EndedIsCancelled
    <2> QED
      BY <2>2, <2>3
  <1> QED
    BY <1>8, <1>9, <1>16, <1>17, <1>18, <1>19 DEF StreamCore

\* A step that ends streams, of callers or of a whole subdomain, and sends
\* nothing: a stream that is over has no producer that could still be told.
LEMMA StreamsEnd ==
    ASSUME IInv, StreamCore, SocketsGoOn, StreamsTyped', UNCHANGED wire,
           \A s \in Sockets : producers'[s] \subseteq producers[s],
           \A b \in Callers : callerState[b] # "NEW" => callerState'[b] # "NEW",
           active' \subseteq active, errored \subseteq errored',
           \A b \in Callers : callerState'[b] = "OPEN" => b \in active',
           \A s \in Sockets : Told(s)' => Told(s),
           \A b \in active' : subscribers'[CallTarget[b]] # NoSocket,
           \A s \in Sockets, b \in active \ active' :
               Concerns(s, b)' /\ Told(s)' => b \in errored'
    PROVE  StreamCore'
  <1>1. \A s, i, f : IsAt(s, i, f)' <=> IsAt(s, i, f)
    BY DEF IsAt
  <1>2. \A b : SubscribeFrame(b)' = SubscribeFrame(b) /\ CancelFrame(b)' = CancelFrame(b)
    BY DEF SubscribeFrame, CancelFrame, Frame
  <1>3. \A s \in Sockets : \A b : Concerns(s, b)' => Concerns(s, b)
    BY <1>1, <1>2 DEF Concerns
  <1>4. ConcernsOne'
    BY <1>3 DEF StreamCore, ConcernsOne, SocketsGoOn
  <1>5. SubscribedOnce'
    BY <1>1, <1>2 DEF StreamCore, SubscribedOnce
  <1>6. EndedIsCancelled'
    <2> SUFFICES ASSUME NEW s \in Sockets, NEW b \in Callers, Told(s)', b \notin active' \cup errored'
                 PROVE  /\ b \in producers'[s] => \E j : IsAt(s, j, CancelFrame(b))'
                        /\ \A i : IsAt(s, i, SubscribeFrame(b))' =>
                               \E j : IsAt(s, j, CancelFrame(b))' /\ (j \in Nat /\ i \in Nat /\ i < j)
      BY DEF EndedIsCancelled
    <2>1. CASE Concerns(s, b)'
      <3>1. Told(s) /\ b \notin active \cup errored
        BY <2>1
      <3> QED
        BY <1>1, <1>2, <3>1 DEF StreamCore, EndedIsCancelled
    <2>2. CASE ~Concerns(s, b)'
      BY <2>2 DEF Concerns
    <2> QED
      BY <2>1, <2>2
  <1>7. ActiveIsOld' /\ OpenCallerIsActive' /\ ActiveIsBound'
    BY DEF StreamCore, StreamsTyped, ActiveIsOld, OpenCallerIsActive, ActiveIsBound
  <1> QED
    BY <1>4, <1>5, <1>6, <1>7 DEF StreamCore

\* A subscriber goes: the streams of its subdomain end with nobody to tell.
LEMMA DisconnectEnds ==
    ASSUME IInv, StreamCore, SocketsGoOn, NEW s \in Sockets, Disconnect(s)
    PROVE  StreamCore'
  <1> DEFINE d == SubOf[s]
  <1>1. StreamsTyped /\ TypeOK /\ d \in Subdomains
    BY RelayAssumption DEF StreamCore, IInv
  <1>2. /\ subscribers' = [subscribers EXCEPT ![d] = NoSocket]
        /\ \E to \in {"CLOSED", "CLOSING"} : readyState' = [readyState EXCEPT ![s] = to]
        /\ active' = active \ StreamsOf(d)
        /\ callerState' = [c \in Callers |->
              IF c \in StreamsOf(d) /\ callerState[c] = "OPEN" THEN "CLOSING" ELSE callerState[c]]
        /\ UNCHANGED <<errored, wire, producers>>
    BY DEF Disconnect, OnClose, OnError, Unregister, RejectSubscriberSubscriptions
  <1>3. StreamsTyped'
    BY <1>1, <1>2 DEF StreamsTyped, ReadyStates
  <1>4. /\ \A b \in Callers : callerState[b] # "NEW" => callerState'[b] # "NEW"
        /\ \A b \in Callers : callerState'[b] = "OPEN" => b \in active'
    BY <1>1, <1>2 DEF StreamCore, OpenCallerIsActive
  <1>5. \A t \in Sockets : Told(t)' => Told(t) /\ SubOf[t] # d
    BY <1>1, <1>2, RelayAssumption DEF TypeOK, Told
  <1>6. \A b \in active' : subscribers'[CallTarget[b]] # NoSocket
    BY <1>1, <1>2 DEF StreamCore, ActiveIsBound, StreamsOf, TypeOK
  <1>7. \A t \in Sockets, b \in active \ active' : Concerns(t, b)' => SubOf[t] = d
    <2>1. \A t \in Sockets, b \in active \ active' : Concerns(t, b) => SubOf[t] = d
      BY <1>1, <1>2 DEF StreamCore, ConcernsOne, StreamsOf, StreamsTyped
    <2>2. \A t \in Sockets, b \in Callers : Concerns(t, b)' => Concerns(t, b)
      BY <1>2 DEF Concerns, IsAt, SubscribeFrame, Frame
    <2> QED
      BY <1>1, <2>1, <2>2 DEF StreamsTyped
  <1> QED
    BY <1>2, <1>3, <1>4, <1>5, <1>6, <1>7, StreamsEnd

\* A caller leaves, or its socket fails, or the subscriber ends the stream.
LEMMA CallerEnds ==
    ASSUME IInv, StreamCore, SocketsGoOn, NEW c \in Callers,
           CallerLeaves(c) \/ CallerOnError(c) \/ \E s \in Sockets : SubscriptionClose(s, c)
    PROVE  StreamCore'
  <1>1. StreamsTyped /\ TypeOK
    BY DEF StreamCore, IInv
  <1>2. UNCHANGED <<vars, wire>>
    BY DEF CallerLeaves, CallerOnError, SubscriptionClose
  <1>3. /\ active' = active \/ active' = active \ {c}
        /\ errored \subseteq errored'
        /\ \A s \in Sockets : producers'[s] \subseteq producers[s]
        /\ \/ callerState' = callerState
           \/ callerState' = [callerState EXCEPT ![c] = "CLOSING"] /\ callerState[c] = "OPEN"
        /\ callerState'[c] # "OPEN"
    <2>1. CASE CallerLeaves(c) \/ CallerOnError(c)
      BY <1>1, <2>1 DEF CallerLeaves, CallerOnError, StreamsTyped
    <2>2. ASSUME NEW t \in Sockets, SubscriptionClose(t, c)
          PROVE  /\ active' = active \ {c} /\ errored' = errored
                 /\ \A s \in Sockets : producers'[s] \subseteq producers[s]
                 /\ \/ callerState' = callerState
                    \/ callerState' = [callerState EXCEPT ![c] = "CLOSING"] /\ callerState[c] = "OPEN"
                 /\ callerState'[c] # "OPEN"
      <3>1. active' = active \ {c} /\ errored' = errored /\ DOMAIN producers = Sockets
        BY <1>1, <2>2 DEF SubscriptionClose, StreamsTyped
      <3>2. \A s \in Sockets : producers'[s] \subseteq producers[s]
        BY <2>2, <3>1 DEF SubscriptionClose
      <3>3. callerState[c] = "OPEN" => c \in active
        BY DEF StreamCore, OpenCallerIsActive
      <3>4. callerState' = [callerState EXCEPT ![c] = IF callerState[c] = "OPEN" THEN "CLOSING" ELSE callerState[c]]
        BY <2>2, <3>3 DEF SubscriptionClose
      <3>5. callerState = [b \in Callers |-> callerState[b]]
        BY <1>1 DEF StreamsTyped
      <3>6. CASE callerState[c] = "OPEN"
        BY <1>1, <3>1, <3>2, <3>4, <3>6 DEF StreamsTyped
      <3>7. CASE callerState[c] # "OPEN"
        <4>1. callerState' = [callerState EXCEPT ![c] = callerState[c]]
          BY <3>4, <3>7
        <4>2. callerState' = [b \in Callers |-> callerState[b]]
          BY <1>1, <4>1 DEF StreamsTyped
        <4>3. callerState' = callerState
          BY <3>5, <4>2
        <4>4. callerState'[c] # "OPEN"
          BY <3>7, <4>3
        <4> QED
          BY <3>1, <3>2, <4>3, <4>4
      <3> QED
        BY <3>6, <3>7
    <2> QED
      BY <2>1, <2>2
  <1>4. StreamsTyped'
    <2>1. \A s \in Sockets : producers'[s] \subseteq Callers
      BY <1>1, <1>3 DEF StreamsTyped
    <2>2. DOMAIN producers' = Sockets /\ producers' = [s \in Sockets |-> producers'[s]]
      BY <1>1 DEF StreamsTyped, CallerLeaves, CallerOnError, SubscriptionClose
    <2>3. producers' \in [Sockets -> SUBSET Callers]
      BY <2>1, <2>2
    <2>4. callerState' \in [Callers -> ReadyStates]
      BY <1>1, <1>3 DEF StreamsTyped, ReadyStates
    <2> QED
      BY <1>1, <1>2, <1>3, <2>3, <2>4 DEF StreamsTyped
  <1>5. /\ \A b \in Callers : callerState[b] # "NEW" => callerState'[b] # "NEW"
        /\ \A b \in Callers : callerState'[b] = "OPEN" => b \in active'
    BY <1>1, <1>3 DEF StreamCore, OpenCallerIsActive, StreamsTyped
  <1>6. /\ \A s \in Sockets : Told(s)' => Told(s)
        /\ \A b \in active' : subscribers'[CallTarget[b]] # NoSocket
    BY <1>2, <1>3 DEF vars, Told, StreamCore, ActiveIsBound
  <1>7. \A s \in Sockets, b \in active \ active' : Concerns(s, b)' => b \in errored'
    <2> SUFFICES ASSUME NEW s \in Sockets, c \in active \ active', Concerns(s, c)'
                 PROVE  c \in errored'
      BY <1>3
    <2>1. CASE CallerLeaves(c)
      BY <2>1 DEF CallerLeaves
    <2>2. CASE CallerOnError(c)
      BY <2>2 DEF CallerOnError
    <2>3. ASSUME NEW t \in Sockets, SubscriptionClose(t, c) PROVE FALSE
      <3>1. c \in producers[t] /\ producers' = [producers EXCEPT ![t] = @ \ {c}]
        BY <2>3 DEF SubscriptionClose
      <3>2. \A i : ~IsAt(t, i, SubscribeFrame(c))
        BY <3>1 DEF StreamCore, SubscribedOnce
      <3>3. Concerns(t, c) /\ Concerns(s, c)
        BY <1>2, <1>3, <3>1 DEF Concerns, IsAt, SubscribeFrame, Frame
      <3>4. s = t
        BY <3>3 DEF StreamCore, ConcernsOne
      <3>5. c \notin producers'[t]
        BY <1>1, <3>1 DEF StreamsTyped
      <3> QED
        BY <1>2, <3>2, <3>4, <3>5 DEF Concerns, IsAt, SubscribeFrame, Frame
    <2> QED
      BY <2>1, <2>2, <2>3
  <1> QED
    BY <1>2, <1>3, <1>4, <1>5, <1>6, <1>7, StreamsEnd

\* A caller closed: the live subscriber of its subdomain, if any, is told.
LEMMA CallerCloses ==
    ASSUME IInv, StreamCore, SocketsGoOn, NEW c \in Callers, CallerOnClose(c)
    PROVE  StreamCore'
  <1>1. StreamsTyped /\ TypeOK
    BY DEF StreamCore, IInv
  <1>r. PICK d, t, last : d = CallTarget[c] /\ t = subscribers[d] /\ last = CancelFrame(c)
    OBVIOUS
  <1> DEFINE fs == <<last>>
  <1>2. /\ callerState[c] \in {"OPEN", "CLOSING"}
        /\ callerState' = [callerState EXCEPT ![c] = "CLOSED"]
        /\ active' = active \ {c}
        /\ UNCHANGED <<vars, errored, producers>>
        /\ IF c \in active /\ Live(d) THEN Send(t, fs) ELSE UNCHANGED wire
    BY <1>r DEF CallerOnClose, CancelFrame
  <1>3. UNCHANGED <<registration, subscribers, readyState>>
    BY <1>2 DEF vars
  <1>4. /\ callerState' \in [Callers -> ReadyStates] /\ callerState'[c] = "CLOSED"
        /\ \A b \in Callers \ {c} : callerState'[b] = callerState[b]
    BY <1>1, <1>2 DEF StreamsTyped, ReadyStates
  <1>5. /\ \A b \in Callers : callerState[b] # "NEW" => callerState'[b] # "NEW"
        /\ \A b \in Callers : callerState'[b] = "OPEN" => b \in active'
    BY <1>2, <1>4 DEF StreamCore, OpenCallerIsActive
  <1>6. /\ \A s \in Sockets : Told(s)' <=> Told(s)
        /\ \A b \in active' : subscribers'[CallTarget[b]] # NoSocket
    BY <1>2, <1>3 DEF Told, StreamCore, ActiveIsBound
  <1>7. \A s \in Sockets : Concerns(s, c) /\ Told(s) => Live(d) /\ s = t
    <2>1. \A s \in Sockets : Concerns(s, c) => SubOf[s] = d
      BY <1>r DEF StreamCore, ConcernsOne
    <2> QED
      BY <1>r, <2>1, RelayAssumption DEF Told, Live
  <1>8. CASE ~(c \in active /\ Live(d))
    <2>1. wire' = wire
      BY <1>2, <1>8
    <2>2. StreamsTyped'
      BY <1>1, <1>2, <1>4, <2>1 DEF StreamsTyped
    <2>3. \A s \in Sockets, b \in active \ active' : ~(Concerns(s, b)' /\ Told(s)')
      <3>1. \A s \in Sockets, b \in Callers : Concerns(s, b)' => Concerns(s, b)
        BY <1>2, <2>1 DEF Concerns, IsAt, SubscribeFrame, Frame
      <3> QED
        BY <1>2, <1>6, <1>7, <1>8, <3>1
    <2> QED
      BY <1>2, <1>5, <1>6, <2>1, <2>2, <2>3, StreamsEnd
  <1>9. CASE c \in active /\ Live(d)
    <2>1. Send(t, fs) /\ t \in Sockets
      BY <1>1, <1>2, <1>9, <1>r, RelayAssumption, StreamAssumption DEF Live, TypeOK
    <2>2. fs \in Seq(StreamFrames) /\ Len(fs) = 1 /\ \A k \in 1..Len(fs) : fs[k] = last
      BY <1>r DEF CancelFrame, Frame, StreamFrames
    <2> HIDE DEF fs
    <2>3. /\ wire' \in [Sockets -> Seq(StreamFrames)]
          /\ \A s \in Sockets \ {t} : \A i, f : IsAt(s, i, f)' <=> IsAt(s, i, f)
          /\ \A i, f : IsAt(t, i, f) => IsAt(t, i, f)'
          /\ \A i, f : IsAt(t, i, f)' => IsAt(t, i, f) \/ \E k \in 1..Len(fs) : fs[k] = f
          /\ \A k \in 1..Len(fs) : \E i \in Nat :
                  IsAt(t, i, fs[k])' /\ \A j, f : IsAt(t, j, f) => j \in Nat /\ j < i
      BY <1>1, <2>1, <2>2, Sent
    <2>4. \E i \in Nat : IsAt(t, i, last)' /\ \A j, f : IsAt(t, j, f) => j \in Nat /\ j < i
      BY <2>2, <2>3
    <2>5. /\ \A s \in Sockets : \A i, f : IsAt(s, i, f) => IsAt(s, i, f)'
          /\ \A s \in Sockets : \A i, f : IsAt(s, i, f)' /\ f # last => IsAt(s, i, f)
      BY <2>2, <2>3
    <2>6. \A b : /\ SubscribeFrame(b)' = SubscribeFrame(b) /\ CancelFrame(b)' = CancelFrame(b)
                 /\ SubscribeFrame(b) # last
      BY <1>r DEF SubscribeFrame, CancelFrame, Frame
    <2>7. \A s \in Sockets : \A b, i :
              /\ IsAt(s, i, SubscribeFrame(b))' => IsAt(s, i, SubscribeFrame(b))
              /\ IsAt(s, i, CancelFrame(b)) => IsAt(s, i, CancelFrame(b))'
      BY <2>5, <2>6
    <2>8. \A s \in Sockets : \A b : Concerns(s, b)' => Concerns(s, b)
      BY <1>2, <2>7 DEF Concerns
    <2>9. StreamsTyped'
      BY <1>1, <1>2, <1>4, <2>3 DEF StreamsTyped
    <2>10. ConcernsOne'
      BY <1>3, <1>5, <2>8 DEF StreamCore, ConcernsOne
    <2>11. SubscribedOnce'
      BY <1>2, <2>7 DEF StreamCore, SubscribedOnce
    <2>12. EndedIsCancelled'
      <3> SUFFICES ASSUME NEW s \in Sockets, NEW b \in Callers, Told(s)', b \notin active' \cup errored
                   PROVE  /\ b \in producers[s] => \E j : IsAt(s, j, CancelFrame(b))'
                          /\ \A i : IsAt(s, i, SubscribeFrame(b))' =>
                                 \E j : IsAt(s, j, CancelFrame(b))' /\ (j \in Nat /\ i \in Nat /\ i < j)
        BY <1>2 DEF EndedIsCancelled
      <3>1. Told(s)
        BY <1>6
      <3>2. CASE b # c
        BY <1>2, <2>7, <3>1, <3>2 DEF StreamCore, EndedIsCancelled
      <3>3. CASE b = c /\ Concerns(s, c)
        <4>1. s = t
          BY <1>7, <3>1, <3>3
        <4>2. last = CancelFrame(c)'
          BY <1>r, <2>6
        <4> QED
          BY <2>4, <2>7, <3>3, <4>1, <4>2
      <3>4. CASE b = c /\ ~Concerns(s, c)
        BY <2>7, <3>4 DEF Concerns
      <3> QED
        BY <3>2, <3>3, <3>4
    <2>13. ActiveIsOld' /\ OpenCallerIsActive' /\ ActiveIsBound'
      BY <1>1, <1>2, <1>5, <1>6 DEF StreamCore, StreamsTyped, ActiveIsOld, OpenCallerIsActive, ActiveIsBound
    <2> QED
      BY <2>9, <2>10, <2>11, <2>12, <2>13 DEF StreamCore
  <1> QED
    BY <1>8, <1>9

\* The subscriber takes the first frame off the wire.
LEMMA Received ==
    ASSUME StreamsTyped, NEW t \in Sockets, wire[t] # <<>>,
           wire' = [wire EXCEPT ![t] = Tail(@)]
    PROVE  /\ wire' \in [Sockets -> Seq(StreamFrames)]
           /\ \A s \in Sockets \ {t} : \A i, f : IsAt(s, i, f)' <=> IsAt(s, i, f)
           /\ \A i, f : IsAt(t, i, f)' => i \in Nat /\ i + 1 \in Nat /\ IsAt(t, i + 1, f)
           /\ \A i, f : IsAt(t, i, f) /\ i # 1 => i \in Nat /\ i - 1 \in Nat /\ IsAt(t, i - 1, f)'
           /\ IsAt(t, 1, Head(wire[t]))
           /\ Head(wire[t]) \in StreamFrames
  <1>1. wire[t] \in Seq(StreamFrames) /\ DOMAIN wire = Sockets
    BY DEF StreamsTyped
  <1>r. PICK w, n : w = Tail(wire[t]) /\ n = Len(wire[t])
    OBVIOUS
  <1>2. /\ w \in Seq(StreamFrames) /\ n \in Nat \ {0} /\ Len(w) = n - 1
        /\ \A i \in 1..(n - 1) : w[i] = wire[t][i + 1]
        /\ Head(wire[t]) = wire[t][1] /\ Head(wire[t]) \in StreamFrames
    BY <1>1, <1>r
  <1>3. wire' = [wire EXCEPT ![t] = w]
    BY <1>r
  <1>4. wire'[t] = w /\ \A s \in Sockets \ {t} : wire'[s] = wire[s]
    BY <1>1, <1>3
  <1>5. wire' \in [Sockets -> Seq(StreamFrames)]
    BY <1>2, <1>3 DEF StreamsTyped
  <1>6. \A s \in Sockets \ {t} : \A i, f : IsAt(s, i, f)' <=> IsAt(s, i, f)
    BY <1>4 DEF IsAt
  <1>7. ASSUME NEW i, NEW f, IsAt(t, i, f)' PROVE i \in Nat /\ i + 1 \in Nat /\ IsAt(t, i + 1, f)
    <2>1. i \in 1..(n - 1) /\ w[i] = f
      BY <1>2, <1>4, <1>7 DEF IsAt
    <2> QED
      BY <1>2, <1>r, <2>1 DEF IsAt
  <1>8. ASSUME NEW i, NEW f, IsAt(t, i, f), i # 1 PROVE i \in Nat /\ i - 1 \in Nat /\ IsAt(t, i - 1, f)'
    <2>1. i \in 1..n /\ wire[t][i] = f
      BY <1>8, <1>r DEF IsAt
    <2>2. PICK j : j = i - 1
      OBVIOUS
    <2>3. i \in Nat /\ j \in Nat /\ j \in 1..(n - 1) /\ i = j + 1
      BY <1>2, <1>8, <2>1, <2>2
    <2>4. w[j] = f
      BY <1>2, <2>1, <2>3
    <2>5. IsAt(t, j, f)'
      BY <1>2, <1>4, <2>3, <2>4 DEF IsAt
    <2> QED
      BY <2>2, <2>3, <2>5
  <1>9. IsAt(t, 1, Head(wire[t]))
    BY <1>2, <1>r DEF IsAt
  <1> QED
    BY <1>2, <1>5, <1>6, <1>7, <1>8, <1>9

\* A frame received: a subscribe frame may start its producer, a cancel frame
\* stops it, and the frames behind move up.
LEMMA FrameReceived ==
    ASSUME IInv, StreamCore, SocketsGoOn, NEW t \in Sockets, ReceiveFrame(t)
    PROVE  StreamCore'
  <1>1. StreamsTyped
    BY DEF StreamCore
  <1>r. PICK h : h = Head(wire[t])
    OBVIOUS
  <1>2. /\ wire[t] # <<>> /\ wire' = [wire EXCEPT ![t] = Tail(@)]
        /\ UNCHANGED <<vars, callerState, errored, active>>
    BY DEF ReceiveFrame
  <1>3. UNCHANGED <<registration, subscribers, readyState>>
    BY <1>2 DEF vars
  <1>4. /\ wire' \in [Sockets -> Seq(StreamFrames)]
        /\ \A s \in Sockets \ {t} : \A i, f : IsAt(s, i, f)' <=> IsAt(s, i, f)
        /\ \A i, f : IsAt(t, i, f)' => i \in Nat /\ i + 1 \in Nat /\ IsAt(t, i + 1, f)
        /\ \A i, f : IsAt(t, i, f) /\ i # 1 => i \in Nat /\ i - 1 \in Nat /\ IsAt(t, i - 1, f)'
        /\ IsAt(t, 1, h) /\ h \in StreamFrames
    BY <1>1, <1>2, <1>r, Received
  <1>5. \/ producers' = producers
        \/ h.kind = "subscribe" /\ producers' = [producers EXCEPT ![t] = @ \cup {h.id}]
        \/ h.kind = "subscriptionCancel" /\ producers' = [producers EXCEPT ![t] = @ \ {h.id}]
    BY <1>1, <1>r DEF ReceiveFrame, StreamsTyped
  <1>6. /\ h.kind = "subscribe" => h.id \in Callers /\ h = SubscribeFrame(h.id)
        /\ h.kind = "subscriptionCancel" => h.id \in Callers /\ h = CancelFrame(h.id)
        /\ \A b : /\ h = SubscribeFrame(b) => h.kind = "subscribe" /\ h.id = b
                  /\ h = CancelFrame(b) => h.kind = "subscriptionCancel" /\ h.id = b
    BY <1>4 DEF StreamFrames, SubscribeFrame, CancelFrame, Frame
  <1>7. \A b : SubscribeFrame(b)' = SubscribeFrame(b) /\ CancelFrame(b)' = CancelFrame(b)
    BY DEF SubscribeFrame, CancelFrame, Frame
  <1>8. /\ \A s \in Sockets \ {t} : producers'[s] = producers[s]
        /\ \A b \in Callers : b \in producers'[t] => b \in producers[t] \/ h = SubscribeFrame(b)
        /\ \A b \in Callers : h = CancelFrame(b) /\ b \in producers'[t] => h = SubscribeFrame(b) \/ producers' = producers
        /\ producers' \in [Sockets -> SUBSET Callers]
    BY <1>1, <1>5, <1>6 DEF StreamsTyped
  <1>9. StreamsTyped'
    BY <1>1, <1>2, <1>4, <1>8 DEF StreamsTyped
  <1>10. \A b \in Callers : h = CancelFrame(b) => b \notin producers'[t]
    <2> SUFFICES ASSUME NEW b \in Callers, h = CancelFrame(b) PROVE b \notin producers'[t]
      OBVIOUS
    <2>1. h.kind = "subscriptionCancel" /\ h.id = b
      BY <1>6
    <2>2. producers' = [producers EXCEPT ![t] = @ \ {b}]
      BY <2>1, <1>r DEF ReceiveFrame
    <2> QED
      BY <1>1, <2>2 DEF StreamsTyped
  <1>11. \A s \in Sockets, b \in Callers : Concerns(s, b)' => Concerns(s, b)
    <2> SUFFICES ASSUME NEW s \in Sockets, NEW b \in Callers, Concerns(s, b)'
                 PROVE  Concerns(s, b)
      OBVIOUS
    <2>1. CASE s # t
      BY <1>4, <1>7, <1>8, <2>1 DEF Concerns
    <2>2. CASE s = t /\ b \in producers'[t]
      BY <1>4, <1>8, <2>2 DEF Concerns
    <2>3. CASE s = t /\ \E i : IsAt(t, i, SubscribeFrame(b))'
      <3>1. PICK f : f = SubscribeFrame(b)
        OBVIOUS
      <3>2. \E i : IsAt(t, i, f)'
        BY <1>7, <2>3, <3>1
      <3>3. \E i : IsAt(t, i, f)
        BY <1>4, <3>2
      <3> QED
        BY <2>3, <3>1, <3>3 DEF Concerns
    <2> QED
      BY <2>1, <2>2, <2>3 DEF Concerns
  <1>12. ConcernsOne'
    BY <1>2, <1>3, <1>11 DEF StreamCore, ConcernsOne
  <1>13. SubscribedOnce'
    <2> SUFFICES ASSUME NEW s \in Sockets, NEW b \in Callers
                 PROVE  /\ \A i, j : IsAt(s, i, SubscribeFrame(b))' /\ IsAt(s, j, SubscribeFrame(b))' => i = j
                        /\ b \in producers'[s] => \A i : ~IsAt(s, i, SubscribeFrame(b))'
      BY DEF SubscribedOnce
    <2>r. PICK f : f = SubscribeFrame(b)
      OBVIOUS
    <2>f. f = SubscribeFrame(b)'
      BY <1>7, <2>r
    <2>1. /\ \A i, j : IsAt(s, i, f) /\ IsAt(s, j, f) => i = j
          /\ b \in producers[s] => \A i : ~IsAt(s, i, f)
      BY <2>r DEF StreamCore, SubscribedOnce
    <2>2. CASE s # t
      BY <1>4, <1>8, <2>1, <2>2, <2>f
    <2>3. CASE s = t
      <3>1. \A i, j : IsAt(t, i, f)' /\ IsAt(t, j, f)' => i = j
        <4> SUFFICES ASSUME NEW i, NEW j, IsAt(t, i, f)', IsAt(t, j, f)' PROVE i = j
          OBVIOUS
        <4>1. i \in Nat /\ j \in Nat /\ IsAt(t, i + 1, f) /\ IsAt(t, j + 1, f)
          BY <1>4
        <4>2. i + 1 = j + 1
          BY <2>1, <2>3, <4>1
        <4> QED
          BY <4>1, <4>2
      <3>2. ASSUME b \in producers'[t], NEW i, IsAt(t, i, f)' PROVE FALSE
        <4>1. i \in Nat /\ IsAt(t, i + 1, f)
          BY <1>4, <3>2
        <4>2. b \notin producers[t]
          BY <2>1, <2>3, <4>1
        <4>3. IsAt(t, 1, f)
          BY <1>4, <1>8, <2>r, <3>2, <4>2
        <4>4. i + 1 = 1
          BY <2>1, <2>3, <4>1, <4>3
        <4>5. i \in 1..Len(wire'[t])
          BY <3>2 DEF IsAt
        <4> QED
          BY <4>1, <4>4, <4>5
      <3> QED
        BY <2>3, <2>f, <3>1, <3>2
    <2> QED
      BY <2>2, <2>3
  <1>14. EndedIsCancelled'
    <2> SUFFICES ASSUME NEW s \in Sockets, NEW b \in Callers, Told(s)', b \notin active \cup errored
                 PROVE  /\ b \in producers'[s] => \E j : IsAt(s, j, CancelFrame(b))'
                        /\ \A i : IsAt(s, i, SubscribeFrame(b))' =>
                               \E j : IsAt(s, j, CancelFrame(b))' /\ (j \in Nat /\ i \in Nat /\ i < j)
      BY <1>2 DEF EndedIsCancelled
    <2>r. PICK f, g : f = SubscribeFrame(b) /\ g = CancelFrame(b)
      OBVIOUS
    <2>f. f = SubscribeFrame(b)' /\ g = CancelFrame(b)'
      BY <1>7, <2>r
    <2>t. Told(s)
      BY <1>3 DEF Told
    <2>1. /\ b \in producers[s] => \E j : IsAt(s, j, g)
          /\ \A i : IsAt(s, i, f) => \E j : IsAt(s, j, g) /\ (j \in Nat /\ i \in Nat /\ i < j)
      BY <2>r, <2>t DEF StreamCore, EndedIsCancelled
    <2>2. CASE s # t
      BY <1>4, <1>8, <2>1, <2>2, <2>f
    <2>3. CASE s = t
      <3>1. ASSUME b \in producers'[t] PROVE \E j : IsAt(t, j, g)'
        <4>1. h # g
          BY <1>10, <2>r, <3>1
        <4>2. PICK j : IsAt(t, j, g)
          <5>1. CASE b \in producers[t]
            BY <2>1, <2>3, <5>1
          <5>2. CASE b \notin producers[t]
            <6>1. IsAt(t, 1, f)
              BY <1>4, <1>8, <2>r, <3>1, <5>2
            <6> QED
              BY <2>1, <2>3, <6>1
          <5> QED
            BY <5>1, <5>2
        <4>3. j # 1
          BY <1>4, <4>1, <4>2 DEF IsAt
        <4> QED
          BY <1>4, <4>2, <4>3
      <3>2. ASSUME NEW i, IsAt(t, i, f)'
            PROVE  \E j : IsAt(t, j, g)' /\ (j \in Nat /\ i \in Nat /\ i < j)
        <4>1. i \in Nat /\ IsAt(t, i + 1, f)
          BY <1>4, <3>2
        <4>2. PICK j : IsAt(t, j, g) /\ j \in Nat /\ i + 1 < j
          BY <2>1, <2>3, <4>1
        <4>3. j # 1 /\ i < j - 1
          BY <4>1, <4>2
        <4>4. IsAt(t, j - 1, g)' /\ j - 1 \in Nat
          BY <1>4, <4>2, <4>3
        <4> QED
          BY <4>1, <4>3, <4>4
      <3> QED
        BY <2>3, <2>f, <3>1, <3>2
    <2> QED
      BY <2>2, <2>3
  <1>15. ActiveIsOld' /\ OpenCallerIsActive' /\ ActiveIsBound'
    BY <1>2, <1>3 DEF StreamCore, ActiveIsOld, OpenCallerIsActive, ActiveIsBound
  <1> QED
    BY <1>9, <1>12, <1>13, <1>14, <1>15 DEF StreamCore

\* The subscriber's socket closed: its producers and its wire are gone.
LEMMA CloseIsSeen ==
    ASSUME IInv, StreamCore, NEW t \in Sockets, SubscriberSeesClose(t)
    PROVE  StreamCore'
  <1>1. StreamsTyped
    BY DEF StreamCore
  <1>2. /\ wire' = [wire EXCEPT ![t] = <<>>] /\ producers' = [producers EXCEPT ![t] = {}]
        /\ UNCHANGED <<vars, callerState, errored, active>>
        /\ readyState[t] # "OPEN"
    BY DEF SubscriberSeesClose
  <1>3. UNCHANGED <<registration, subscribers, readyState>>
    BY <1>2 DEF vars
  <1>4. StreamsTyped'
    BY <1>1, <1>2 DEF StreamsTyped
  <1>5. /\ wire'[t] = <<>> /\ producers'[t] = {}
        /\ \A s \in Sockets \ {t} : wire'[s] = wire[s] /\ producers'[s] = producers[s]
    BY <1>1, <1>2 DEF StreamsTyped
  <1>6. /\ \A i, f : ~IsAt(t, i, f)'
        /\ \A s \in Sockets \ {t} : \A i, f : IsAt(s, i, f)' <=> IsAt(s, i, f)
    BY <1>5 DEF IsAt
  <1>7. \A b : SubscribeFrame(b)' = SubscribeFrame(b) /\ CancelFrame(b)' = CancelFrame(b)
    BY DEF SubscribeFrame, CancelFrame, Frame
  <1>8. /\ \A b : ~Concerns(t, b)'
        /\ \A s \in Sockets \ {t}, b \in Callers : Concerns(s, b)' <=> Concerns(s, b)
    BY <1>5, <1>6, <1>7 DEF Concerns
  <1>9. ConcernsOne'
    BY <1>2, <1>3, <1>8 DEF StreamCore, ConcernsOne
  <1>10. SubscribedOnce'
    BY <1>5, <1>6, <1>7 DEF StreamCore, SubscribedOnce
  <1>11. ~Told(t)' /\ \A s \in Sockets : Told(s)' <=> Told(s)
    BY <1>2, <1>3 DEF Told
  <1>12. EndedIsCancelled'
    BY <1>2, <1>5, <1>6, <1>7, <1>11 DEF StreamCore, EndedIsCancelled
  <1>13. ActiveIsOld' /\ OpenCallerIsActive' /\ ActiveIsBound'
    BY <1>2, <1>3 DEF StreamCore, ActiveIsOld, OpenCallerIsActive, ActiveIsBound
  <1> QED
    BY <1>4, <1>9, <1>10, <1>12, <1>13 DEF StreamCore

\* Every step keeps the invariant.
LEMMA StreamNextInv == StreamInv /\ [StreamNext]_allVars => StreamInv'
  <1> SUFFICES ASSUME StreamInv, [StreamNext]_allVars PROVE StreamInv'
    OBVIOUS
  <1>1. [Next]_vars /\ IInv /\ FewWait /\ StreamCore
    BY StreamStepIsRelayStep DEF StreamInv
  <1>2. IInv' /\ FewWait' /\ SocketsGoOn
    BY <1>1, NextIInv, FewWaitStays, SocketsDoGoOn
  <1>3. ASSUME \/ Elsewhere
               \/ \E s \in Sockets, r \in Requests : Answer(s, r)
               \/ \E r \in Requests : Dispatch(r)
               \/ \E s \in Sockets : Register(s)
        PROVE  StreamCore'
    BY <1>1, <1>3, RelayFrames
  <1>4. ASSUME NEW s \in Sockets, Disconnect(s) PROVE StreamCore'
    BY <1>1, <1>2, <1>4, DisconnectEnds
  <1>5. ASSUME NEW s \in Sockets, ReceiveFrame(s) PROVE StreamCore'
    BY <1>1, <1>2, <1>5, FrameReceived
  <1>6. ASSUME NEW s \in Sockets, SubscriberSeesClose(s) PROVE StreamCore'
    BY <1>1, <1>6, CloseIsSeen
  <1>7. ASSUME NEW c \in Callers, CallerOpen(c) PROVE StreamCore'
    BY <1>1, <1>2, <1>7, CallerComes
  <1>8. ASSUME NEW c \in Callers, CallerLeaves(c) \/ CallerOnError(c) PROVE StreamCore'
    BY <1>1, <1>2, <1>8, CallerEnds
  <1>9. ASSUME NEW c \in Callers, CallerOnClose(c) PROVE StreamCore'
    BY <1>1, <1>2, <1>9, CallerCloses
  <1>10. ASSUME NEW s \in Sockets, NEW c \in Callers, SubscriptionClose(s, c) PROVE StreamCore'
    BY <1>1, <1>2, <1>10, CallerEnds
  <1>11. ASSUME UNCHANGED allVars PROVE StreamCore'
    <2>1. UNCHANGED <<registration, subscribers, readyState, callerState, errored, active, wire, producers>>
      BY <1>11 DEF allVars, vars, streamVars
    <2>2. /\ \A s, i, f : IsAt(s, i, f)' <=> IsAt(s, i, f)
          /\ \A b : SubscribeFrame(b)' = SubscribeFrame(b) /\ CancelFrame(b)' = CancelFrame(b)
      BY <2>1 DEF IsAt, SubscribeFrame, CancelFrame, Frame
    <2>3. \A s \in Sockets, b \in Callers : Concerns(s, b)' <=> Concerns(s, b)
      BY <2>1, <2>2 DEF Concerns
    <2>4. StreamsTyped' /\ ConcernsOne'
      BY <1>1, <2>1, <2>3 DEF StreamCore, StreamsTyped, ConcernsOne
    <2>5. SubscribedOnce' /\ EndedIsCancelled'
      BY <1>1, <2>1, <2>2 DEF StreamCore, SubscribedOnce, EndedIsCancelled, Told
    <2>6. ActiveIsOld' /\ OpenCallerIsActive' /\ ActiveIsBound'
      BY <1>1, <2>1 DEF StreamCore, ActiveIsOld, OpenCallerIsActive, ActiveIsBound
    <2> QED
      BY <2>4, <2>5, <2>6 DEF StreamCore
  <1>12. StreamCore'
    BY <1>3, <1>4, <1>5, <1>6, <1>7, <1>8, <1>9, <1>10, <1>11 DEF StreamNext
  <1> QED
    BY <1>2, <1>12 DEF StreamInv

\* A stream that is over is on its way to being cancelled at its producer.
LEMMA StreamInvIsSound == StreamInv => StreamsAreSound
  <1> SUFFICES ASSUME StreamInv, NEW s \in Sockets, NEW c \in producers[s],
                      Told(s), c \notin active \cup errored
               PROVE  Contains(wire[s], CancelFrame(c))
    BY DEF StreamsAreSound, StreamInv, StreamCore, CancelIsOnTheWay, Told, CancelFrame
  <1>1. c \in Callers
    BY DEF StreamInv, StreamCore, StreamsTyped
  <1>2. PICK j : IsAt(s, j, CancelFrame(c))
    BY <1>1 DEF StreamInv, StreamCore, EndedIsCancelled
  <1> QED
    BY <1>2 DEF IsAt, Contains

\* StreamsAreSound for any number of sockets, requests, callers and subdomains.
THEOREM StreamsHold == StreamSpec => []StreamsAreSound
  <1>1. StreamSpec => []StreamInv
    BY StreamInitInv, StreamNextInv, PTL DEF StreamSpec
  <1> QED
    BY <1>1, StreamInvIsSound, PTL

\* The relay with its streams is the relay: every behaviour of RelayStreams is,
\* for the sockets and the requests, a behaviour of XrpcRelay.
THEOREM StreamsRunTheRelay == StreamSpec => Init /\ [][Next]_vars
  <1>1. StreamInit => Init
    BY DEF StreamInit
  <1> QED
    BY <1>1, StreamStepIsRelayStep, PTL DEF StreamSpec

\* So the requests are as safe with subscriptions running as without.
THEOREM RequestsSafeAmongStreams == StreamSpec => []RequestsAreSafe
  <1>1. StreamSpec => []IInv
    BY StreamsRunTheRelay, InitIInv, NextIInv, PTL
  <1>2. IInv => RequestsAreSafe
    BY DEF IInv, RequestsAreSafe
  <1> QED
    BY <1>1, <1>2, PTL

-----------------------------------------------------------------------------
(* NonceStore: a nonce admits its key once                                *)


\* What is in the map is what was issued: the map never holds a second entry
\* for a nonce, so a nonce taken out of it cannot come back.
EntryWasIssued ==
    \A n \in Nonces : issued[n] # NoEntry => issued[n] = issuedTo[n]

NonceInv == NonceTypeOK /\ EntryWasIssued /\ AdmitsTheIssuedKey /\ SpentForGood

\* Initially nothing is issued and no call has begun.
LEMMA NonceInitInv == NonceInit => NonceInv
  <1> SUFFICES ASSUME NonceInit PROVE NonceInv
    OBVIOUS
  <1> USE DEF NonceInit
  <1>1. NonceTypeOK
    BY DEF NonceTypeOK, CallRecords, CallStates
  <1>2. EntryWasIssued
    BY DEF EntryWasIssued
  <1>3. AdmitsTheIssuedKey /\ SpentForGood
    BY DEF AdmitsTheIssuedKey, SpentForGood
  <1> QED
    BY <1>1, <1>2, <1>3 DEF NonceInv

\* issue takes a fresh nonce, so no call that was admitted is about it.
LEMMA IssuePreserves ==
    ASSUME NonceInv, NEW n \in Nonces, NEW k \in Keys, Issue(n, k)
    PROVE  NonceInv'
  <1> DEFINE e == [key |-> k, expiresAt |-> now + TtlMs]
  <1> USE DEF NonceInv
  <1>1. e \in Entries /\ e # NoEntry
    BY NonceAssumption DEF Entries, NonceTypeOK
  <1>2. /\ issuedTo[n] = NoEntry
        /\ issued' = [m \in Nonces |-> IF m = n THEN e
                                      ELSE IF Expired(m) THEN NoEntry ELSE issued[m]]
        /\ issuedTo' = [issuedTo EXCEPT ![n] = e]
        /\ now' = now /\ call' = call
    BY DEF Issue
  <1> HIDE DEF e
  <1>3. NonceTypeOK'
    BY <1>1, <1>2 DEF NonceTypeOK
  <1>4. EntryWasIssued'
    BY <1>1, <1>2 DEF EntryWasIssued, NonceTypeOK
  <1>5. ASSUME NEW c \in Calls, call[c].state \in {"checking", "ok"}
        PROVE  call[c].nonce \in Nonces /\ call[c].nonce # n
    BY <1>2, <1>5 DEF AdmitsTheIssuedKey, NonceTypeOK, CallRecords
  <1>6. AdmitsTheIssuedKey'
    BY <1>2, <1>5 DEF AdmitsTheIssuedKey, NonceTypeOK
  <1>7. SpentForGood'
    BY <1>2, <1>5 DEF SpentForGood, NonceTypeOK
  <1> QED
    BY <1>3, <1>4, <1>6, <1>7

\* A call of verify takes nonces out of the map, never into it, and goes on
\* only with the key and within the life time of the entry it looked up.
LEMMA VerifyPreserves ==
    ASSUME NonceInv, NEW c \in Calls,
           VerifyMalformed(c) \/ VerifyStart(c) \/ VerifyOk(c) \/ VerifyBad(c)
    PROVE  NonceInv'
  <1> DEFINE n == call[c].nonce
  <1> USE DEF NonceInv
  <1>1. n \in Nonces /\ call[c] \in CallRecords
    BY DEF NonceTypeOK, CallRecords
  <1>2. CASE VerifyMalformed(c) \/ VerifyStart(c)
    <2>1. /\ now' = now /\ issuedTo' = issuedTo
          /\ \/ issued' = issued
             \/ issued' = [issued EXCEPT ![n] = NoEntry]
      BY <1>2 DEF VerifyMalformed, VerifyStart, SetState
    <2>2. \/ call' = [call EXCEPT ![c].state = "refused"]
          \/ /\ issued[n] # NoEntry
             /\ ~Expired(n)
             /\ issued[n].key = call[c].key
             /\ call' = [call EXCEPT ![c].state = "checking", ![c].at = now]
      BY <1>2 DEF VerifyMalformed, VerifyStart, SetState
    <2>3. NonceTypeOK'
      BY <1>1, <2>1, <2>2 DEF NonceTypeOK, CallRecords, CallStates
    <2>4. EntryWasIssued'
      BY <1>1, <2>1 DEF EntryWasIssued, NonceTypeOK
    <2>5. SpentForGood'
      BY <1>1, <2>1, <2>2 DEF SpentForGood, NonceTypeOK, CallRecords
    <2>6. AdmitsTheIssuedKey'
      <3>1. CASE call' = [call EXCEPT ![c].state = "refused"]
        BY <1>1, <2>1, <3>1 DEF AdmitsTheIssuedKey, NonceTypeOK, CallRecords
      <3>2. CASE /\ issued[n] # NoEntry
                 /\ ~Expired(n)
                 /\ issued[n].key = call[c].key
                 /\ call' = [call EXCEPT ![c].state = "checking", ![c].at = now]
        <4>1. /\ issuedTo[n] # NoEntry
              /\ issuedTo[n].key = call[c].key
              /\ now <= issuedTo[n].expiresAt
          BY <1>1, <3>2 DEF EntryWasIssued, Expired, NonceTypeOK, Entries
        <4> QED
          BY <1>1, <2>1, <3>2, <4>1 DEF AdmitsTheIssuedKey, NonceTypeOK, CallRecords
      <3> QED
        BY <2>2, <3>1, <3>2
    <2> QED
      BY <2>3, <2>4, <2>5, <2>6
  <1>3. CASE VerifyOk(c) \/ VerifyBad(c)
    <2>1. /\ now' = now /\ issuedTo' = issuedTo
          /\ call[c].state = "checking"
          /\ \/ /\ issued' = issued
                /\ call' = [call EXCEPT ![c].state = "refused"]
             \/ /\ issued' = [issued EXCEPT ![n] = NoEntry]
                /\ call' = [call EXCEPT ![c].state = "ok"]
      BY <1>3 DEF VerifyOk, VerifyBad, SetState
    <2>2. NonceTypeOK'
      BY <1>1, <2>1 DEF NonceTypeOK, CallRecords, CallStates
    <2>3. EntryWasIssued'
      BY <1>1, <2>1 DEF EntryWasIssued, NonceTypeOK
    <2>4. SpentForGood'
      BY <1>1, <2>1 DEF SpentForGood, NonceTypeOK, CallRecords
    <2>5. AdmitsTheIssuedKey'
      <3>1. \A b \in Calls :
               /\ call'[b].nonce = call[b].nonce
               /\ call'[b].key = call[b].key
               /\ call'[b].at = call[b].at
               /\ call'[b].state \in {"checking", "ok"}
                     => call[b].state \in {"checking", "ok"}
        BY <1>1, <2>1 DEF NonceTypeOK, CallRecords
      <3> QED
        BY <2>1, <3>1 DEF AdmitsTheIssuedKey
    <2> QED
      BY <2>2, <2>3, <2>4, <2>5
  <1> QED
    BY <1>2, <1>3

\* The invariant is inductive.
LEMMA NonceNextInv == NonceInv /\ [NonceNext]_nonceVars => NonceInv'
  <1> SUFFICES ASSUME NonceInv, [NonceNext]_nonceVars PROVE NonceInv'
    OBVIOUS
  <1>1. ASSUME NEW n \in Nonces, NEW k \in Keys, Issue(n, k) PROVE NonceInv'
    BY <1>1, IssuePreserves
  <1>2. ASSUME NEW c \in Calls,
               VerifyMalformed(c) \/ VerifyStart(c) \/ VerifyOk(c) \/ VerifyBad(c)
        PROVE  NonceInv'
    BY <1>2, VerifyPreserves
  <1>3. CASE Tick
    BY <1>3 DEF Tick, NonceInv, NonceTypeOK, EntryWasIssued, AdmitsTheIssuedKey, SpentForGood
  <1>4. CASE UNCHANGED nonceVars
    BY <1>4 DEF nonceVars, NonceInv, NonceTypeOK, EntryWasIssued, AdmitsTheIssuedKey, SpentForGood
  <1> QED
    BY <1>1, <1>2, <1>3, <1>4 DEF NonceNext

\* The invariant holds in every state the nonce store can reach.
LEMMA NonceSpecInv == NonceSpec => []NonceInv
  BY NonceInitInv, NonceNextInv, PTL DEF NonceSpec

\* A nonce that admitted a registration never verifies again (auth.ts: the
\* nonce is deleted from issued when a signature verified, and issue stores
\* only fresh ones), however many calls overlap.
THEOREM NonceSpentForGood == NonceSpec => []SpentForGood
  <1>1. NonceInv => SpentForGood
    BY DEF NonceInv
  <1> QED
    BY NonceSpecInv, <1>1, PTL

\* verify admits only the key a nonce was issued to, within its life time,
\* although the signature check is awaited after the comparison.
THEOREM NonceAdmitsIssuedKey == NonceSpec => []AdmitsTheIssuedKey
  <1>1. NonceInv => AdmitsTheIssuedKey
    BY DEF NonceInv
  <1> QED
    BY NonceSpecInv, <1>1, PTL

\* Both together: what the nonces of auth.ts promise, for any number of calls.
THEOREM NoncesHold == NonceSpec => []NoncePromise
  BY NonceSpentForGood, NonceAdmitsIssuedKey, PTL DEF NoncePromise

-----------------------------------------------------------------------------
(* SubscriberLoop: reconnecting for ever, publishing what is open          *)


LoopInv == LoopTypeOK /\ NeverGivesUp /\ PublishedIsOpen

\* runSubscriber begins with one attempt and publishes nothing.
LEMMA LoopInitInv == LoopInit => LoopInv
  <1> SUFFICES ASSUME LoopInit PROVE LoopInv
    OBVIOUS
  <1>0. PICK first \in Attempts :
           phase = [a \in Attempts |-> IF a = first THEN "fetching" ELSE "unused"]
    BY DEF LoopInit
  <1>1. LoopTypeOK
    <2>1. phase \in [Attempts -> Phases]
      BY <1>0 DEF Phases
    <2>2. /\ promise \in [Attempts -> Promises]
          /\ registered \subseteq Attempts /\ expiring \subseteq Attempts
          /\ handle \in Attempts \cup {NoAttempt}
          /\ subdomain \in Attempts \cup {NoAttempt}
          /\ status \in Statuses
      BY DEF LoopInit, Promises, Statuses
    <2>3. scheduled = 0 /\ delay = Base
      BY DEF LoopInit
    <2>4. scheduled \in 0..MaxScheduled /\ delay \in Base..MaxDelay
      BY <2>3, LoopAssumption
    <2>5. stopped \in BOOLEAN
      BY Zenon DEF LoopInit
    <2> QED
      BY <2>1, <2>2, <2>4, <2>5 DEF LoopTypeOK
  <1>2. NeverGivesUp
    BY <1>0 DEF NeverGivesUp, Busy
  <1>3. PublishedIsOpen
    BY DEF PublishedIsOpen, LoopInit
  <1> QED
    BY <1>1, <1>2, <1>3 DEF LoopInv

\* schedule adds timers, keeps the delay within its bounds and leaves the
\* status "disconnected", or does nothing after stop.
LEMMA ScheduleFacts ==
    ASSUME LoopTypeOK, NEW n \in {1, 2}, Schedule(n)
    PROVE  /\ scheduled' \in 0..MaxScheduled
           /\ delay' \in Base..MaxDelay
           /\ status' \in Statuses
           /\ ~stopped => (scheduled' > 0 /\ status' = "disconnected")
           /\ stopped => status' = status
  <1> USE LoopAssumption DEF LoopTypeOK, Schedule, Statuses
  <1>1. ASSUME NEW x \in Base..MaxDelay
        PROVE  (IF x * 2 < MaxDelay THEN x * 2 ELSE MaxDelay) \in Base..MaxDelay
    OBVIOUS
  <1>2. Doubled(delay, n) \in Base..MaxDelay
    <2>1. CASE n = 1
      BY <1>1, <2>1 DEF Doubled
    <2>2. CASE n = 2
      BY <1>1, <2>2 DEF Doubled
    <2> QED
      BY <2>1, <2>2
  <1> QED
    BY <1>2

\* The invariant is inductive.
LEMMA LoopNextInv == LoopInv /\ [LoopNext]_loopVars => LoopInv'
  <1> SUFFICES ASSUME LoopInv, [LoopNext]_loopVars PROVE LoopInv'
    OBVIOUS
  <1> USE LoopAssumption DEF LoopInv
  <1>1. ASSUME NEW a \in Attempts, Reconnect(a) PROVE LoopInv'
    <2> USE <1>1 DEF Reconnect
    <2>1. LoopTypeOK'
      BY DEF LoopTypeOK, Phases, Promises, Statuses
    <2>2. NeverGivesUp'
      BY DEF NeverGivesUp, Busy, LoopTypeOK
    <2>3. PublishedIsOpen'
      BY DEF PublishedIsOpen, Open, LoopTypeOK
    <2> QED
      BY <2>1, <2>2, <2>3
  <1>2. ASSUME NEW a \in Attempts, OpenSocket(a) PROVE LoopInv'
    <2> USE <1>2 DEF OpenSocket
    <2>1. LoopTypeOK'
      BY DEF LoopTypeOK, Phases
    <2>2. NeverGivesUp'
      BY DEF NeverGivesUp, Busy, LoopTypeOK
    <2>3. PublishedIsOpen'
      BY DEF PublishedIsOpen, Open, LoopTypeOK
    <2> QED
      BY <2>1, <2>2, <2>3
  <1>3. ASSUME NEW a \in Attempts, FetchFails(a) PROVE LoopInv'
    <2> USE <1>3, ScheduleFacts DEF FetchFails
    <2>1. LoopTypeOK'
      BY DEF LoopTypeOK, Phases, Promises
    <2>2. NeverGivesUp'
      BY DEF NeverGivesUp
    <2>3. PublishedIsOpen'
      BY DEF PublishedIsOpen, Open, LoopTypeOK
    <2> QED
      BY <2>1, <2>2, <2>3
  <1>4. ASSUME NEW a \in Attempts, Registered(a) PROVE LoopInv'
    <2> USE <1>4 DEF Registered
    <2>1. LoopTypeOK'
      BY DEF LoopTypeOK, Promises, Statuses
    <2>2. NeverGivesUp'
      BY DEF NeverGivesUp, Busy
    <2>3. PublishedIsOpen'
      BY DEF PublishedIsOpen, Open, LoopTypeOK
    <2> QED
      BY <2>1, <2>2, <2>3
  <1>5. ASSUME NEW a \in Attempts, RegistrationTimeout(a) \/ SocketError(a)
        PROVE  LoopInv'
    <2>1. /\ UNCHANGED <<phase, registered, handle, subdomain, stopped>>
          /\ expiring' = expiring \/ expiring' = expiring \ {a}
          /\ \/ /\ Schedule(1)
                /\ promise' = [promise EXCEPT ![a] = "rejected"]
             \/ UNCHANGED <<promise, scheduled, delay, status>>
      BY <1>5 DEF RegistrationTimeout, SocketError
    <2>2. LoopTypeOK'
      BY <2>1, ScheduleFacts DEF LoopTypeOK, Promises
    <2>3. NeverGivesUp'
      BY <2>1, ScheduleFacts DEF NeverGivesUp, Busy
    <2>4. PublishedIsOpen'
      BY <2>1, ScheduleFacts DEF PublishedIsOpen, Open
    <2> QED
      BY <2>2, <2>3, <2>4
  <1>6. ASSUME NEW a \in Attempts, SocketClosed(a) PROVE LoopInv'
    <2>1. /\ UNCHANGED <<registered, expiring, stopped>>
          /\ phase' = [phase EXCEPT ![a] = "closed"]
          /\ handle' = NoAttempt /\ subdomain' = NoAttempt
          /\ Schedule(1) \/ Schedule(2)
          /\ promise' = promise \/ promise' = [promise EXCEPT ![a] = "rejected"]
      BY <1>6 DEF SocketClosed
    <2>2. LoopTypeOK'
      BY <2>1, ScheduleFacts DEF LoopTypeOK, Phases, Promises
    <2>3. NeverGivesUp'
      BY <2>1, ScheduleFacts DEF NeverGivesUp
    <2>4. PublishedIsOpen'
      BY <2>1, ScheduleFacts DEF PublishedIsOpen
    <2> QED
      BY <2>2, <2>3, <2>4
  <1>7. ASSUME NEW a \in Attempts, Recycle(a) PROVE LoopInv'
    <2> USE <1>7 DEF Recycle
    <2>1. LoopTypeOK'
      BY DEF LoopTypeOK, Phases
    <2>2. NeverGivesUp'
      BY DEF NeverGivesUp, Busy, LoopTypeOK
    <2>3. PublishedIsOpen'
      BY DEF PublishedIsOpen, Open, LoopTypeOK
    <2> QED
      BY <2>1, <2>2, <2>3
  <1>8. CASE Stop
    BY <1>8 DEF Stop, LoopTypeOK, NeverGivesUp, PublishedIsOpen, Statuses
  <1>9. CASE UNCHANGED loopVars
    BY <1>9 DEF loopVars, LoopTypeOK, NeverGivesUp, Busy, PublishedIsOpen, Open
  <1> QED
    BY <1>1, <1>2, <1>3, <1>4, <1>5, <1>6, <1>7, <1>8, <1>9 DEF LoopNext

\* The invariant holds in every state the reconnect loop can reach.
LEMMA LoopSpecInv == LoopSpec => []LoopInv
  BY LoopInitInv, LoopNextInv, PTL DEF LoopSpec

\* The reconnect loop of runSubscriber cannot end by itself: every way an
\* attempt can fail leaves a timer or a socket whose close event schedules one.
THEOREM LoopNeverDies == LoopSpec => []NeverGivesUp
  <1>1. LoopInv => NeverGivesUp
    BY DEF LoopInv
  <1> QED
    BY LoopSpecInv, <1>1, PTL

\* runSubscriber publishes the subdomain, and keeps the handle, of an open
\* registered socket only, however its attempts overlap.
THEOREM PublishesOpenSockets == LoopSpec => []PublishedIsOpen
  <1>1. LoopInv => PublishedIsOpen
    BY DEF LoopInv
  <1> QED
    BY LoopSpecInv, <1>1, PTL

\* Both together: what runSubscriber promises its controller.
THEOREM LoopHolds == LoopSpec => []LoopPromise
  BY LoopNeverDies, PublishesOpenSockets, PTL DEF LoopPromise

-----------------------------------------------------------------------------
(* SshSessions: a closed socket leaves no ssh process behind               *)

SshTypeOK ==
    /\ wsState \in [WebSockets -> {"opening", "open", "closed"}]
    /\ connecting \subseteq Sessions /\ registry \subseteq Sessions
    /\ session \in [WebSockets -> SshAttempts \cup {NoSshAttempt}]
    /\ proc \in [Sessions -> {"none", "running", "dying", "exited"}]

\* Unless it raced, a socket connects once, while it is open and has no session.
ConnectsOnce(w) ==
    \A a \in SshAttempts : <<w, a>> \in connecting =>
        /\ wsState[w] = "open" /\ session[w] = NoSshAttempt
        /\ \A b \in SshAttempts : <<w, b>> \in connecting => a = b

\* The process that runs is the one onclose of its handler kills.
RunsTheSession(w) ==
    \A a \in SshAttempts : proc[<<w, a>>] = "running" =>
        wsState[w] = "open" /\ session[w] = a /\ <<w, a>> \in registry

SshInv == SshTypeOK /\ \A w \in WebSockets \ raced : ConnectsOnce(w) /\ RunsTheSession(w)

\* The initial states satisfy the invariant.
LEMMA SshInitInv == SshInit => SshInv
  BY DEF SshInit, SshInv, SshTypeOK, ConnectsOnce, RunsTheSession, Sessions

\* onclose kills what the handler knows of: nothing of an unraced socket runs on.
LEMMA OnCloseKills ==
    ASSUME SshTypeOK, NEW w \in WebSockets,
           NEW procs \in [Sessions -> {"none", "running", "dying", "exited"}],
           \A a \in SshAttempts : procs[<<w, a>>] = "running" =>
               session[w] = a /\ <<w, a>> \in registry,
           SshOnClose(w, procs)
    PROVE  /\ proc' \in [Sessions -> {"none", "running", "dying", "exited"}]
           /\ \A a \in SshAttempts : proc'[<<w, a>>] # "running"
           /\ \A s \in Sessions : s[1] # w => proc'[s] = procs[s]
           /\ \A s \in Sessions : proc'[s] = "running" => procs[s] = "running"
  <1> DEFINE t == <<w, session[w]>>
  <1>1. CASE t \in registry
    <2>1. t \in Sessions /\ t[1] = w
      BY <1>1 DEF SshTypeOK
    <2>2. proc' = [procs EXCEPT ![t] = IF @ = "running" THEN "dying" ELSE @]
      BY <1>1 DEF SshOnClose
    <2>3. \A a \in SshAttempts : procs[<<w, a>>] = "running" => <<w, a>> = t
      OBVIOUS
    <2>4. \A a \in SshAttempts : <<w, a>> \in Sessions
      BY DEF Sessions
    <2> HIDE DEF t
    <2> QED
      BY <2>1, <2>2, <2>3, <2>4
  <1>2. CASE t \notin registry
    <2>1. proc' = procs
      BY <1>2 DEF SshOnClose
    <2>2. \A a \in SshAttempts : procs[<<w, a>>] # "running"
      BY <1>2
    <2> QED
      BY <2>1, <2>2
  <1> QED
    BY <1>1, <1>2

\* Sockets that a step does not touch stay as they are.
Untouched(w) ==
    /\ wsState'[w] = wsState[w] /\ session'[w] = session[w]
    /\ \A a \in SshAttempts : /\ <<w, a>> \in connecting' <=> <<w, a>> \in connecting
                              /\ <<w, a>> \in registry => <<w, a>> \in registry'
                              /\ proc'[<<w, a>>] = proc[<<w, a>>]

\* What held of an untouched socket holds of it still.
LEMMA UntouchedKeeps ==
    ASSUME NEW w, Untouched(w), ConnectsOnce(w), RunsTheSession(w)
    PROVE  ConnectsOnce(w)' /\ RunsTheSession(w)'
  BY DEF Untouched, ConnectsOnce, RunsTheSession

\* Every step keeps the invariant.
LEMMA SshNextInv == SshInv /\ [SshNext]_sshVars => SshInv'
  <1> SUFFICES ASSUME SshInv, [SshNext]_sshVars PROVE SshInv'
    OBVIOUS
  <1>1. SshTypeOK /\ \A w \in WebSockets : w \notin raced => ConnectsOnce(w) /\ RunsTheSession(w)
    BY DEF SshInv
  <1>2. \A w \in WebSockets, a \in SshAttempts : <<w, a>> \in Sessions
    BY DEF Sessions
  <1>3. \A s \in Sessions : s[1] \in WebSockets /\ s[2] \in SshAttempts /\ s = <<s[1], s[2]>>
    BY DEF Sessions
  \* One socket at a time: a step that touches v alone.
  <1>4. ASSUME NEW v \in WebSockets, SshTypeOK', raced \subseteq raced',
               \A w \in WebSockets \ {v} : Untouched(w),
               v \notin raced' => ConnectsOnce(v)' /\ RunsTheSession(v)'
        PROVE  SshInv'
    <2> SUFFICES ASSUME NEW w \in WebSockets, w \notin raced'
                 PROVE  ConnectsOnce(w)' /\ RunsTheSession(w)'
      BY <1>4 DEF SshInv
    <2>1. CASE w = v
      BY <1>4, <2>1
    <2>2. CASE w # v
      <3>1. Untouched(w) /\ ConnectsOnce(w) /\ RunsTheSession(w)
        BY <1>1, <1>4, <2>2
      <3> QED
        BY <3>1, UntouchedKeeps
    <2> QED
      BY <2>1, <2>2
  <1>5. ASSUME NEW v \in WebSockets, SshOpen(v) PROVE SshInv'
    <2>1. /\ wsState[v] = "opening" /\ wsState' = [wsState EXCEPT ![v] = "open"]
          /\ UNCHANGED <<connecting, session, proc, registry, raced>>
      BY <1>5 DEF SshOpen
    <2>2. SshTypeOK'
      BY <1>1, <2>1 DEF SshTypeOK
    <2>3. \A w \in WebSockets \ {v} : Untouched(w)
      BY <1>1, <2>1 DEF SshTypeOK, Untouched
    <2>4. v \notin raced' => ConnectsOnce(v)' /\ RunsTheSession(v)'
      BY <1>1, <2>1 DEF SshTypeOK, ConnectsOnce, RunsTheSession
    <2> QED
      BY <1>4, <2>1, <2>2, <2>3, <2>4
  \* A step that closes v: what ran is killed, unless the close raced.
  <1>6. ASSUME NEW v \in WebSockets,
               NEW procs \in [Sessions -> {"none", "running", "dying", "exited"}],
               wsState' = [wsState EXCEPT ![v] = "closed"], SshOnClose(v, procs),
               \A s \in Sessions : s[1] # v => procs[s] = proc[s],
               \A s \in Sessions : procs[s] = "running" => proc[s] = "running",
               connecting' \subseteq connecting, \A s \in connecting \ connecting' : s[1] = v,
               raced' = IF \E s \in connecting' : s[1] = v THEN raced \cup {v} ELSE raced,
               UNCHANGED <<session, registry>>
        PROVE  SshInv'
    <2>1. v \notin raced =>
              \A a \in SshAttempts : procs[<<v, a>>] = "running" =>
                  session[v] = a /\ <<v, a>> \in registry
      BY <1>1, <1>2, <1>6 DEF RunsTheSession
    <2>2. /\ proc' \in [Sessions -> {"none", "running", "dying", "exited"}]
          /\ \A s \in Sessions : s[1] # v => proc'[s] = proc[s]
      <3> DEFINE t == <<v, session[v]>>
      <3>1. CASE t \in registry
        <4>1. t \in Sessions /\ t[1] = v
          BY <1>1, <3>1 DEF SshTypeOK
        <4>2. proc' = [procs EXCEPT ![t] = IF @ = "running" THEN "dying" ELSE @]
          BY <1>6, <3>1 DEF SshOnClose
        <4> HIDE DEF t
        <4> QED
          BY <1>6, <4>1, <4>2
      <3>2. CASE t \notin registry
        BY <1>6, <3>2 DEF SshOnClose
      <3> QED
        BY <3>1, <3>2
    <2>3. SshTypeOK'
      BY <1>1, <1>6, <2>2 DEF SshTypeOK
    <2>4. \A w \in WebSockets \ {v} : Untouched(w)
      <3> SUFFICES ASSUME NEW w \in WebSockets, w # v PROVE Untouched(w)
        OBVIOUS
      <3>1. \A a \in SshAttempts : <<w, a>> \in Sessions /\ <<w, a>>[1] # v
        BY <1>2
      <3>2. wsState'[w] = wsState[w] /\ session'[w] = session[w] /\ registry' = registry
        BY <1>1, <1>6 DEF SshTypeOK
      <3>3. \A a \in SshAttempts : <<w, a>> \in connecting' <=> <<w, a>> \in connecting
        BY <1>6, <3>1
      <3> QED
        BY <2>2, <3>1, <3>2, <3>3 DEF Untouched
    <2>5. ASSUME v \notin raced' PROVE ConnectsOnce(v)' /\ RunsTheSession(v)'
      <3>1. v \notin raced /\ \A a \in SshAttempts : <<v, a>> \notin connecting'
        BY <1>6, <2>5
      <3>2. \A a \in SshAttempts : proc'[<<v, a>>] # "running"
        BY <1>1, <1>6, <2>1, <3>1, OnCloseKills
      <3> QED
        BY <3>1, <3>2 DEF ConnectsOnce, RunsTheSession
    <2> QED
      BY <1>4, <1>6, <2>3, <2>4, <2>5
  <1>7. ASSUME NEW v \in WebSockets, SshClose(v) \/ SshExitFrame(v) PROVE SshInv'
    <2>1. /\ wsState' = [wsState EXCEPT ![v] = "closed"] /\ SshOnClose(v, proc)
          /\ raced' = (IF \E s \in connecting : s[1] = v THEN raced \cup {v} ELSE raced)
          /\ UNCHANGED <<connecting, session, registry>>
      BY <1>7 DEF SshClose, SshExitFrame, SshBusy
    <2>2. proc \in [Sessions -> {"none", "running", "dying", "exited"}]
      BY <1>1 DEF SshTypeOK
    <2> QED
      BY <1>6, <2>1, <2>2
  <1>8. ASSUME NEW v \in WebSockets, NEW a \in SshAttempts, SshConnectFails(v, a) PROVE SshInv'
    <2> DEFINE procs == [proc EXCEPT ![<<v, a>>] = "exited"]
    <2>1. /\ connecting' = connecting \ {<<v, a>>}
          /\ wsState' = [wsState EXCEPT ![v] = "closed"] /\ SshOnClose(v, procs)
          /\ raced' = (IF \E s \in connecting' : s[1] = v THEN raced \cup {v} ELSE raced)
          /\ UNCHANGED <<session, registry>>
      BY <1>8 DEF SshConnectFails
    <2>2. /\ procs \in [Sessions -> {"none", "running", "dying", "exited"}]
          /\ \A s \in Sessions : s[1] # v => procs[s] = proc[s]
          /\ \A s \in Sessions : procs[s] = "running" => proc[s] = "running"
      BY <1>1, <1>2 DEF SshTypeOK
    <2>3. connecting' \subseteq connecting /\ \A s \in connecting \ connecting' : s[1] = v
      BY <2>1
    <2> HIDE DEF procs
    <2> QED
      BY <1>6, <2>1, <2>2, <2>3
  <1>9. ASSUME NEW v \in WebSockets, NEW a \in SshAttempts, SshMessage(v, a) PROVE SshInv'
    <2>1. /\ wsState[v] = "open" /\ session[v] = NoSshAttempt
          /\ raced' = (IF \E s \in connecting : s[1] = v THEN raced \cup {v} ELSE raced)
          /\ UNCHANGED <<session, proc, registry>>
          /\ \/ connecting' = connecting \cup {<<v, a>>} /\ UNCHANGED wsState
             \/ wsState' = [wsState EXCEPT ![v] = "closed"] /\ UNCHANGED connecting
      BY <1>9 DEF SshMessage, SshBusy
    <2>2. SshTypeOK'
      BY <1>1, <1>2, <2>1 DEF SshTypeOK
    <2>3. \A w \in WebSockets \ {v} : Untouched(w)
      <3> SUFFICES ASSUME NEW w \in WebSockets, w # v PROVE Untouched(w)
        OBVIOUS
      <3>1. \A b \in SshAttempts : <<w, b>> # <<v, a>>
        OBVIOUS
      <3> QED
        BY <1>1, <2>1, <3>1 DEF SshTypeOK, Untouched
    <2>4. ASSUME v \notin raced' PROVE ConnectsOnce(v)' /\ RunsTheSession(v)'
      <3>1. v \notin raced /\ raced' = raced /\ \A b \in SshAttempts : <<v, b>> \notin connecting
        BY <2>1, <2>4
      <3>2. \A b \in SshAttempts : proc'[<<v, b>>] # "running"
        BY <1>1, <2>1, <3>1, SshAssumption DEF RunsTheSession
      <3>3. ConnectsOnce(v)'
        BY <1>1, <2>1, <3>1 DEF ConnectsOnce, SshTypeOK
      <3> QED
        BY <3>2, <3>3 DEF RunsTheSession
    <2>5. raced \subseteq raced'
      BY <2>1
    <2> QED
      BY <1>4, <2>2, <2>3, <2>4, <2>5
  <1>10. ASSUME NEW v \in WebSockets, NEW a \in SshAttempts, SshConnected(v, a) PROVE SshInv'
    <2>1. /\ <<v, a>> \in connecting /\ connecting' = connecting \ {<<v, a>>}
          /\ proc' = [proc EXCEPT ![<<v, a>>] = "running"]
          /\ registry' = registry \cup {<<v, a>>}
          /\ session' = [session EXCEPT ![v] = a]
          /\ UNCHANGED <<wsState, raced>>
      BY <1>10 DEF SshConnected
    <2>2. SshTypeOK'
      BY <1>1, <1>2, <2>1 DEF SshTypeOK
    <2>3. \A w \in WebSockets \ {v} : Untouched(w)
      <3> SUFFICES ASSUME NEW w \in WebSockets, w # v PROVE Untouched(w)
        OBVIOUS
      <3>1. \A b \in SshAttempts : <<w, b>> # <<v, a>> /\ <<w, b>> \in Sessions
        BY <1>2
      <3> QED
        BY <1>1, <2>1, <3>1 DEF SshTypeOK, Untouched
    <2>4. ASSUME v \notin raced' PROVE ConnectsOnce(v)' /\ RunsTheSession(v)'
      <3>1. /\ wsState[v] = "open" /\ session[v] = NoSshAttempt
            /\ \A b \in SshAttempts : <<v, b>> \in connecting => a = b
            /\ \A b \in SshAttempts : proc[<<v, b>>] # "running"
        BY <1>1, <2>1, <2>4, SshAssumption DEF ConnectsOnce, RunsTheSession
      <3>2. \A b \in SshAttempts : <<v, b>> \notin connecting'
        BY <2>1, <3>1
      <3>3. wsState'[v] = "open" /\ session'[v] = a /\ <<v, a>> \in registry'
        BY <1>1, <2>1, <3>1 DEF SshTypeOK
      <3>4. \A b \in SshAttempts : proc'[<<v, b>>] = "running" => b = a
        BY <1>1, <1>2, <2>1, <3>1 DEF SshTypeOK
      <3> QED
        BY <3>2, <3>3, <3>4 DEF ConnectsOnce, RunsTheSession
    <2> QED
      BY <1>4, <2>1, <2>2, <2>3, <2>4
  <1>11. ASSUME NEW s \in Sessions, SshExit(s) \/ SshForget(s) \/ SshWrite(s) PROVE SshInv'
    <2> DEFINE v == s[1]
    <2>1. /\ UNCHANGED <<wsState, connecting, session, raced>>
          /\ \/ proc' = [proc EXCEPT ![s] = "exited"] /\ UNCHANGED registry
             \/ proc[s] = "exited" /\ registry' = registry \ {s} /\ UNCHANGED proc
             \/ UNCHANGED <<proc, registry>>
      BY <1>11 DEF SshExit, SshForget, SshWrite
    <2>2. SshTypeOK'
      BY <1>1, <2>1 DEF SshTypeOK
    <2>3. ASSUME NEW w \in WebSockets, w \notin raced PROVE ConnectsOnce(w)' /\ RunsTheSession(w)'
      <3>1. ConnectsOnce(w)'
        BY <1>1, <2>1, <2>3 DEF ConnectsOnce
      <3>2. \A a \in SshAttempts : proc'[<<w, a>>] = "running" =>
                proc[<<w, a>>] = "running" /\ (<<w, a>> \in registry => <<w, a>> \in registry')
        BY <1>1, <1>2, <2>1 DEF SshTypeOK
      <3> QED
        BY <1>1, <2>1, <2>3, <3>1, <3>2 DEF RunsTheSession
    <2> QED
      BY <2>1, <2>2, <2>3 DEF SshInv
  <1>12. CASE UNCHANGED sshVars
    BY <1>1, <1>12 DEF sshVars, SshInv, SshTypeOK, ConnectsOnce, RunsTheSession
  <1> QED
    BY <1>5, <1>7, <1>8, <1>9, <1>10, <1>11, <1>12 DEF SshNext

\* A closed socket leaves no ssh process running (ssh-xrpc-factory.ts onclose),
\* except when its close or another message came while a connect was under way,
\* for any number of sockets and attempts.
THEOREM SessionsEndWithTheirSocket == SshSpec => []NoProcessOutlivesItsSocket
  <1>1. SshSpec => []SshInv
    BY SshInitInv, SshNextInv, PTL DEF SshSpec
  <1>2. SshInv => NoProcessOutlivesItsSocket
    BY DEF SshInv, SshTypeOK, RunsTheSession, NoProcessOutlivesItsSocket
  <1> QED
    BY <1>1, <1>2, PTL

-----------------------------------------------------------------------------
(* BrowserRelay: a disconnected relay with a host is being reconnected     *)

BrowserTypeOK ==
    /\ minterPorts \in Seq(Tabs)
    /\ loop \in [Loops -> {"none", "timer", "nonce", "fetch", "auth", "socket", "open"}]

BrowserInv == BrowserTypeOK /\ DisconnectedIsRetried

\* The initial states satisfy the invariant.
LEMMA BrowserInitInv == BrowserInit => BrowserInv
  <1>1. <<>> \in Seq(Tabs)
    OBVIOUS
  <1> QED
    BY <1>1 DEF BrowserInit, BrowserInv, BrowserTypeOK, DisconnectedIsRetried

\* There is no host only when no signed-in port is there.
LEMMA NoHostNoPort == ASSUME BrowserTypeOK, HostPort = NoTab PROVE minterPorts = <<>>
  <1>1. minterPorts # <<>> => Head(minterPorts) \in Tabs
    BY DEF BrowserTypeOK
  <1> QED
    BY <1>1, BrowserAssumption DEF HostPort

\* Every step keeps the invariant.
LEMMA BrowserNextInv == BrowserInv /\ [BrowserNext]_browserVars => BrowserInv'
  <1> SUFFICES ASSUME BrowserInv, [BrowserNext]_browserVars PROVE BrowserInv'
    OBVIOUS
  <1>1. BrowserTypeOK /\ DisconnectedIsRetried
    BY DEF BrowserInv
  <1> DEFINE Trying == {"timer", "nonce", "fetch", "auth", "socket", "open"}
  \* A loop goes on.
  <1>2. ASSUME NEW s \in Loops, NEW x \in Trying, loop' = [loop EXCEPT ![s] = x], minterPorts' = minterPorts
        PROVE  BrowserInv'
    <2>1. loop'[s] = x /\ x # "none"
      BY <1>1, <1>2 DEF BrowserTypeOK
    <2> QED
      BY <1>1, <1>2, <2>1 DEF BrowserInv, BrowserTypeOK, DisconnectedIsRetried
  \* A loop ends for want of a host, or is abandoned.
  <1>3. ASSUME NEW s \in Loops, loop' = [loop EXCEPT ![s] = "none"], minterPorts' = minterPorts,
               HostPort = NoTab \/ abandoned'
        PROVE  BrowserInv'
    <2>1. minterPorts = <<>> \/ abandoned'
      BY <1>1, <1>3, NoHostNoPort
    <2> QED
      BY <1>1, <1>3, <2>1 DEF BrowserInv, BrowserTypeOK, DisconnectedIsRetried
  \* Nothing that matters changes.
  <1>4. ASSUME loop' = loop, abandoned' = abandoned, relayUp' = relayUp,
               minterPorts' \in Seq(Tabs), minterPorts = <<>> => minterPorts' = <<>>
        PROVE  BrowserInv'
    BY <1>1, <1>4 DEF BrowserInv, BrowserTypeOK, DisconnectedIsRetried
  <1>5. minterPorts \in Seq(Tabs)
    BY <1>1 DEF BrowserTypeOK
  <1>6. ASSUME NEW s \in Loops, Timer(s) PROVE BrowserInv'
    <2>1. CASE loop' = loop /\ relayUp' = relayUp
      BY <1>4, <1>5, <1>6, <2>1 DEF Timer
    <2>2. CASE HostPort = NoTab /\ loop' = [loop EXCEPT ![s] = "none"]
      BY <1>3, <1>6, <2>2 DEF Timer
    <2>3. CASE loop' = [loop EXCEPT ![s] = "nonce"]
      BY <1>2, <1>6, <2>3 DEF Timer
    <2> QED
      BY <1>6, <2>1, <2>2, <2>3 DEF Timer
  <1>7. ASSUME NEW s \in Loops, TokenMinted(s) \/ SocketMade(s) \/ SocketOpens(s) \/ SocketCloses(s)
        PROVE  BrowserInv'
    <2>1. minterPorts' = minterPorts /\ \E x \in Trying : loop' = [loop EXCEPT ![s] = x]
      BY <1>7 DEF TokenMinted, SocketMade, SocketOpens, SocketCloses
    <2> QED
      BY <1>2, <2>1
  <1>8. ASSUME NEW s \in Loops, NonceSigned(s) PROVE BrowserInv'
    <2>1. minterPorts' = minterPorts
      BY <1>8 DEF NonceSigned
    <2>2. \/ loop' = [loop EXCEPT ![s] = "none"] /\ abandoned'
          \/ loop' = [loop EXCEPT ![s] = "auth"]
      BY <1>8 DEF NonceSigned
    <2> QED
      BY <1>2, <1>3, <2>1, <2>2
  <1>9. ASSUME NEW s \in Loops, CallRejected(s) PROVE BrowserInv'
    <2>1. minterPorts' = minterPorts
      BY <1>9 DEF CallRejected
    <2>2. \/ loop' = [loop EXCEPT ![s] = "none"] /\ abandoned'
          \/ loop' = [loop EXCEPT ![s] = "timer"]
      BY <1>9 DEF CallRejected, ConnectFailed
    <2> QED
      BY <1>2, <1>3, <2>1, <2>2
  <1>10. ASSUME NEW s \in Loops, RegisteredFrame(s) PROVE BrowserInv'
    BY <1>4, <1>5, <1>10 DEF RegisteredFrame
  <1>11. ASSUME NEW f \in Frames, FrameArrives(f) \/ FrameAnswered(f) PROVE BrowserInv'
    BY <1>4, <1>5, <1>11 DEF FrameArrives, FrameAnswered
  <1>12. ASSUME NEW t \in Tabs, TabOpens(t) PROVE BrowserInv'
    <2>1. minterPorts' = minterPorts /\ abandoned' = abandoned
      BY <1>12 DEF TabOpens
    <2>2. CASE loop' = loop /\ relayUp' = relayUp
      BY <1>4, <1>5, <2>1, <2>2
    <2>3. ASSUME NEW s \in Loops, DoConnect(s) PROVE BrowserInv'
      <3>1. \/ \E x \in Trying : loop' = [loop EXCEPT ![s] = x]
            \/ HostPort = NoTab /\ loop' = [loop EXCEPT ![s] = "none"]
        BY <2>3 DEF DoConnect
      <3> QED
        BY <1>2, <1>3, <2>1, <3>1
    <2> QED
      BY <1>12, <2>2, <2>3 DEF TabOpens, Start
  <1>13. ASSUME NEW t \in Tabs, TabAnnounces(t) PROVE BrowserInv'
    <2>1. minterPorts' = Append(minterPorts, t) /\ abandoned' = abandoned
      BY <1>13 DEF TabAnnounces
    <2>2. minterPorts' \in Seq(Tabs)
      BY <1>5, <2>1, AppendProperties
    <2>3. CASE relayUp # "disconnected" /\ relayUp' = relayUp /\ loop' = loop
      BY <1>1, <2>2, <2>3 DEF BrowserInv, BrowserTypeOK, DisconnectedIsRetried
    <2>4. ASSUME NEW s \in Loops, relayUp' = "connecting",
                 loop' = [loop EXCEPT ![s] = IF keyed THEN "nonce" ELSE "timer"]
          PROVE  BrowserInv'
      BY <1>1, <2>2, <2>4 DEF BrowserInv, BrowserTypeOK, DisconnectedIsRetried
    <2> QED
      BY <1>13, <2>3, <2>4 DEF TabAnnounces
  <1>14. ASSUME NEW t \in Tabs, TabLeaves(t) PROVE BrowserInv'
    <2>1. minterPorts' = RemoveFirst(minterPorts, t) /\ UNCHANGED <<relayUp, loop, abandoned>>
      BY <1>14 DEF TabLeaves
    <2>2. minterPorts' \in Seq(Tabs) /\ (minterPorts = <<>> => minterPorts' = <<>>)
      BY <1>5, <2>1, RemoveFirstType
    <2> QED
      BY <1>4, <2>1, <2>2
  <1>15. ASSUME NEW t \in Tabs, TabCrashes(t) PROVE BrowserInv'
    BY <1>4, <1>5, <1>15 DEF TabCrashes
  <1>16. CASE EnsureKeypair
    BY <1>4, <1>5, <1>16 DEF EnsureKeypair
  <1>17. CASE UNCHANGED browserVars
    BY <1>4, <1>5, <1>17 DEF browserVars
  <1> QED
    BY <1>6, <1>7, <1>8, <1>9, <1>10, <1>11, <1>12, <1>13, <1>14, <1>15, <1>16, <1>17
       DEF BrowserNext, LoopStep

\* THEOREM.  Whatever tabs, timers, failures and closes do, a relay that shows
\* as disconnected while a tab could host it is being reconnected, unless a
\* rejection nobody catches ended a loop (relay-worker.ts: doConnect).
THEOREM DisconnectedIsAlwaysRetried == BrowserSpec => []DisconnectedIsRetried
  <1>1. BrowserInv => DisconnectedIsRetried
    BY DEF BrowserInv
  <1> QED
    BY <1>1, BrowserInitInv, BrowserNextInv, PTL DEF BrowserSpec

-----------------------------------------------------------------------------
(* BrowserVms: the worker serves the guests of the stored list             *)

Asking == {"asking", "awarding", "accepting", "provisioned"}

VmTypeOK ==
    /\ page \in [Pages -> {"closed", "idle"} \cup Asking]
    /\ wants \in [Pages -> Machines \cup {NoMachine}]
    /\ saved \in [Pages -> Seq(Machines)] /\ disk \in Seq(Machines)
    /\ ttyd = [n \in Names |-> ttyd[n]]
    /\ latest \in [Names -> Machines \cup {NoMachine}]

\* A list has one entry for each name, all of machines that were asked for and
\* that no page is still asking for.
GoodList(list) ==
    /\ \A i, j \in 1..Len(list) : NameOf[list[i]] = NameOf[list[j]] => i = j
    /\ \A i \in 1..Len(list) : list[i] \in requested
    /\ \A i \in 1..Len(list), p \in Pages : page[p] \in Asking => wants[p] # list[i]

\* A machine is asked for by one page.
AskedOnce ==
    /\ \A p \in Pages : page[p] \in Asking => wants[p] \in Machines /\ wants[p] \in requested
    /\ \A p, q \in Pages : page[p] \in Asking /\ page[q] \in Asking /\ wants[p] = wants[q] => p = q

VmInv ==
    /\ VmTypeOK /\ AskedOnce
    /\ GoodList(disk) /\ \A p \in Pages : GoodList(saved[p])
    /\ ListedGuestIsServed

\* There is nothing to remove from no pages.
LEMMA RemoveFromNone == \A e : RemoveFirst(<<>>, e) = <<>>
  <1>1. Len(<<>>) = 0
    OBVIOUS
  <1> QED
    BY <1>1 DEF RemoveFirst

\* The initial states satisfy the invariant.
LEMMA VmInitInv == VmInit => VmInv
  <1> SUFFICES ASSUME VmInit PROVE VmInv
    OBVIOUS
  <1>1. <<>> \in Seq(Machines) /\ Len(<<>>) = 0
    OBVIOUS
  <1>2. VmTypeOK
    BY <1>1 DEF VmInit, VmTypeOK
  <1>3. AskedOnce
    BY DEF VmInit, AskedOnce, Asking
  <1>4. GoodList(disk) /\ \A p \in Pages : GoodList(saved[p])
    BY <1>1 DEF VmInit, GoodList
  <1>5. ListedGuestIsServed
    BY DEF VmInit, ListedGuestIsServed
  <1> QED
    BY <1>2, <1>3, <1>4, <1>5 DEF VmInv

\* With one entry for each name, registering a list hands each name to its
\* machine.
LEMMA ReregisterServes ==
    ASSUME NEW table, NEW list \in Seq(Machines), NEW k \in 1..Len(list),
           \A i, j \in 1..Len(list) : NameOf[list[i]] = NameOf[list[j]] => i = j
    PROVE  /\ NameOf[list[k]] \in Names
           /\ Reregister(table, list)[NameOf[list[k]]] = list[k]
  <1>1. list[k] \in Machines /\ NameOf[list[k]] \in Names
    BY DEF Names
  <1> DEFINE of == {i \in 1..Len(list) : NameOf[list[i]] = NameOf[list[k]]}
  <1>2. of = {k}
    OBVIOUS
  <1>3. (CHOOSE i \in of : \A j \in of : j <= i) = k
    <2>1. k \in of /\ \A j \in of : j <= k
      BY <1>2
    <2> QED
      BY <1>2, <2>1
  <1>4. of # {}
    BY <1>2
  <1> QED
    BY <1>1, <1>3, <1>4 DEF Reregister

\* After the effect on the stored list, the worker serves that list.
LEMMA RewireServes ==
    ASSUME VmTypeOK, NEW list \in Seq(Machines), disk' = list, Rewire(list), issuers' = issuers,
           \A i, j \in 1..Len(list) : NameOf[list[i]] = NameOf[list[j]] => i = j
    PROVE  ListedGuestIsServed' /\ ttyd' = [n \in Names |-> ttyd'[n]]
  <1>1. ttyd' = Reregister(ttyd, list) /\ trusted' = TrustedIssuers(list)
    BY DEF Rewire
  <1>2. ASSUME NEW m \in InList(list) PROVE ttyd'[NameOf[m]] = m /\ (m \in issuers => IssuerOf[m] \in trusted')
    <2>1. PICK k \in 1..Len(list) : m = list[k]
      BY DEF InList
    <2>2. ttyd'[NameOf[m]] = m
      BY <1>1, <2>1, ReregisterServes
    <2>3. m \in issuers => IssuerOf[m] \in trusted'
      BY <1>1 DEF TrustedIssuers
    <2> QED
      BY <2>2, <2>3
  <1>3. ListedGuestIsServed'
    BY <1>2 DEF ListedGuestIsServed
  <1>4. ttyd' = [n \in Names |-> ttyd'[n]]
    BY <1>1 DEF Reregister
  <1> QED
    BY <1>3, <1>4

\* A list stays good when no page asks for more than before.
LEMMA ListStaysGood ==
    ASSUME NEW list \in Seq(Machines), GoodList(list), requested \subseteq requested',
           \A p \in Pages : page'[p] \in Asking => page[p] \in Asking /\ wants'[p] = wants[p]
    PROVE  /\ \A i, j \in 1..Len(list) : NameOf[list[i]] = NameOf[list[j]] => i = j
           /\ \A i \in 1..Len(list) : list[i] \in requested'
           /\ \A i \in 1..Len(list), p \in Pages : page'[p] \in Asking => wants'[p] # list[i]
  BY DEF GoodList

\* A list without some of its entries.
LEMMA FewerIsGood ==
    ASSUME NEW list \in Seq(Machines), GoodList(list), NEW I \in SUBSET DOMAIN list
    PROVE  /\ AtIndices(list, I) \in Seq(Machines) /\ GoodList(AtIndices(list, I))
           /\ \A k \in 1..Len(AtIndices(list, I)) : \E i \in I : AtIndices(list, I)[k] = list[i]
  <1>1. PICK b : b = AtIndices(list, I)
    OBVIOUS
  <1>2. PICK g : /\ Picks(g, I) /\ b = [k \in 1..Cardinality(I) |-> list[g[k]]]
                 /\ b \in Seq(Machines) /\ Len(b) = Cardinality(I) /\ Cardinality(I) \in Nat
    BY <1>1, AtIndicesPicks
  <1>3. /\ g \in [1..Len(b) -> I]
        /\ \A k, l \in 1..Len(b) : k < l => g[k] < g[l]
    BY <1>2 DEF Picks
  <1>4. ASSUME NEW k \in 1..Len(b) PROVE g[k] \in I /\ g[k] \in 1..Len(list) /\ b[k] = list[g[k]]
    <2>1. g[k] \in I
      BY <1>3
    <2>2. b[k] = list[g[k]]
      BY <1>2
    <2> QED
      BY <2>1, <2>2
  <1>5. ASSUME NEW k \in 1..Len(b), NEW l \in 1..Len(b), NameOf[b[k]] = NameOf[b[l]] PROVE k = l
    <2>1. g[k] = g[l]
      BY <1>4, <1>5 DEF GoodList
    <2>2. g[k] \in Nat /\ ~(k < l) /\ ~(l < k)
      BY <1>3, <1>4, <2>1
    <2> QED
      BY <1>2, <2>2
  <1>6. GoodList(b)
    BY <1>4, <1>5 DEF GoodList
  <1> QED
    BY <1>1, <1>2, <1>4, <1>6

\* What every outcome of AcceptReturns has in common.
Returned(p) ==
    /\ page[p] = "provisioned" /\ requested' = requested
    /\ page' = [page EXCEPT ![p] = "idle"] /\ wants' = [wants EXCEPT ![p] = NoMachine]

\* The answer puts a machine that was asked for in front of the list.
LEMMA PersistIsGood ==
    ASSUME VmInv, NEW p \in Pages, Returned(p), NEW x, x = Persist(saved[p], wants[p])
    PROVE  /\ x \in Seq(Machines)
           /\ \A i, j \in 1..Len(x) : NameOf[x[i]] = NameOf[x[j]] => i = j
           /\ \A i \in 1..Len(x) : x[i] \in requested'
           /\ \A i \in 1..Len(x), q \in Pages : page'[q] \in Asking => wants'[q] # x[i]
  <1>1. PICK list \in Seq(Machines) : list = saved[p] /\ GoodList(list)
    BY DEF VmInv, VmTypeOK
  <1>2. PICK m \in Machines : m = wants[p] /\ m \in requested
    BY DEF VmInv, AskedOnce, Asking, Returned
  <1>3. PICK I \in SUBSET (DOMAIN list) : I = {i \in DOMAIN list : NameOf[list[i]] # NameOf[m]}
    OBVIOUS
  <1>4. PICK b \in Seq(Machines) : /\ b = AtIndices(list, I) /\ GoodList(b)
                                   /\ \A k \in 1..Len(b) : \E i \in I : b[k] = list[i]
    BY <1>1, FewerIsGood
  <1>5. x = <<m>> \o b
    BY <1>1, <1>2, <1>3, <1>4 DEF Persist
  <1>6. <<m>> \in Seq(Machines) /\ Len(<<m>>) = 1 /\ <<m>>[1] = m
    OBVIOUS
  <1>7. x \in Seq(Machines) /\ Len(x) = 1 + Len(b)
        /\ \A i \in 1..Len(x) : x[i] = IF i <= 1 THEN <<m>>[i] ELSE b[i - 1]
    BY <1>5, <1>6, ConcatProperties
  <1>8. \A i \in 1..Len(x) : IF i = 1 THEN x[i] = m ELSE i - 1 \in 1..Len(b) /\ x[i] = b[i - 1]
    BY <1>6, <1>7
  <1>9. \A k \in 1..Len(b) : NameOf[b[k]] # NameOf[m]
    BY <1>3, <1>4
  <1>10. ASSUME NEW i \in 1..Len(x), NEW j \in 1..Len(x), NameOf[x[i]] = NameOf[x[j]] PROVE i = j
    <2>1. CASE i = 1
      BY <1>8, <1>9, <1>10, <2>1
    <2>2. CASE j = 1
      BY <1>8, <1>9, <1>10, <2>2
    <2>3. CASE i # 1 /\ j # 1
      <3>1. PICK k \in 1..Len(b) : k = i - 1 /\ x[i] = b[k]
        BY <1>8, <2>3
      <3>2. PICK l \in 1..Len(b) : l = j - 1 /\ x[j] = b[l]
        BY <1>8, <2>3
      <3>3. k = l
        BY <1>4, <1>10, <3>1, <3>2 DEF GoodList
      <3> QED
        BY <3>1, <3>2, <3>3
    <2> QED
      BY <2>1, <2>2, <2>3
  <1>11. \A i \in 1..Len(x) : x[i] \in requested'
    BY <1>2, <1>4, <1>8 DEF GoodList, Returned
  <1>12. ASSUME NEW i \in 1..Len(x), NEW q \in Pages, page'[q] \in Asking PROVE wants'[q] # x[i]
    <2>1. q # p /\ page[q] \in Asking /\ wants'[q] = wants[q]
      BY <1>12 DEF VmInv, VmTypeOK, Asking, Returned
    <2>2. wants[q] # m
      BY <1>2, <2>1 DEF VmInv, AskedOnce, Asking, Returned
    <2>3. \A k \in 1..Len(b) : wants[q] # b[k]
      BY <1>4, <2>1 DEF GoodList
    <2> QED
      BY <1>8, <2>1, <2>2, <2>3
  <1> QED
    BY <1>7, <1>10, <1>11, <1>12

\* A step that asks for nothing more and leaves the lists and the worker alone.
LEMMA OthersKeep ==
    ASSUME VmInv, VmTypeOK', UNCHANGED <<saved, disk, elected, ttyd, trusted, requested, latest>>,
           \A p \in Pages : page'[p] \in Asking => page[p] \in Asking /\ wants'[p] = wants[p],
           \A m \in InList(disk) : m \in issuers' => m \in issuers
    PROVE  VmInv'
  <1>1. AskedOnce'
    BY DEF VmInv, AskedOnce
  <1>2. GoodList(disk)'
    BY ListStaysGood DEF VmInv, VmTypeOK, GoodList
  <1>3. ASSUME NEW p \in Pages PROVE GoodList(saved[p])'
    <2>1. saved[p] \in Seq(Machines) /\ GoodList(saved[p])
      BY DEF VmInv, VmTypeOK
    <2>2. saved'[p] = saved[p]
      OBVIOUS
    <2> QED
      BY <2>1, <2>2, ListStaysGood DEF GoodList
  <1>4. ListedGuestIsServed'
    BY DEF VmInv, ListedGuestIsServed
  <1> QED
    BY <1>1, <1>2, <1>3, <1>4 DEF VmInv

\* Every step keeps the invariant.
LEMMA VmNextInv == VmInv /\ [VmNext]_vmVars => VmInv'
  <1> SUFFICES ASSUME VmInv, [VmNext]_vmVars PROVE VmInv'
    OBVIOUS
  <1>1. VmTypeOK /\ AskedOnce
    BY DEF VmInv
  <1>2. \A p \in Pages : saved[p] \in Seq(Machines) /\ GoodList(saved[p])
    BY DEF VmInv, VmTypeOK
  <1>3. ASSUME NEW p \in Pages, OpenPage(p) PROVE VmInv'
    <2>1. /\ page' = [page EXCEPT ![p] = "idle"] /\ wants' = wants /\ requested' = requested
          /\ saved' = [saved EXCEPT ![p] = disk] /\ disk' = disk /\ latest' = latest
          /\ elected' = Append(elected, p) /\ issuers' = issuers /\ Rewire(disk)
      BY <1>3 DEF OpenPage
    <2>2. \A q \in Pages : page'[q] \in Asking => page[q] \in Asking /\ wants'[q] = wants[q]
      BY <1>1, <2>1 DEF VmTypeOK, Asking
    <2>3. disk \in Seq(Machines) /\ GoodList(disk)
      BY DEF VmInv, VmTypeOK
    <2>4. ListedGuestIsServed' /\ ttyd' = [n \in Names |-> ttyd'[n]]
      BY <1>1, <2>1, <2>3, RewireServes DEF GoodList
    <2>6. VmTypeOK'
      BY <1>1, <2>1, <2>3, <2>4 DEF VmTypeOK
    <2>7. AskedOnce'
      BY <1>1, <2>1, <2>2 DEF AskedOnce
    <2>8. GoodList(disk)'
      BY <2>1, <2>2, <2>3, ListStaysGood DEF GoodList
    <2>9. ASSUME NEW q \in Pages PROVE GoodList(saved[q])'
      <3>1. PICK list \in Seq(Machines) : list = saved'[q] /\ GoodList(list)
        BY <1>1, <1>2, <2>1, <2>3 DEF VmTypeOK
      <3> QED
        BY <2>1, <2>2, <3>1, ListStaysGood DEF GoodList
    <2> QED
      BY <2>4, <2>6, <2>7, <2>8, <2>9 DEF VmInv
  <1>4. ASSUME NEW p \in Pages, ClosePage(p) PROVE VmInv'
    <2>1. /\ page' = [page EXCEPT ![p] = "closed"] /\ wants' = [wants EXCEPT ![p] = NoMachine]
          /\ requested' = requested /\ latest' = latest /\ issuers' = issuers
          /\ saved' = [saved EXCEPT ![p] = <<>>] /\ disk' = disk
          /\ elected' = RemoveFirst(elected, p)
          /\ \/ elected' = <<>> /\ ttyd' = [n \in Names |-> NoMachine]
             \/ elected' # <<>> /\ ttyd' = ttyd /\ trusted' = trusted
      BY <1>4 DEF ClosePage, workerVars
    <2>2. \A q \in Pages : page'[q] \in Asking => page[q] \in Asking /\ wants'[q] = wants[q]
      BY <1>1, <2>1 DEF VmTypeOK, Asking
    <2>3. elected = <<>> => elected' = <<>>
      BY <2>1, RemoveFromNone
    <2>4. ListedGuestIsServed'
      BY <2>1, <2>3 DEF VmInv, ListedGuestIsServed
    <2>5. <<>> \in Seq(Machines) /\ Len(<<>>) = 0
      OBVIOUS
    <2>6. VmTypeOK'
      <3>1. ttyd' = [n \in Names |-> ttyd'[n]]
        BY <1>1, <2>1 DEF VmTypeOK
      <3> QED
        BY <1>1, <2>1, <2>3, <2>5, <3>1 DEF VmTypeOK
    <2>7. AskedOnce'
      BY <1>1, <2>1, <2>2 DEF AskedOnce
    <2>8. GoodList(disk)'
      BY <2>1, <2>2, ListStaysGood DEF GoodList, VmInv, VmTypeOK
    <2>9. ASSUME NEW q \in Pages PROVE GoodList(saved[q])'
      <3>1. CASE q = p
        BY <1>1, <2>1, <2>5, <3>1 DEF VmTypeOK, GoodList
      <3>2. CASE q # p
        <4>1. saved'[q] = saved[q]
          BY <1>1, <2>1, <3>2 DEF VmTypeOK
        <4>2. PICK list \in Seq(Machines) : list = saved[q] /\ GoodList(list)
          BY <1>2
        <4>3. requested \subseteq requested'
          BY <2>1
        <4>4. /\ \A i, j \in 1..Len(list) : NameOf[list[i]] = NameOf[list[j]] => i = j
              /\ \A i \in 1..Len(list) : list[i] \in requested'
              /\ \A i \in 1..Len(list), o \in Pages : page'[o] \in Asking => wants'[o] # list[i]
          BY <2>2, <4>2, <4>3, ListStaysGood
        <4> QED
          BY <4>1, <4>2, <4>4 DEF GoodList
      <3> QED
        BY <3>1, <3>2
    <2> QED
      BY <2>4, <2>6, <2>7, <2>8, <2>9 DEF VmInv
  <1>5. ASSUME NEW p \in Pages, NEW m \in Machines, Submit(p, m) PROVE VmInv'
    <2>1. /\ page[p] = "idle" /\ m \notin requested
          /\ page' = [page EXCEPT ![p] = "asking"] /\ wants' = [wants EXCEPT ![p] = m]
          /\ requested' = requested \cup {m} /\ issuers' = issuers
          /\ latest' = [latest EXCEPT ![NameOf[m]] = m] /\ ttyd' = [ttyd EXCEPT ![NameOf[m]] = m]
          /\ saved' = saved /\ disk' = disk /\ elected' = elected /\ trusted' = trusted
      BY <1>5 DEF Submit
    <2>2. /\ page'[p] = "asking" /\ wants'[p] = m
          /\ \A q \in Pages : q # p => page'[q] = page[q] /\ wants'[q] = wants[q]
      BY <1>1, <2>1 DEF VmTypeOK
    <2>3. VmTypeOK'
      BY <1>1, <2>1 DEF VmTypeOK, Asking
    <2>4. AskedOnce'
      BY <1>1, <2>1, <2>2 DEF AskedOnce
    <2>5. ASSUME NEW list \in Seq(Machines), GoodList(list)
          PROVE  /\ \A i, j \in 1..Len(list) : NameOf[list[i]] = NameOf[list[j]] => i = j
                 /\ \A i \in 1..Len(list) : list[i] \in requested' /\ list[i] # m
                 /\ \A i \in 1..Len(list), q \in Pages : page'[q] \in Asking => wants'[q] # list[i]
      <3>1. \A i \in 1..Len(list) : list[i] \in requested' /\ list[i] # m
        BY <2>1, <2>5 DEF GoodList
      <3> QED
        BY <2>2, <2>5, <3>1 DEF GoodList
    <2>6. disk \in Seq(Machines) /\ GoodList(disk)
      BY DEF VmInv, VmTypeOK
    <2>7. GoodList(disk)'
      <3>1. PICK list \in Seq(Machines) : list = disk' /\ GoodList(list)
        BY <2>1, <2>6
      <3> QED
        BY <2>5, <3>1 DEF GoodList
    <2>8. ASSUME NEW q \in Pages PROVE GoodList(saved[q])'
      <3>1. PICK list \in Seq(Machines) : list = saved'[q] /\ GoodList(list)
        BY <1>2, <2>1
      <3> QED
        BY <2>5, <3>1 DEF GoodList
    <2>9. NameOf[m] \in Names
      BY DEF Names
    <2>10. ListedGuestIsServed'
      <3> SUFFICES ASSUME elected # <<>>, NEW o \in InList(disk)
                   PROVE  /\ latest'[NameOf[o]] = o => ttyd'[NameOf[o]] = o
                          /\ o \in issuers => IssuerOf[o] \in trusted
        BY <2>1 DEF ListedGuestIsServed
      <3>1. o \in Machines /\ o # m
        BY <2>5, <2>6 DEF InList
      <3>2. NameOf[o] \in Names
        BY <3>1 DEF Names
      <3>3. latest[NameOf[o]] = o => ttyd[NameOf[o]] = o
        BY DEF VmInv, ListedGuestIsServed
      <3>4. CASE NameOf[o] = NameOf[m]
        <4>1. latest'[NameOf[o]] = m
          BY <1>1, <2>1, <2>9, <3>4 DEF VmTypeOK
        <4> QED
          BY <3>1, <4>1 DEF VmInv, ListedGuestIsServed
      <3>5. CASE NameOf[o] # NameOf[m]
        <4>1. latest'[NameOf[o]] = latest[NameOf[o]] /\ ttyd'[NameOf[o]] = ttyd[NameOf[o]]
          BY <1>1, <2>1, <3>2, <3>5 DEF VmTypeOK
        <4> QED
          BY <3>3, <4>1 DEF VmInv, ListedGuestIsServed
      <3> QED
        BY <3>4, <3>5
    <2> QED
      BY <2>3, <2>4, <2>7, <2>8, <2>10 DEF VmInv
  <1>6. ASSUME NEW p \in Pages, CollectBids(p) \/ SubmitAccept(p) PROVE VmInv'
    <2>1. /\ UNCHANGED <<saved, disk, elected, ttyd, trusted, requested, latest, issuers>>
          /\ page[p] \in Asking
          /\ \/ \E x \in Asking : page' = [page EXCEPT ![p] = x] /\ wants' = wants
             \/ page' = [page EXCEPT ![p] = "idle"] /\ wants' = [wants EXCEPT ![p] = NoMachine]
      BY <1>6 DEF CollectBids, SubmitAccept, workerVars, Asking
    <2>2. \A q \in Pages : page'[q] \in Asking => page[q] \in Asking /\ wants'[q] = wants[q]
      BY <1>1, <2>1 DEF VmTypeOK, Asking
    <2>3. VmTypeOK'
      BY <1>1, <2>1 DEF VmTypeOK, Asking
    <2> QED
      BY <2>1, <2>2, <2>3, OthersKeep
  <1>7. ASSUME NEW p \in Pages, Award(p) PROVE VmInv'
    <2>1. /\ UNCHANGED <<saved, disk, elected, ttyd, trusted, requested, latest>>
          /\ page[p] \in Asking /\ page' = [page EXCEPT ![p] = "accepting"] /\ wants' = wants
          /\ issuers' \subseteq issuers \cup {wants[p]}
      BY <1>7 DEF Award, workerVars, Asking
    <2>2. \A q \in Pages : page'[q] \in Asking => page[q] \in Asking /\ wants'[q] = wants[q]
      BY <1>1, <2>1 DEF VmTypeOK, Asking
    <2>3. VmTypeOK'
      BY <1>1, <2>1 DEF VmTypeOK, Asking
    <2>4. \A m \in InList(disk) : m \in issuers' => m \in issuers
      BY <2>1 DEF VmInv, GoodList, InList
    <2> QED
      BY <2>1, <2>2, <2>3, <2>4, OthersKeep
  <1>8. ASSUME NEW p \in Pages, AcceptReturns(p) PROVE VmInv'
    <2>1. /\ page[p] = "provisioned" /\ page' = [page EXCEPT ![p] = "idle"]
          /\ wants' = [wants EXCEPT ![p] = NoMachine]
          /\ UNCHANGED <<elected, issuers, requested, latest>>
      BY <1>8 DEF AcceptReturns
    <2>2. \A q \in Pages : page'[q] \in Asking => page[q] \in Asking /\ wants'[q] = wants[q]
      BY <1>1, <2>1 DEF VmTypeOK, Asking
    <2>3. CASE UNCHANGED <<saved, disk, workerVars>>
      <3>1. VmTypeOK'
        BY <1>1, <2>1, <2>3 DEF VmTypeOK, workerVars
      <3> QED
        BY <2>1, <2>2, <2>3, <3>1, OthersKeep DEF workerVars
    <2>4. ASSUME saved' = [saved EXCEPT ![p] = Persist(@, wants[p])], disk' = saved'[p], Rewire(disk')
          PROVE  VmInv'
      <3>1. PICK x : x = Persist(saved[p], wants[p])
        OBVIOUS
      <3>2. /\ x \in Seq(Machines)
            /\ \A i, j \in 1..Len(x) : NameOf[x[i]] = NameOf[x[j]] => i = j
            /\ \A i \in 1..Len(x) : x[i] \in requested'
            /\ \A i \in 1..Len(x), q \in Pages : page'[q] \in Asking => wants'[q] # x[i]
        <4>1. Returned(p)
          BY <2>1 DEF Returned
        <4> QED
          BY <3>1, <4>1, PersistIsGood
      <3>3. saved' = [saved EXCEPT ![p] = x] /\ disk' = x
        BY <1>1, <2>4, <3>1 DEF VmTypeOK
      <3>4. ListedGuestIsServed' /\ ttyd' = [n \in Names |-> ttyd'[n]]
        BY <1>1, <2>1, <2>4, <3>2, <3>3, RewireServes
      <3>5. VmTypeOK'
        BY <1>1, <2>1, <3>2, <3>3, <3>4 DEF VmTypeOK
      <3>6. AskedOnce'
        BY <1>1, <2>1, <2>2 DEF AskedOnce
      <3>7. GoodList(disk)'
        BY <3>2, <3>3 DEF GoodList
      <3>8. ASSUME NEW q \in Pages PROVE GoodList(saved[q])'
        <4>1. CASE q = p
          <5>1. saved'[q] = x
            BY <1>1, <3>3, <4>1 DEF VmTypeOK
          <5> QED
            BY <3>2, <5>1 DEF GoodList
        <4>2. CASE q # p
          <5>1. saved'[q] = saved[q]
            BY <1>1, <3>3, <4>2 DEF VmTypeOK
          <5>2. PICK list \in Seq(Machines) : list = saved[q] /\ GoodList(list)
            BY <1>2
          <5>3. requested \subseteq requested'
            BY <2>1
          <5>4. /\ \A i, j \in 1..Len(list) : NameOf[list[i]] = NameOf[list[j]] => i = j
                /\ \A i \in 1..Len(list) : list[i] \in requested'
                /\ \A i \in 1..Len(list), o \in Pages : page'[o] \in Asking => wants'[o] # list[i]
            BY <2>2, <5>2, <5>3, ListStaysGood
          <5> QED
            BY <5>1, <5>2, <5>4 DEF GoodList
        <4> QED
          BY <4>1, <4>2
      <3> QED
        BY <3>4, <3>5, <3>6, <3>7, <3>8 DEF VmInv
    <2> QED
      BY <1>8, <2>3, <2>4 DEF AcceptReturns
  <1>9. ASSUME NEW p \in Pages, NEW m \in Machines, DeleteVm(p, m) PROVE VmInv'
    <2>1. PICK I \in SUBSET (DOMAIN saved[p]) : I = {i \in DOMAIN saved[p] : saved[p][i] # m}
      OBVIOUS
    <2>2. PICK x : x = AtIndices(saved[p], I)
      OBVIOUS
    <2>3. x \in Seq(Machines) /\ GoodList(x)
      BY <1>2, <2>2, FewerIsGood
    <2>4. /\ saved' = [saved EXCEPT ![p] = x] /\ disk' = saved'[p] /\ Rewire(disk')
          /\ UNCHANGED <<page, wants, elected, issuers, requested, latest>>
      BY <1>9, <2>1, <2>2 DEF DeleteVm
    <2>5. disk' = x
      BY <1>1, <2>4 DEF VmTypeOK
    <2>6. ListedGuestIsServed' /\ ttyd' = [n \in Names |-> ttyd'[n]]
      BY <1>1, <2>3, <2>4, <2>5, RewireServes DEF GoodList
    <2>7. VmTypeOK'
      BY <1>1, <2>3, <2>4, <2>5, <2>6 DEF VmTypeOK
    <2>8. AskedOnce'
      BY <1>1, <2>4 DEF AskedOnce
    <2>9. GoodList(disk)'
      BY <2>3, <2>4, <2>5 DEF GoodList
    <2>10. ASSUME NEW q \in Pages PROVE GoodList(saved[q])'
      <3>1. PICK list \in Seq(Machines) : list = saved'[q] /\ GoodList(list)
        BY <1>1, <1>2, <2>3, <2>4 DEF VmTypeOK
      <3> QED
        BY <2>4, <3>1 DEF GoodList
    <2> QED
      BY <2>6, <2>7, <2>8, <2>9, <2>10 DEF VmInv
  <1>10. CASE UNCHANGED vmVars
    <2>1. VmTypeOK'
      BY <1>1, <1>10 DEF vmVars, VmTypeOK
    <2> QED
      BY <1>10, <2>1, OthersKeep DEF vmVars
  <1> QED
    BY <1>3, <1>4, <1>5, <1>6, <1>7, <1>8, <1>9, <1>10 DEF VmNext

\* THEOREM.  While a page is open, the worker serves the guest of every machine
\* of the stored list, for any pages, names and order of requests, failures,
\* reloads and deletions (vm-storage.ts, Dashboard.svelte).
THEOREM ListedGuestsAreServed == VmSpec => []ListedGuestIsServed
  <1>1. VmInv => ListedGuestIsServed
    BY DEF VmInv
  <1> QED
    BY <1>1, VmInitInv, VmNextInv, PTL DEF VmSpec

-----------------------------------------------------------------------------
(* LocalPds: one identity once the keys are settled                        *)

LocalTypeOK ==
    /\ DOMAIN relayBoot = SpaTabs /\ DOMAIN pdsBoot = SpaTabs
    /\ DOMAIN pdsKey = SpaTabs /\ DOMAIN pdsAtt = SpaTabs
    /\ DOMAIN settled = SpaTabs

\* A tab that opened when the keys were settled has them, and they are settled
\* still: nobody makes a key who could find one.
SettledHasTheKeys ==
    \A t \in SpaTabs : settled[t] =>
        /\ Quiet
        /\ pdsKey[t] = storedKey
        /\ pdsAtt[t] # NoKey => pdsAtt[t] = storedAtt

\* A PDS is up once the directory has its DID.
UpIsRegistered == \A t \in SpaTabs : pdsBoot[t] = "up" => DidOf(t) \in plcDids

\* A closed tab is not booting and has no keys.
ClosedTabIsEmpty ==
    \A t \in SpaTabs : relayBoot[t] = "off" => pdsBoot[t] = "off" /\ pdsAtt[t] = NoKey

LocalInv ==
    /\ LocalTypeOK /\ ClosedTabIsEmpty
    /\ SettledHasTheKeys /\ UpIsRegistered /\ CallersAreVerifiable

\* The initial states satisfy the invariant.
LEMMA LocalInitInv == LocalInit => LocalInv
  BY DEF LocalInit, LocalInv, LocalTypeOK, ClosedTabIsEmpty,
     SettledHasTheKeys, UpIsRegistered, CallersAreVerifiable

\* Keys that are settled stay as they are.
LEMMA QuietStays ==
    ASSUME LocalTypeOK, Quiet, NEW t \in SpaTabs,
           \/ OpenTab(t) \/ RelaySavesKey(t) \/ PdsRetriesKey(t) \/ PdsSavesKey(t)
           \/ LoadAttestationKey(t) \/ SaveAttestationKey(t) \/ ResolveDid(t) \/ SubmitOwnDid(t)
           \/ CloseTab(t) \/ \E x \in Targets : ForwardCall(t, x)
    PROVE  Quiet' /\ storedKey' = storedKey /\ storedAtt' = storedAtt
  <1>1. /\ storedKey # NoKey /\ storedAtt # NoKey
        /\ \A u \in SpaTabs : relayBoot[u] # "creating" /\ pdsBoot[u] \notin {"creating", "creatingAtt"}
    BY DEF Quiet
  <1>2. /\ storedKey' = storedKey /\ storedAtt' = storedAtt
        /\ \/ relayBoot' = relayBoot
           \/ \E to \in {"started", "off"} : relayBoot' = [relayBoot EXCEPT ![t] = to]
        /\ \/ pdsBoot' = pdsBoot
           \/ \E to \in {"off", "waiting", "keyed", "genesis", "submit", "up", "failed"} :
                  pdsBoot' = [pdsBoot EXCEPT ![t] = to]
    <2>1. CASE OpenTab(t)
      BY <1>1, <2>1 DEF OpenTab, ToPds
    <2>2. CASE PdsRetriesKey(t)
      BY <1>1, <2>2 DEF PdsRetriesKey, ToPds
    <2>3. CASE LoadAttestationKey(t)
      BY <1>1, <2>3 DEF LoadAttestationKey, ToPds
    <2>4. CASE ResolveDid(t)
      BY <2>4 DEF ResolveDid, ToPds
    <2>5. CASE SubmitOwnDid(t)
      BY <2>5 DEF SubmitOwnDid, ToPds
    <2>6. CASE CloseTab(t)
      BY <2>6 DEF CloseTab, ToPds
    <2>7. CASE \E x \in Targets : ForwardCall(t, x)
      BY <2>7 DEF ForwardCall
    <2>8. ~RelaySavesKey(t) /\ ~PdsSavesKey(t) /\ ~SaveAttestationKey(t)
      BY <1>1 DEF RelaySavesKey, PdsSavesKey, SaveAttestationKey
    <2> QED
      BY <2>1, <2>2, <2>3, <2>4, <2>5, <2>6, <2>7, <2>8
  <1> QED
    BY <1>1, <1>2 DEF Quiet, LocalTypeOK

\* A tab that a step does not touch keeps its keys and its place in the boot.
TabRests(u) ==
    /\ pdsKey'[u] = pdsKey[u] /\ pdsAtt'[u] = pdsAtt[u]
    /\ pdsBoot'[u] = pdsBoot[u] /\ settled'[u] = settled[u] /\ relayBoot'[u] = relayBoot[u]

\* Every step keeps the invariant.
LEMMA LocalNextInv == LocalInv /\ [LocalNext]_localVars => LocalInv'
  <1> SUFFICES ASSUME LocalInv, [LocalNext]_localVars PROVE LocalInv'
    OBVIOUS
  <1>1. /\ LocalTypeOK /\ ClosedTabIsEmpty
        /\ SettledHasTheKeys /\ UpIsRegistered /\ CallersAreVerifiable
    BY DEF LocalInv
  <1>2. ASSUME NEW t \in SpaTabs,
           \/ OpenTab(t) \/ RelaySavesKey(t) \/ PdsRetriesKey(t) \/ PdsSavesKey(t)
           \/ LoadAttestationKey(t) \/ SaveAttestationKey(t) \/ ResolveDid(t) \/ SubmitOwnDid(t)
           \/ CloseTab(t) \/ \E x \in Targets : ForwardCall(t, x)
        PROVE LocalInv'
    <2>1. LocalTypeOK'
      BY <1>1, <1>2 DEF LocalTypeOK, OpenTab, RelaySavesKey, PdsRetriesKey, PdsSavesKey,
           LoadAttestationKey, SaveAttestationKey, ResolveDid, SubmitOwnDid, CloseTab, ForwardCall,
           ToPds
    <2>2. plcDids \subseteq plcDids'
      BY <1>2 DEF OpenTab, RelaySavesKey, PdsRetriesKey, PdsSavesKey,
           LoadAttestationKey, SaveAttestationKey, ResolveDid, SubmitOwnDid, CloseTab, ForwardCall
    <2>3. \A u \in SpaTabs \ {t} : TabRests(u)
      BY <1>1, <1>2 DEF LocalTypeOK, TabRests, OpenTab, RelaySavesKey, PdsRetriesKey, PdsSavesKey,
           LoadAttestationKey, SaveAttestationKey, ResolveDid, SubmitOwnDid, CloseTab, ForwardCall,
           ToPds
    <2>4. CallersAreVerifiable'
      <3>1. CASE \E x \in Targets : ForwardCall(t, x)
        <4>1. PICK x \in Targets : ForwardCall(t, x)
          BY <3>1
        <4>2. pdsBoot[t] = "up" /\ plcDids' = plcDids
              /\ forwarded' = forwarded \cup {[iss |-> DidOf(t), to |-> Endpoint(x), aud |-> Endpoint(x)]}
          BY <4>1 DEF ForwardCall
        <4> QED
          BY <1>1, <4>2 DEF UpIsRegistered, CallersAreVerifiable
      <3>2. CASE forwarded' = forwarded
        BY <1>1, <2>2, <3>2 DEF CallersAreVerifiable
      <3> QED
        BY <1>2, <3>1, <3>2 DEF OpenTab, RelaySavesKey, PdsRetriesKey, PdsSavesKey,
           LoadAttestationKey, SaveAttestationKey, ResolveDid, SubmitOwnDid, CloseTab
    <2>5. UpIsRegistered'
      <3>1. pdsBoot'[t] = "up" => <<pdsKey'[t], pdsAtt'[t]>> \in plcDids'
        <4>1. CASE ResolveDid(t)
          BY <1>1, <4>1 DEF ResolveDid, ToPds, DidOf, LocalTypeOK
        <4>2. CASE SubmitOwnDid(t)
          BY <1>1, <4>2 DEF SubmitOwnDid, ToPds, DidOf, LocalTypeOK
        <4>3. CASE \E x \in Targets : ForwardCall(t, x)
          BY <1>1, <4>3 DEF ForwardCall, UpIsRegistered, DidOf
        <4>4. CASE OpenTab(t) \/ PdsRetriesKey(t) \/ PdsSavesKey(t) \/ LoadAttestationKey(t)
                   \/ SaveAttestationKey(t) \/ CloseTab(t)
          BY <1>1, <4>4 DEF LocalTypeOK, OpenTab, PdsRetriesKey, PdsSavesKey, LoadAttestationKey,
               SaveAttestationKey, CloseTab, ToPds
        <4>5. CASE RelaySavesKey(t)
          BY <1>1, <4>5 DEF RelaySavesKey, UpIsRegistered, DidOf
        <4> QED
          BY <1>2, <4>1, <4>2, <4>3, <4>4, <4>5
      <3>2. \A u \in SpaTabs \ {t} : pdsBoot'[u] = "up" => <<pdsKey'[u], pdsAtt'[u]>> \in plcDids'
        BY <1>1, <2>2, <2>3 DEF TabRests, UpIsRegistered, DidOf
      <3> QED
        BY <3>1, <3>2 DEF UpIsRegistered, DidOf
    <2>6. SettledHasTheKeys'
      <3> SUFFICES ASSUME NEW u \in SpaTabs, settled'[u]
                   PROVE  /\ Quiet'
                          /\ pdsKey'[u] = storedKey'
                          /\ pdsAtt'[u] # NoKey => pdsAtt'[u] = storedAtt'
        BY DEF SettledHasTheKeys
      <3>1. CASE u # t
        <4>1. TabRests(u) /\ settled[u]
          BY <2>3, <3>1 DEF TabRests
        <4>2. Quiet /\ pdsKey[u] = storedKey /\ (pdsAtt[u] # NoKey => pdsAtt[u] = storedAtt)
          BY <1>1, <4>1 DEF SettledHasTheKeys
        <4>3. Quiet' /\ storedKey' = storedKey /\ storedAtt' = storedAtt
          BY <1>1, <1>2, <4>2, QuietStays
        <4> QED
          BY <4>1, <4>2, <4>3 DEF TabRests
      <3>2. CASE u = t
        <4>1. CASE OpenTab(t)
          <5>1. Quiet /\ pdsAtt' = pdsAtt
            BY <1>1, <3>2, <4>1 DEF OpenTab, LocalTypeOK
          <5>2. storedKey # NoKey
            BY <5>1 DEF Quiet
          <5>3. pdsKey'[t] = storedKey
            BY <1>1, <4>1, <5>2 DEF OpenTab, LocalTypeOK
          <5>4. Quiet' /\ storedKey' = storedKey /\ storedAtt' = storedAtt
            BY <1>1, <4>1, <5>1, QuietStays
          <5>5. pdsAtt[t] = NoKey
            BY <1>1, <4>1 DEF ClosedTabIsEmpty, OpenTab
          <5> QED
            BY <3>2, <5>1, <5>3, <5>4, <5>5
        <4>2. CASE ~OpenTab(t)
          <5>1. settled[t] /\ ~CloseTab(t)
            BY <1>1, <1>2, <3>2, <4>2 DEF LocalTypeOK, OpenTab, RelaySavesKey, PdsRetriesKey,
                 PdsSavesKey, LoadAttestationKey, SaveAttestationKey, ResolveDid, SubmitOwnDid,
                 CloseTab, ForwardCall
          <5>2. Quiet /\ pdsKey[t] = storedKey /\ (pdsAtt[t] # NoKey => pdsAtt[t] = storedAtt)
            BY <1>1, <5>1 DEF SettledHasTheKeys
          <5>3. Quiet' /\ storedKey' = storedKey /\ storedAtt' = storedAtt
            BY <1>1, <1>2, <5>2, QuietStays
          <5>4. pdsKey'[t] = storedKey /\ (pdsAtt'[t] = pdsAtt[t] \/ pdsAtt'[t] = storedAtt)
            <6>1. /\ storedKey # NoKey /\ storedAtt # NoKey
                  /\ ~RelaySavesKey(t) /\ ~PdsSavesKey(t) /\ ~SaveAttestationKey(t)
              BY <5>2 DEF Quiet, RelaySavesKey, PdsSavesKey, SaveAttestationKey
            <6> QED
              BY <1>1, <1>2, <4>2, <5>1, <5>2, <6>1 DEF LocalTypeOK, PdsRetriesKey,
                   LoadAttestationKey, ResolveDid, SubmitOwnDid, ForwardCall
          <5> QED
            BY <3>2, <5>2, <5>3, <5>4
        <4> QED
          BY <4>1, <4>2
      <3> QED
        BY <3>1, <3>2
    <2>7. ClosedTabIsEmpty'
      <3>1. relayBoot'[t] = "off" => pdsBoot'[t] = "off" /\ pdsAtt'[t] = NoKey
        <4>1. CASE OpenTab(t)
          BY <1>1, <4>1 DEF LocalTypeOK, OpenTab
        <4>2. CASE CloseTab(t)
          BY <1>1, <4>2 DEF LocalTypeOK, CloseTab, ToPds
        <4>3. CASE ~OpenTab(t) /\ ~CloseTab(t)
          BY <1>1, <1>2, <4>3 DEF LocalTypeOK, ClosedTabIsEmpty, RelaySavesKey, PdsRetriesKey,
               PdsSavesKey, LoadAttestationKey, SaveAttestationKey, ResolveDid, SubmitOwnDid,
               ForwardCall
        <4> QED
          BY <4>1, <4>2, <4>3
      <3> QED
        BY <1>1, <2>3, <3>1 DEF ClosedTabIsEmpty, TabRests
    <2> QED
      BY <2>1, <2>4, <2>5, <2>6, <2>7 DEF LocalInv
  <1>3. CASE UNCHANGED localVars
    BY <1>1, <1>3 DEF localVars, LocalInv, LocalTypeOK, ClosedTabIsEmpty, SettledHasTheKeys, Quiet,
         UpIsRegistered, DidOf, CallersAreVerifiable
  <1> QED
    BY <1>2, <1>3 DEF LocalNext

\* Tabs that open after the keys were settled are one identity, and nobody is
\* called in the name of a DID the directory does not know (local-pds.ts).
THEOREM IdentityHolds == LocalSpec => []IdentityIsSound
  <1>1. LocalSpec => []LocalInv
    BY LocalInitInv, LocalNextInv, PTL DEF LocalSpec
  <1>2. LocalInv => IdentityIsSound
    BY DEF LocalInv, SettledHasTheKeys, IdentityIsSound, LateTabsShareIdentity, DidOf
  <1> QED
    BY <1>1, <1>2, PTL

-----------------------------------------------------------------------------
(* SpindleViewer: no stream is forgotten, and what is listed is stored     *)

\* The streams of one kind: at most the active one is up, and it is.
OneUp(sockets, at) ==
    /\ at \in Nat /\ at <= Len(sockets)
    /\ \A s \in 1..Len(sockets) : sockets[s].up <=> s = at

FeedRecords == [spindle : STRING, up : BOOLEAN]
LogRecords == [repo : Repositories, key : RunKeys, up : BOOLEAN]

HashIsGood ==
    /\ hash \in Route \cup {[repo |-> NoRepo, key |-> NoRun]}
    /\ hashEvents \in Nat
    /\ hash.repo = NoRepo => hashEvents = 0

ViewerTypeOK ==
    /\ view \in Repositories \cup {NoRepo}
    /\ \A l \in loads : l.route \in Route
    /\ DOMAIN stored = Repositories
    /\ HashIsGood

ViewerInv ==
    /\ ViewerTypeOK
    /\ feeds \in Seq(FeedRecords) /\ OneUp(feeds, feed)
    /\ logs \in Seq(LogRecords) /\ OneUp(logs, log)
    /\ ListedRunsAreStored

\* The initial states satisfy the invariant.
LEMMA ViewerInitInv == ViewerInit => ViewerInv
  <1> SUFFICES ASSUME ViewerInit PROVE ViewerInv
    OBVIOUS
  <1>1. <<>> \in Seq(FeedRecords) /\ <<>> \in Seq(LogRecords) /\ Len(<<>>) = 0
    OBVIOUS
  <1>2. ViewerTypeOK
    BY DEF ViewerInit, ViewerTypeOK, HashIsGood
  <1> QED
    BY <1>1, <1>2 DEF ViewerInit, ViewerInv, OneUp, ListedRunsAreStored

\* The records of both kinds of stream can be marked as closed.
Closable(S) == \A x \in S : [x EXCEPT !.up = FALSE] \in S /\ [x EXCEPT !.up = FALSE].up = FALSE

\* Closing the active stream leaves none up.
LEMMA ClosedIsDown ==
    ASSUME NEW S, NEW socks \in Seq(S), NEW a, OneUp(socks, a), Closable(S)
    PROVE  /\ Closed(socks, a) \in Seq(S) /\ OneUp(Closed(socks, a), 0)
           /\ Len(Closed(socks, a)) = Len(socks)
  <1>1. CASE a = 0
    BY <1>1 DEF Closed
  <1>2. CASE a # 0
    <2>1. a \in 1..Len(socks)
      BY <1>2 DEF OneUp
    <2>2. PICK x \in S : x = socks[a]
      BY <2>1
    <2>3. PICK y \in S : y = [x EXCEPT !.up = FALSE] /\ y.up = FALSE
      BY <2>2 DEF Closable
    <2>4. PICK c : c = [socks EXCEPT ![a] = y]
      OBVIOUS
    <2>5. Closed(socks, a) = c
      BY <1>2, <2>2, <2>3, <2>4 DEF Closed
    <2>6. c \in Seq(S) /\ Len(c) = Len(socks) /\ \A j \in 1..Len(socks) : c[j] = IF j = a THEN y ELSE socks[j]
      BY <2>1, <2>4, ExceptSeq
    <2>7. \A s \in 1..Len(c) : c[s].up <=> s = 0
      <3> SUFFICES ASSUME NEW s \in 1..Len(c) PROVE ~c[s].up
        OBVIOUS
      <3>1. CASE s = a
        BY <2>3, <2>6, <3>1
      <3>2. CASE s # a
        BY <2>6, <3>2 DEF OneUp
      <3> QED
        BY <3>1, <3>2
    <2>8. OneUp(c, 0)
      BY <2>6, <2>7 DEF OneUp
    <2> QED
      BY <2>5, <2>6, <2>8
  <1> QED
    BY <1>1, <1>2

\* A new stream after the old one was closed is the one that is up.
LEMMA AppendIsUp ==
    ASSUME NEW S, NEW socks \in Seq(S), OneUp(socks, 0), NEW x \in S, x.up = TRUE
    PROVE  Append(socks, x) \in Seq(S) /\ OneUp(Append(socks, x), Len(socks) + 1)
  <1>1. PICK c : c = Append(socks, x)
    OBVIOUS
  <1>2. /\ c \in Seq(S) /\ Len(c) = Len(socks) + 1 /\ c[Len(socks) + 1] = x
        /\ \A i \in 1..Len(socks) : c[i] = socks[i]
    BY <1>1, AppendProperties
  <1>3. \A s \in 1..Len(c) : c[s].up <=> s = Len(socks) + 1
    <2> SUFFICES ASSUME NEW s \in 1..Len(c) PROVE c[s].up <=> s = Len(socks) + 1
      OBVIOUS
    <2>1. CASE s = Len(socks) + 1
      BY <1>2, <2>1
    <2>2. CASE s # Len(socks) + 1
      <3>1. s \in 1..Len(socks) /\ c[s] = socks[s] /\ s # 0
        BY <1>2, <2>2
      <3> QED
        BY <2>2, <3>1 DEF OneUp
    <2> QED
      BY <2>1, <2>2
  <1>4. OneUp(c, Len(socks) + 1)
    BY <1>2, <1>3 DEF OneUp
  <1> QED
    BY <1>1, <1>2, <1>4

\* A stream that ends by itself is closed; were it not the active one, it would
\* not have been up.
LEMMA EndedIsDown ==
    ASSUME NEW S, NEW socks \in Seq(S), NEW a, OneUp(socks, a), NEW s \in DOMAIN socks, socks[s].up,
           Closable(S)
    PROVE  /\ [socks EXCEPT ![s].up = FALSE] \in Seq(S) /\ OneUp([socks EXCEPT ![s].up = FALSE], 0)
           /\ s = a
  <1>1. s \in 1..Len(socks) /\ s = a /\ a # 0
    BY DEF OneUp
  <1>2. PICK c : c = [socks EXCEPT ![s].up = FALSE]
    OBVIOUS
  <1>3. c = Closed(socks, a)
    BY <1>1, <1>2 DEF Closed
  <1>4. c \in Seq(S) /\ OneUp(c, 0)
    BY <1>3, ClosedIsDown
  <1> QED
    BY <1>1, <1>2, <1>4

\* Both kinds of stream have such records.
LEMMA StreamRecords == Closable(FeedRecords) /\ Closable(LogRecords)
  BY DEF FeedRecords, LogRecords, Closable

LogsAreGood == logs \in Seq(LogRecords) /\ OneUp(logs, log)
FeedsAreGood == feeds \in Seq(FeedRecords) /\ OneUp(feeds, feed)

\* Opening a log keeps one at most.
LEMMA LogOpens ==
    ASSUME LogsAreGood, NEW place \in Repositories, NEW key \in RunKeys, OpenLogStream(place, key)
    PROVE  LogsAreGood'
  <1>1. PICK rest : rest = Closed(logs, log)
    OBVIOUS
  <1>2. rest \in Seq(LogRecords) /\ OneUp(rest, 0) /\ Len(rest) = Len(logs)
    BY <1>1, StreamRecords, ClosedIsDown DEF LogsAreGood
  <1>3. CASE logs' = rest /\ log' = 0
    BY <1>2, <1>3 DEF LogsAreGood
  <1>4. CASE logs' = Append(rest, [repo |-> place, key |-> key, up |-> TRUE]) /\ log' = Len(logs) + 1
    <2>0. [repo |-> place, key |-> key, up |-> TRUE] \in LogRecords
      BY DEF LogRecords
    <2>1. PICK x \in LogRecords : x = [repo |-> place, key |-> key, up |-> TRUE] /\ x.up = TRUE
      BY <2>0
    <2>2. Append(rest, x) \in Seq(LogRecords) /\ OneUp(Append(rest, x), Len(rest) + 1)
      BY <1>2, <2>1, AppendIsUp
    <2> QED
      BY <1>2, <1>4, <2>1, <2>2 DEF LogsAreGood
  <1> QED
    BY <1>1, <1>3, <1>4 DEF OpenLogStream

\* Both streams are closed.
LEMMA BothClosed ==
    ASSUME FeedsAreGood, LogsAreGood, NEW route, LoadRepo(route)
    PROVE  FeedsAreGood' /\ LogsAreGood' /\ feed' = 0
  BY StreamRecords, ClosedIsDown DEF LoadRepo, FeedsAreGood, LogsAreGood

\* The feed of a view that is loaded replaces the one before.
LEMMA FeedStarts ==
    ASSUME FeedsAreGood, NEW place \in Repositories, StartEventsStream(place)
    PROVE  FeedsAreGood' /\ (feed' # 0 => listedRuns' = stored[place])
  <1>1. PICK rest : rest = Closed(feeds, feed)
    OBVIOUS
  <1>2. rest \in Seq(FeedRecords) /\ OneUp(rest, 0) /\ Len(rest) = Len(feeds)
    BY <1>1, StreamRecords, ClosedIsDown DEF FeedsAreGood
  <1>3. CASE feeds' = rest /\ feed' = 0
    BY <1>2, <1>3 DEF FeedsAreGood
  <1>4. ASSUME feeds' = Append(rest, [spindle |-> SpindleOf[place], up |-> TRUE]), feed' = Len(feeds) + 1
        PROVE  FeedsAreGood'
    <2>1. [spindle |-> SpindleOf[place], up |-> TRUE] \in FeedRecords
      BY ViewerAssumption DEF FeedRecords, ViewerAssumption
    <2>2. PICK x \in FeedRecords : x = [spindle |-> SpindleOf[place], up |-> TRUE] /\ x.up = TRUE
      BY <2>1
    <2>3. Append(rest, x) \in Seq(FeedRecords) /\ OneUp(Append(rest, x), Len(rest) + 1)
      BY <1>2, <2>2, AppendIsUp
    <2> QED
      BY <1>2, <1>4, <2>2, <2>3 DEF FeedsAreGood
  <1> QED
    BY <1>1, <1>3, <1>4 DEF StartEventsStream

\* The page sets the hash of a route.
LEMMA SetHashIsGood ==
    ASSUME HashIsGood, NEW route \in Route, SetHash(route)
    PROVE  HashIsGood' /\ route.repo # NoRepo
  <1>1. route.repo # NoRepo
    BY ViewerAssumption DEF ViewerAssumption, Route
  <1>2. CASE hash = route
    BY <1>2, <1>1 DEF SetHash, HashIsGood
  <1>3. CASE hash # route
    <2>1. hash' = route /\ hashEvents' = hashEvents + 1
      BY <1>3 DEF SetHash
    <2> QED
      BY <1>1, <2>1 DEF HashIsGood
  <1> QED
    BY <1>1, <1>2, <1>3

\* Every step keeps the invariant.
LEMMA ViewerNextInv == ViewerInv /\ [ViewerNext]_viewerVars => ViewerInv'
  <1> SUFFICES ASSUME ViewerInv, [ViewerNext]_viewerVars PROVE ViewerInv'
    OBVIOUS
  <1>1. ViewerTypeOK /\ FeedsAreGood /\ LogsAreGood /\ ListedRunsAreStored
    BY DEF ViewerInv, FeedsAreGood, LogsAreGood
  <1>2. ASSUME ViewerTypeOK', FeedsAreGood', LogsAreGood', ListedRunsAreStored' PROVE ViewerInv'
    BY <1>2 DEF ViewerInv, FeedsAreGood, LogsAreGood
  <1>3. ASSUME NEW l \in loads, RepoLoaded(l) PROVE ViewerInv'
    <2>1. PICK r \in Repositories, k \in RunKeys \cup {NoRun} : l.route.repo = r /\ l.route.key = k
      BY <1>1 DEF ViewerTypeOK, Route
    <2>2. FeedsAreGood' /\ (feed' # 0 => listedRuns' = stored[r])
      BY <1>1, <1>3, <2>1, FeedStarts DEF RepoLoaded
    <2>3. LogsAreGood'
      <3>1. CASE k = NoRun
        BY <1>1, <1>3, <2>1, <3>1 DEF RepoLoaded, LogsAreGood
      <3>2. CASE k # NoRun
        BY <1>1, <1>3, <2>1, <3>2, LogOpens DEF RepoLoaded
      <3> QED
        BY <3>1, <3>2
    <2>4. view' = r /\ stored' = stored /\ loads' \subseteq loads /\ UNCHANGED <<hash, hashEvents>>
      BY <1>3, <2>1 DEF RepoLoaded
    <2>5. ViewerTypeOK'
      BY <1>1, <2>4 DEF ViewerTypeOK, HashIsGood
    <2>6. ListedRunsAreStored'
      BY <2>2, <2>4 DEF ListedRunsAreStored
    <2> QED
      BY <1>2, <2>2, <2>3, <2>5, <2>6
  <1>4. ASSUME NEW l \in loads, RepoNotLoaded(l) PROVE ViewerInv'
    <2>1. ViewerTypeOK' /\ FeedsAreGood' /\ LogsAreGood' /\ ListedRunsAreStored'
      BY <1>1, <1>4 DEF RepoNotLoaded, ViewerTypeOK, HashIsGood, FeedsAreGood, LogsAreGood, ListedRunsAreStored, streamOfPage
    <2> QED
      BY <1>2, <2>1
  <1>5. ASSUME NEW r \in Repositories, NavigateToRepo(r) PROVE ViewerInv'
    <2>1. PICK route \in Route : route = [repo |-> r, key |-> NoRun]
      BY DEF Route
    <2>2. LoadRepo(route) /\ SetHash(route) /\ view' = view /\ listedRuns' = listedRuns /\ stored' = stored
      BY <1>5, <2>1 DEF NavigateToRepo
    <2>3. FeedsAreGood' /\ LogsAreGood' /\ feed' = 0
      BY <1>1, <2>2, BothClosed
    <2>4. ViewerTypeOK'
      <3>1. \A l \in loads' : l.route \in Route
        BY <1>1, <2>1, <2>2 DEF LoadRepo, ViewerTypeOK
      <3>2. HashIsGood'
        BY <1>1, <2>2, SetHashIsGood DEF ViewerTypeOK
      <3> QED
        BY <1>1, <2>2, <3>1, <3>2 DEF ViewerTypeOK
    <2>5. ListedRunsAreStored'
      BY <2>3 DEF ListedRunsAreStored
    <2> QED
      BY <1>2, <2>3, <2>4, <2>5
  <1>6. ASSUME NEW k \in RunKeys, NavigateToLogs(k) PROVE ViewerInv'
    <2>1. view \in Repositories /\ OpenLogStream(view, k) /\ SetHash([repo |-> view, key |-> k])
          /\ UNCHANGED <<view, loads, feeds, feed, listedRuns, stored>>
      BY <1>1, <1>6 DEF NavigateToLogs, ViewerTypeOK
    <2>2. LogsAreGood'
      BY <1>1, <2>1, LogOpens
    <2>3. HashIsGood'
      <3>1. [repo |-> view, key |-> k] \in Route
        BY <2>1 DEF Route
      <3> QED
        BY <1>1, <2>1, <3>1, SetHashIsGood DEF ViewerTypeOK
    <2>4. ViewerTypeOK'
      BY <1>1, <2>1, <2>3 DEF ViewerTypeOK
    <2>5. FeedsAreGood' /\ ListedRunsAreStored'
      BY <1>1, <2>1 DEF FeedsAreGood, ListedRunsAreStored
    <2> QED
      BY <1>2, <2>2, <2>4, <2>5
  <1>7. ASSUME NEW r \in Route, UserSetsHash(r) PROVE ViewerInv'
    <2>1. r.repo # NoRepo
      BY ViewerAssumption DEF ViewerAssumption, Route
    <2>2. ViewerTypeOK'
      BY <1>1, <1>7, <2>1 DEF UserSetsHash, ViewerTypeOK, HashIsGood
    <2>3. FeedsAreGood' /\ LogsAreGood' /\ ListedRunsAreStored'
      BY <1>1, <1>7 DEF UserSetsHash, FeedsAreGood, LogsAreGood, ListedRunsAreStored, streamOfPage
    <2> QED
      BY <1>2, <2>2, <2>3
  <1>8. CASE HandleHashChange
    <2>1. hash \in Route /\ UNCHANGED <<view, listedRuns, stored, hash>> /\ hashEvents' = hashEvents - 1
          /\ hashEvents > 0
      BY <1>1, <1>8 DEF HandleHashChange, ViewerTypeOK, HashIsGood
    <2>10. HashIsGood'
      <3>1. hash.repo # NoRepo
        BY <2>1, ViewerAssumption DEF ViewerAssumption, Route
      <3> QED
        BY <1>1, <2>1, <3>1 DEF ViewerTypeOK, HashIsGood
    <2>2. CASE suppress
      <3>1. UNCHANGED <<loads, feeds, feed, logs, log>>
        BY <1>8, <2>2 DEF HandleHashChange, streamOfPage
      <3>2. ViewerTypeOK'
        BY <1>1, <2>1, <2>10, <3>1 DEF ViewerTypeOK
      <3>3. FeedsAreGood' /\ LogsAreGood' /\ ListedRunsAreStored'
        BY <1>1, <2>1, <3>1 DEF FeedsAreGood, LogsAreGood, ListedRunsAreStored
      <3> QED
        BY <1>2, <3>2, <3>3
    <2>3. CASE ~suppress
      <3>1. LoadRepo(hash)
        BY <1>8, <2>3 DEF HandleHashChange
      <3>2. FeedsAreGood' /\ LogsAreGood' /\ feed' = 0
        BY <1>1, <3>1, BothClosed
      <3>3. \A l \in loads' : l.route \in Route
        BY <1>1, <2>1, <3>1 DEF LoadRepo, ViewerTypeOK
      <3>4. ViewerTypeOK'
        BY <1>1, <2>1, <2>10, <3>3 DEF ViewerTypeOK
      <3>5. ListedRunsAreStored'
        BY <3>2 DEF ListedRunsAreStored
      <3> QED
        BY <1>2, <3>2, <3>4, <3>5
    <2> QED
      BY <2>2, <2>3
  <1>9. CASE LogsDisconnect
    <2>1. LogsAreGood'
      BY <1>1, <1>9, StreamRecords, ClosedIsDown DEF LogsDisconnect, LogsAreGood
    <2>2. ViewerTypeOK' /\ FeedsAreGood' /\ ListedRunsAreStored'
      BY <1>1, <1>9 DEF LogsDisconnect, ViewerTypeOK, HashIsGood, FeedsAreGood, ListedRunsAreStored
    <2> QED
      BY <1>2, <2>1, <2>2
  <1>10. CASE Reload
    <2>1. feeds' = <<>> /\ feed' = 0 /\ logs' = <<>> /\ log' = 0 /\ view' = NoRepo
      BY <1>10 DEF Reload
    <2>2. <<>> \in Seq(FeedRecords) /\ <<>> \in Seq(LogRecords) /\ Len(<<>>) = 0
      OBVIOUS
    <2>3. FeedsAreGood' /\ LogsAreGood' /\ ListedRunsAreStored'
      BY <2>1, <2>2 DEF FeedsAreGood, LogsAreGood, ListedRunsAreStored, OneUp
    <2>4. \A l \in loads' : l.route \in Route
      BY <1>1, <1>10 DEF Reload, ViewerTypeOK, HashIsGood
    <2>5. ViewerTypeOK'
      BY <1>1, <1>10, <2>4 DEF Reload, ViewerTypeOK, HashIsGood
    <2> QED
      BY <1>2, <2>3, <2>5
  <1>11. ASSUME NEW s \in DOMAIN feeds, FeedCloses(s) PROVE ViewerInv'
    <2>1. feeds[s].up /\ feeds' = [feeds EXCEPT ![s].up = FALSE] /\ feed' = IF feed = s THEN 0 ELSE feed
      BY <1>11 DEF FeedCloses
    <2>2. feeds' \in Seq(FeedRecords) /\ OneUp(feeds', 0) /\ s = feed
      BY <1>1, <2>1, StreamRecords, EndedIsDown DEF FeedsAreGood
    <2>3. FeedsAreGood' /\ feed' = 0
      BY <2>1, <2>2 DEF FeedsAreGood
    <2>4. ViewerTypeOK' /\ LogsAreGood'
      BY <1>1, <1>11 DEF FeedCloses, ViewerTypeOK, HashIsGood, LogsAreGood
    <2>5. ListedRunsAreStored'
      BY <2>3 DEF ListedRunsAreStored
    <2> QED
      BY <1>2, <2>3, <2>4, <2>5
  <1>12. ASSUME NEW s \in DOMAIN feeds, NEW r \in Run, PipelineStatus(s, r) PROVE ViewerInv'
    <2>1. stored' = IF view = NoRepo THEN stored ELSE [stored EXCEPT ![view] = listedRuns']
      BY <1>12 DEF PipelineStatus
    <2>2. UNCHANGED <<view, loads, feeds, feed, logs, log, hash, suppress, hashEvents>>
      BY <1>12 DEF PipelineStatus, streamOfPage
    <2>3. DOMAIN stored' = Repositories /\ (view # NoRepo => stored'[view] = listedRuns')
      BY <1>1, <2>1 DEF ViewerTypeOK, HashIsGood
    <2>4. ViewerTypeOK' /\ FeedsAreGood' /\ LogsAreGood'
      BY <1>1, <2>2, <2>3 DEF ViewerTypeOK, HashIsGood, FeedsAreGood, LogsAreGood
    <2>5. ListedRunsAreStored'
      BY <2>2, <2>3 DEF ListedRunsAreStored
    <2> QED
      BY <1>2, <2>4, <2>5
  <1>13. ASSUME NEW s \in DOMAIN logs, LogCloses(s) PROVE ViewerInv'
    <2>1. logs[s].up /\ logs' = [logs EXCEPT ![s].up = FALSE] /\ log' = IF log = s THEN 0 ELSE log
      BY <1>13 DEF LogCloses
    <2>2. logs' \in Seq(LogRecords) /\ OneUp(logs', 0) /\ s = log
      BY <1>1, <2>1, StreamRecords, EndedIsDown DEF LogsAreGood
    <2>3. LogsAreGood'
      BY <2>1, <2>2 DEF LogsAreGood
    <2>4. ViewerTypeOK' /\ FeedsAreGood' /\ ListedRunsAreStored'
      BY <1>1, <1>13 DEF LogCloses, ViewerTypeOK, HashIsGood, FeedsAreGood, ListedRunsAreStored
    <2> QED
      BY <1>2, <2>3, <2>4
  <1>14. CASE TriggerPipeline \/ TriggerAnswered \/ UNCHANGED viewerVars
    <2>1. UNCHANGED <<view, loads, feeds, feed, logs, log, listedRuns, stored, hash, suppress, hashEvents>>
      BY <1>14 DEF TriggerPipeline, TriggerAnswered, viewerVars, streamOfPage
    <2>2. ViewerTypeOK' /\ FeedsAreGood' /\ LogsAreGood' /\ ListedRunsAreStored'
      BY <1>1, <2>1 DEF ViewerTypeOK, HashIsGood, FeedsAreGood, LogsAreGood, ListedRunsAreStored
    <2> QED
      BY <1>2, <2>2
  <1> QED
    BY <1>3, <1>4, <1>5, <1>6, <1>7, <1>8, <1>9, <1>10, <1>11, <1>12, <1>13, <1>14 DEF ViewerNext

\* THEOREM.  However loads, navigations, reloads and events overlap, the viewer
\* has forgotten no stream that is up, and the runs it lists while the feed of
\* a repository is up are those it has stored (spindle-viewer-spa/main.js).
THEOREM ViewerHolds == ViewerSpec => []ViewerIsSound
  <1>1. ViewerInv => ViewerIsSound
    <2> SUFFICES ASSUME ViewerInv PROVE ViewerIsSound
      OBVIOUS
    <2>1. DOMAIN feeds = 1..Len(feeds) /\ DOMAIN logs = 1..Len(logs)
      BY DEF ViewerInv
    <2> QED
      BY <2>1 DEF ViewerInv, OneUp, ViewerIsSound, NoForgottenStream
  <1> QED
    BY <1>1, ViewerInitInv, ViewerNextInv, PTL DEF ViewerSpec

-----------------------------------------------------------------------------
(* MarketGraph: a recording replays as what was seen                       *)

\* g gives the graph for each set of indices of events worked through.
Drawn(g, n, events, off) ==
    /\ g = [s \in SUBSET (1..n) |-> g[s]]
    /\ g[{}] = EmptyGraph
    /\ \A s \in SUBSET (1..n), x \in 1..n :
           IsMax(x, s) => g[s] = AddRecord(g[s \ {x}], events[x], off)

\* Folds works through the events by subsets of their indices, taking out the
\* largest one; there is such a function.
LEMMA DrawnExists ==
    ASSUME NEW events, NEW off, NEW m \in Nat
    PROVE  \E g : Drawn(g, m, events, off)
  <1> DEFINE S == {n \in Nat : \E g : Drawn(g, n, events, off)}
  <1>1. 0 \in S
    <2> DEFINE g == [s \in SUBSET (1..0) |-> EmptyGraph]
    <2>1. g = [s \in SUBSET (1..0) |-> g[s]] /\ g[{}] = EmptyGraph
      OBVIOUS
    <2>2. \A x \in 1..0 : FALSE
      OBVIOUS
    <2> HIDE DEF g
    <2>3. Drawn(g, 0, events, off)
      BY <2>1, <2>2 DEF Drawn
    <2> QED
      BY <2>3
  <1>2. ASSUME NEW n \in Nat, n \in S PROVE n + 1 \in S
    <2>1. PICK f : Drawn(f, n, events, off)
      BY <1>2
    <2> DEFINE N == n + 1
               g == [s \in SUBSET (1..N) |->
                        IF N \in s THEN AddRecord(f[s \ {N}], events[N], off) ELSE f[s]]
    <2>2. \A s \in SUBSET (1..N) : /\ N \notin s => s \in SUBSET (1..n)
                                   /\ s \ {N} \in SUBSET (1..n)
      <3>1. \A i \in 1..N : i # N => i \in 1..n
        OBVIOUS
      <3> HIDE DEF N
      <3> QED
        BY <3>1
    <2>3. g = [s \in SUBSET (1..N) |-> g[s]]
      OBVIOUS
    <2>4. g[{}] = EmptyGraph
      BY <2>1 DEF Drawn
    <2>5. ASSUME NEW s \in SUBSET (1..N), NEW x \in 1..N, IsMax(x, s)
          PROVE  g[s] = AddRecord(g[s \ {x}], events[x], off)
      <3>1. s \ {x} \in SUBSET (1..N)
        OBVIOUS
      <3>2. CASE N \in s
        <4>1. x = N
          <5>1. N <= x /\ x \in 1..N /\ N \in Nat
            BY <2>5, <3>2 DEF IsMax
          <5> QED
            BY <5>1
        <4>2. g[s] = AddRecord(f[s \ {N}], events[N], off)
          BY <3>2
        <4>3. g[s \ {N}] = f[s \ {N}]
          BY <3>1, <4>1
        <4> QED
          BY <4>1, <4>2, <4>3
      <3>3. CASE N \notin s
        <4>1. s \in SUBSET (1..n) /\ x \in s
          BY <2>2, <2>5, <3>3 DEF IsMax
        <4>2. x \in 1..n
          BY <4>1
        <4>3. g[s] = f[s] /\ g[s \ {x}] = f[s \ {x}]
          BY <3>1, <3>3
        <4>4. f[s] = AddRecord(f[s \ {x}], events[x], off)
          BY <2>1, <2>5, <4>1, <4>2 DEF Drawn
        <4> QED
          BY <4>3, <4>4
      <3> QED
        BY <3>2, <3>3
    <2> HIDE DEF g
    <2>6. Drawn(g, N, events, off)
      BY <2>3, <2>4, <2>5 DEF Drawn
    <2> QED
      BY <2>6
  <1>3. Nat \subseteq S
    <2> HIDE DEF S
    <2> QED
      BY <1>1, <1>2, SetInduction
  <1> QED
    BY <1>3

\* A replay draws one event after the other.
LEMMA ReplayIsDrawn ==
    ASSUME NEW T, NEW events \in Seq(T), NEW off
    PROVE  \E g : Drawn(g, Len(events), events, off) /\ Replay(events, off) = g[1..Len(events)]
  <1> DEFINE m == Len(events)
             D == DOMAIN events
             body(f, s) == IF s = {} THEN EmptyGraph
                           ELSE AddRecord(f[s \ {Max(s)}], events[Max(s)], off)
             it == CHOOSE f : f = [s \in SUBSET D |-> body(f, s)]
  <1>1. m \in Nat /\ D = 1..m
    OBVIOUS
  <1>2. \A s \in SUBSET (1..m), x \in 1..m : IsMax(x, s) => Max(s) = x /\ s # {}
    BY <1>1, IndexMax
  <1>3. \A s \in SUBSET (1..m) : s # {} => IsMax(Max(s), s) /\ Max(s) \in 1..m
    BY <1>1, IndexMax
  <1>4. it = [s \in SUBSET D |-> body(it, s)]
    <2>1. PICK g : Drawn(g, m, events, off)
      BY <1>1, DrawnExists
    <2>2. ASSUME NEW s \in SUBSET (1..m) PROVE g[s] = body(g, s)
      <3>1. CASE s = {}
        BY <2>1, <3>1 DEF Drawn
      <3>2. CASE s # {}
        BY <1>3, <2>1, <3>2 DEF Drawn
      <3> QED
        BY <3>1, <3>2
    <2>4. ASSUME NEW s \in SUBSET D PROVE g[s] = body(g, s)
      BY <1>1, <2>2
    <2>5. g = [s \in SUBSET D |-> g[s]]
      BY <1>1, <2>1 DEF Drawn
    <2>6. g = [s \in SUBSET D |-> body(g, s)]
      <3> HIDE DEF body, D
      <3> QED
        BY <2>4, <2>5
    <2> HIDE DEF body, D
    <2> QED
      BY <2>6
  <1>5. Replay(events, off) = it[D]
    BY DEF Replay, FoldLeft, MapThenFoldSet, AddRecord
  <1> HIDE DEF it
  <1>6. Drawn(it, m, events, off)
    <2>1. it = [s \in SUBSET (1..m) |-> it[s]]
      <3> HIDE DEF body, D
      <3> QED
        BY <1>1, <1>4
    <2>2. \A s \in SUBSET (1..m) : it[s] = body(it, s)
      <3> HIDE DEF body, D
      <3> QED
        BY <1>1, <1>4
    <2>3. it[{}] = EmptyGraph
      BY <2>2
    <2>4. ASSUME NEW s \in SUBSET (1..m), NEW x \in 1..m, IsMax(x, s)
          PROVE  it[s] = AddRecord(it[s \ {x}], events[x], off)
      BY <1>2, <2>2, <2>4
    <2> QED
      BY <2>1, <2>3, <2>4 DEF Drawn
  <1> QED
    BY <1>1, <1>5, <1>6

\* A replay of one event more draws that event last, and one of no events is
\* empty.
LEMMA ReplayGrows ==
    ASSUME NEW T, NEW events \in Seq(T), NEW off, NEW e \in T
    PROVE  /\ Replay(<<>>, off) = EmptyGraph
           /\ Replay(Append(events, e), off) = AddRecord(Replay(events, off), e, off)
  <1>1. Replay(<<>>, off) = EmptyGraph
    <2>1. <<>> \in Seq(T) /\ Len(<<>>) = 0 /\ 1..0 = {}
      OBVIOUS
    <2>2. PICK g : Drawn(g, 0, <<>>, off) /\ Replay(<<>>, off) = g[1..0]
      BY <2>1, ReplayIsDrawn
    <2> QED
      BY <2>1, <2>2 DEF Drawn
  <1>2. PICK m \in Nat : m = Len(events)
    OBVIOUS
  <1>3. PICK more : more = Append(events, e)
    OBVIOUS
  <1>4. /\ more \in Seq(T) /\ Len(more) = m + 1 /\ more[m + 1] = e
        /\ \A i \in 1..m : more[i] = events[i]
    BY <1>2, <1>3, AppendProperties
  <1>5. PICK f : Drawn(f, m, events, off) /\ Replay(events, off) = f[1..m]
    BY <1>2, ReplayIsDrawn
  <1>6. PICK g : Drawn(g, m + 1, more, off) /\ Replay(more, off) = g[1..(m + 1)]
    BY <1>4, ReplayIsDrawn
  <1>7. ASSUME NEW k \in Nat
        PROVE  /\ IsMax(k + 1, 1..(k + 1)) /\ (1..(k + 1)) \ {k + 1} = 1..k
               /\ k + 1 <= m => 1..(k + 1) \in SUBSET (1..m) /\ k + 1 \in 1..m
               /\ k <= m => 1..(k + 1) \in SUBSET (1..(m + 1)) /\ k + 1 \in 1..(m + 1)
    BY DEF IsMax
  <1> DEFINE S == {k \in Nat : k <= m => f[1..k] = g[1..k]}
  <1>8. 0 \in S
    <2>1. 1..0 = {}
      OBVIOUS
    <2>2. f[{}] = EmptyGraph /\ g[{}] = EmptyGraph
      BY <1>5, <1>6 DEF Drawn
    <2>3. f[1..0] = g[1..0]
      BY <2>1, <2>2
    <2> QED
      BY <2>3
  <1>9. ASSUME NEW k \in Nat, k \in S PROVE k + 1 \in S
    <2> SUFFICES ASSUME k + 1 <= m PROVE f[1..(k + 1)] = g[1..(k + 1)]
      BY DEF S
    <2>1. k <= m /\ f[1..k] = g[1..k]
      BY <1>9
    <2> HIDE DEF S
    <2>2. PICK A : A = 1..(k + 1) /\ A \ {k + 1} = 1..k /\ IsMax(k + 1, A)
                   /\ A \in SUBSET (1..m) /\ A \in SUBSET (1..(m + 1))
      BY <1>7, <2>1
    <2>3. k + 1 \in 1..m /\ k + 1 \in 1..(m + 1) /\ more[k + 1] = events[k + 1]
      BY <1>4, <1>7, <2>1
    <2>4. f[A] = AddRecord(f[1..k], events[k + 1], off)
      BY <1>5, <2>2, <2>3 DEF Drawn
    <2>5. g[A] = AddRecord(g[1..k], more[k + 1], off)
      BY <1>6, <2>2, <2>3 DEF Drawn
    <2>6. f[A] = g[A]
      BY <2>1, <2>3, <2>4, <2>5
    <2> QED
      BY <2>2, <2>6
  <1>10. m \in S
    <2> HIDE DEF S
    <2> QED
      BY <1>8, <1>9, SetInduction
  <1>11. f[1..m] = g[1..m]
    BY <1>10
  <1> HIDE DEF S
  <1>12. g[1..(m + 1)] = AddRecord(g[1..m], more[m + 1], off)
    <2>0. /\ (1..(m + 1)) \ {m + 1} = 1..m /\ IsMax(m + 1, 1..(m + 1))
          /\ m + 1 \in 1..(m + 1)
      BY DEF IsMax
    <2>1. PICK A : A = 1..(m + 1) /\ A \ {m + 1} = 1..m /\ IsMax(m + 1, A)
                   /\ A \in SUBSET (1..(m + 1)) /\ m + 1 \in 1..(m + 1)
      BY <2>0
    <2>2. g[A] = AddRecord(g[1..m], more[m + 1], off)
      BY <1>6, <2>1 DEF Drawn
    <2> QED
      BY <2>1, <2>2
  <1> QED
    BY <1>1, <1>3, <1>4, <1>5, <1>6, <1>11, <1>12

SocketRecords == [at : {"connecting", "open", "closing", "closed"}, got : SUBSET Records]

GraphTypeOK ==
    /\ frames \in Seq(Records) /\ recording \in BOOLEAN /\ whole \in BOOLEAN /\ paused \in BOOLEAN
    /\ socket \in Seq(SocketRecords) /\ jetstream \in 0..Len(socket) /\ timers \in Nat

\* The filters have not changed since the graph was empty.
SeenIsReplayed == recording /\ whole => Replay(frames, hidden) = graph

GraphInv == GraphTypeOK /\ SeenIsReplayed /\ UnpausedIsWatching

\* The initial states satisfy the invariant.
LEMMA GraphInitInv == GraphInit => GraphInv
  <1> SUFFICES ASSUME GraphInit PROVE GraphInv
    OBVIOUS
  <1>1. PICK x \in SocketRecords : x = [at |-> "connecting", got |-> {}] /\ x.at = "connecting"
    <2>1. [at |-> "connecting", got |-> {}] \in SocketRecords
      BY DEF SocketRecords
    <2> QED
      BY <2>1
  <1>2. socket = <<x>>
    BY <1>1 DEF GraphInit
  <1>3. <<x>> \in Seq(SocketRecords) /\ Len(<<x>>) = 1 /\ <<x>>[1] = x /\ 1 \in DOMAIN <<x>>
    OBVIOUS
  <1>4. <<>> \in Seq(Records)
    OBVIOUS
  <1>5. GraphTypeOK
    <2>1. 1 \in 0..1 /\ 0 \in Nat
      OBVIOUS
    <2>2. socket \in Seq(SocketRecords) /\ jetstream \in 0..Len(socket)
      BY <1>2, <1>3, <2>1 DEF GraphInit
    <2> QED
      BY <1>4, <2>1, <2>2 DEF GraphInit, GraphTypeOK
  <1>6. SeenIsReplayed
    <2>1. Replay(<<>>, hidden) = EmptyGraph
      <3>1. <<>> \in Seq({1}) /\ 1 \in {1}
        OBVIOUS
      <3> QED
        BY <3>1, ReplayGrows
    <2> QED
      BY <2>1 DEF GraphInit, SeenIsReplayed
  <1>7. UnpausedIsWatching
    BY <1>1, <1>2, <1>3 DEF UnpausedIsWatching
  <1> QED
    BY <1>5, <1>6, <1>7 DEF GraphInv

\* A socket in an allowed state takes the place of another one.
LEMMA SocketPut ==
    ASSUME GraphTypeOK, NEW s \in DOMAIN socket, NEW r \in SocketRecords,
           socket' = [socket EXCEPT ![s] = r]
    PROVE  /\ socket' \in Seq(SocketRecords) /\ Len(socket') = Len(socket)
           /\ DOMAIN socket' = DOMAIN socket
           /\ \A i \in DOMAIN socket : socket'[i] = IF i = s THEN r ELSE socket[i]
  <1>1. socket \in Seq(SocketRecords)
    BY DEF GraphTypeOK
  <1>2. DOMAIN socket = 1..Len(socket)
    BY <1>1
  <1>3. s \in 1..Len(socket)
    BY <1>2
  <1>4. /\ socket' \in Seq(SocketRecords) /\ Len(socket') = Len(socket)
        /\ \A i \in 1..Len(socket) : socket'[i] = IF i = s THEN r ELSE socket[i]
    BY <1>1, <1>3, ExceptSeq
  <1>5. DOMAIN socket' = 1..Len(socket')
    BY <1>4
  <1> QED
    BY <1>2, <1>4, <1>5

\* A new socket is connecting.
LEMMA SocketAdded ==
    ASSUME GraphTypeOK, socket' = Append(socket, [at |-> "connecting", got |-> {}]),
           jetstream' = Len(socket) + 1
    PROVE  /\ socket' \in Seq(SocketRecords) /\ jetstream' \in 0..Len(socket')
           /\ \E s \in DOMAIN socket' : socket'[s].at = "connecting"
  <1>1. PICK x \in SocketRecords : x = [at |-> "connecting", got |-> {}] /\ x.at = "connecting"
    <2>1. [at |-> "connecting", got |-> {}] \in SocketRecords
      BY DEF SocketRecords
    <2> QED
      BY <2>1
  <1>2. socket \in Seq(SocketRecords) /\ Len(socket) \in Nat
    BY DEF GraphTypeOK
  <1>3. socket' \in Seq(SocketRecords) /\ Len(socket') = Len(socket) + 1 /\ socket'[Len(socket) + 1] = x
    BY <1>1, <1>2, AppendProperties
  <1>4. DOMAIN socket' = 1..Len(socket')
    BY <1>3
  <1>5. Len(socket) + 1 \in 1..(Len(socket) + 1) /\ Len(socket) + 1 \in 0..(Len(socket) + 1)
    BY <1>2
  <1> QED
    BY <1>1, <1>3, <1>4, <1>5

\* Every step keeps the invariant.
LEMMA GraphNextInv == GraphInv /\ [GraphNext]_graphVars => GraphInv'
  <1> SUFFICES ASSUME GraphInv, [GraphNext]_graphVars PROVE GraphInv'
    OBVIOUS
  <1>0. GraphTypeOK /\ SeenIsReplayed /\ UnpausedIsWatching
    BY DEF GraphInv
  <1> USE DEF GraphTypeOK
  <1>a. \A off : Replay(<<>>, off) = EmptyGraph
    <2>1. <<>> \in Seq({1}) /\ 1 \in {1}
      OBVIOUS
    <2> QED
      BY <2>1, ReplayGrows
  <1>b. DOMAIN socket = 1..Len(socket) /\ Len(socket) \in Nat
    BY <1>0
  <1>d. \A s \in DOMAIN socket : socket[s] \in SocketRecords
    BY <1>0
  \* A socket that changes its state: what is left of the watching ones.
  <1>e. ASSUME NEW s \in DOMAIN socket, NEW a \in {"connecting", "open", "closing", "closed"},
               SocketTo(s, a)
        PROVE  /\ socket' \in Seq(SocketRecords) /\ Len(socket') = Len(socket)
               /\ DOMAIN socket' = DOMAIN socket
               /\ \A i \in DOMAIN socket : socket'[i].at = IF i = s THEN a ELSE socket[i].at
    <2>0. PICK q \in SocketRecords : q = socket[s]
      BY <1>d
    <2>1. PICK r : r = [q EXCEPT !.at = a]
      OBVIOUS
    <2>3. r \in SocketRecords /\ r.at = a
      BY <2>1 DEF SocketRecords
    <2>2. socket' = [socket EXCEPT ![s] = r]
      BY <1>e, <2>0, <2>1 DEF SocketTo
    <2> QED
      BY <1>0, <2>2, <2>3, SocketPut
  <1>1. ASSUME NEW s \in DOMAIN socket, GraphSocketOpens(s) PROVE GraphInv'
    <2>1. /\ socket' \in Seq(SocketRecords) /\ Len(socket') = Len(socket)
          /\ DOMAIN socket' = DOMAIN socket
          /\ \A i \in DOMAIN socket : socket'[i].at = IF i = s THEN "open" ELSE socket[i].at
      BY <1>1, <1>e DEF GraphSocketOpens
    <2>2. GraphTypeOK'
      BY <1>0, <1>1, <2>1 DEF GraphSocketOpens, drawVars
    <2>3. SeenIsReplayed'
      BY <1>0, <1>1 DEF GraphSocketOpens, drawVars, SeenIsReplayed
    <2>4. UnpausedIsWatching'
      BY <1>0, <1>1, <2>1 DEF GraphSocketOpens, UnpausedIsWatching
    <2> QED
      BY <2>2, <2>3, <2>4 DEF GraphInv
  <1>2. ASSUME NEW s \in DOMAIN socket, GraphSocketClosed(s) PROVE GraphInv'
    <2>1. socket' \in Seq(SocketRecords)
      BY <1>2, <1>e DEF GraphSocketClosed
    <2>2. timers' \in Nat /\ (~paused => timers' > 0) /\ jetstream' = 0 /\ 0 \in 0..Len(socket')
      <3>1. Len(socket') \in Nat
        BY <2>1
      <3> QED
        BY <1>0, <1>2, <3>1 DEF GraphSocketClosed
    <2>3. GraphTypeOK'
      BY <1>0, <1>2, <2>1, <2>2 DEF GraphSocketClosed, drawVars
    <2>4. SeenIsReplayed'
      BY <1>0, <1>2 DEF GraphSocketClosed, drawVars, SeenIsReplayed
    <2>5. UnpausedIsWatching'
      BY <1>2, <2>2 DEF GraphSocketClosed, UnpausedIsWatching
    <2> QED
      BY <2>3, <2>4, <2>5 DEF GraphInv
  <1>3. ASSUME NEW s \in DOMAIN socket, NEW n \in Records, GraphFrame(s, n) PROVE GraphInv'
    <2>0. PICK q \in SocketRecords : q = socket[s]
      BY <1>d
    <2>1. PICK r : r = [q EXCEPT !.got = @ \cup {n}]
      OBVIOUS
    <2>r. r \in SocketRecords /\ r.at = q.at
      BY <2>1 DEF SocketRecords
    <2>2. socket' = [socket EXCEPT ![s] = r]
      BY <1>3, <2>0, <2>1 DEF GraphFrame
    <2>3. /\ socket' \in Seq(SocketRecords) /\ Len(socket') = Len(socket)
          /\ DOMAIN socket' = DOMAIN socket
          /\ \A i \in DOMAIN socket : socket'[i] = IF i = s THEN r ELSE socket[i]
      BY <1>0, <2>2, <2>r, SocketPut
    <2>4. frames' \in Seq(Records)
      <3>1. frames' = frames \/ frames' = Append(frames, n)
        BY <1>3 DEF GraphFrame
      <3>2. Append(frames, n) \in Seq(Records)
        BY <1>0, AppendProperties
      <3> QED
        BY <1>0, <3>1, <3>2
    <2>5. GraphTypeOK'
      BY <1>0, <1>3, <2>3, <2>4 DEF GraphFrame
    <2>6. SeenIsReplayed'
      <3>1. CASE paused \/ ~recording
        BY <1>0, <1>3, <3>1 DEF GraphFrame, SeenIsReplayed
      <3>2. CASE ~paused /\ recording
        <4>1. graph' = AddRecord(graph, n, hidden) /\ frames' = Append(frames, n)
              /\ hidden' = hidden /\ whole' = whole
          BY <1>3, <3>2 DEF GraphFrame
        <4>2. Replay(Append(frames, n), hidden) = AddRecord(Replay(frames, hidden), n, hidden)
          BY <1>0, ReplayGrows
        <4> QED
          BY <1>0, <3>2, <4>1, <4>2 DEF SeenIsReplayed
      <3> QED
        BY <3>1, <3>2
    <2>7. UnpausedIsWatching'
      <3>1. \A i \in DOMAIN socket : socket'[i].at = socket[i].at
        BY <2>0, <2>r, <2>3
      <3> QED
        BY <1>0, <1>3, <2>3, <3>1 DEF GraphFrame, UnpausedIsWatching
    <2> QED
      BY <2>5, <2>6, <2>7 DEF GraphInv
  <1>4. CASE TimerFires
    <2>1. /\ socket' \in Seq(SocketRecords) /\ jetstream' \in 0..Len(socket')
          /\ \E s \in DOMAIN socket' : socket'[s].at = "connecting"
      BY <1>0, <1>4, SocketAdded DEF TimerFires
    <2>2. timers' \in Nat
      BY <1>0, <1>4 DEF TimerFires
    <2>3. GraphTypeOK'
      BY <1>0, <1>4, <2>1, <2>2 DEF TimerFires, drawVars
    <2>4. SeenIsReplayed'
      BY <1>0, <1>4 DEF TimerFires, drawVars, SeenIsReplayed
    <2>5. UnpausedIsWatching'
      BY <2>1 DEF UnpausedIsWatching
    <2> QED
      BY <2>3, <2>4, <2>5 DEF GraphInv
  <1>5. CASE PauseButton
    <2>1. SeenIsReplayed' /\ paused' \in BOOLEAN
      BY <1>0, <1>5 DEF PauseButton, drawVars, SeenIsReplayed
    <2>2. CASE paused /\ socket' = Append(socket, [at |-> "connecting", got |-> {}])
                      /\ jetstream' = Len(socket) + 1 /\ timers' = timers
      <3>1. /\ socket' \in Seq(SocketRecords) /\ jetstream' \in 0..Len(socket')
            /\ \E s \in DOMAIN socket' : socket'[s].at = "connecting"
        BY <1>0, <2>2, SocketAdded
      <3>2. GraphTypeOK'
        BY <1>0, <1>5, <2>1, <2>2, <3>1 DEF PauseButton, drawVars
      <3>3. UnpausedIsWatching'
        BY <3>1 DEF UnpausedIsWatching
      <3> QED
        BY <2>1, <3>2, <3>3 DEF GraphInv
    <2>3. CASE paused /\ timers' = timers + 1 /\ UNCHANGED <<socket, jetstream>>
      <3>1. timers' \in Nat /\ timers' > 0
        BY <1>0, <2>3
      <3>2. GraphTypeOK'
        BY <1>0, <1>5, <2>1, <2>3, <3>1 DEF PauseButton, drawVars
      <3>3. UnpausedIsWatching'
        BY <3>1 DEF UnpausedIsWatching
      <3> QED
        BY <2>1, <3>2, <3>3 DEF GraphInv
    <2>4. CASE ~paused
      <3>1. paused' = TRUE /\ jetstream' = 0 /\ timers' = timers
        BY <1>5, <2>4 DEF PauseButton
      <3>2. socket' \in Seq(SocketRecords)
        <4>1. CASE UNCHANGED socket
          BY <1>0, <4>1
        <4>2. CASE jetstream # 0 /\ SocketTo(jetstream, "closing")
          <5>1. jetstream \in DOMAIN socket
            BY <1>0, <1>b, <4>2
          <5> QED
            BY <1>e, <4>2, <5>1
        <4> QED
          BY <1>5, <2>4, <4>1, <4>2 DEF PauseButton
      <3>3. 0 \in 0..Len(socket')
        BY <3>2
      <3>4. GraphTypeOK'
        BY <1>0, <1>5, <3>1, <3>2, <3>3 DEF PauseButton, drawVars
      <3>5. UnpausedIsWatching'
        BY <3>1 DEF UnpausedIsWatching
      <3> QED
        BY <2>1, <3>4, <3>5 DEF GraphInv
    <2> QED
      BY <1>5, <2>2, <2>3, <2>4 DEF PauseButton, ConnectJetstream
  <1>6. CASE ClearButton
    <2>1. GraphTypeOK'
      BY <1>0, <1>6 DEF ClearButton
    <2>2. SeenIsReplayed'
      BY <1>6, <1>a DEF ClearButton, SeenIsReplayed
    <2>3. UnpausedIsWatching'
      BY <1>0, <1>6 DEF ClearButton, UnpausedIsWatching
    <2> QED
      BY <2>1, <2>2, <2>3 DEF GraphInv
  <1>7. CASE RecButton
    <2>1. frames' = <<>> /\ <<>> \in Seq(Records)
      BY <1>7 DEF RecButton
    <2>2. GraphTypeOK'
      BY <1>0, <1>7, <2>1 DEF RecButton
    <2>3. SeenIsReplayed'
      BY <1>7, <1>a, <2>1 DEF RecButton, SeenIsReplayed
    <2>4. UnpausedIsWatching'
      BY <1>0, <1>7 DEF RecButton, UnpausedIsWatching
    <2> QED
      BY <2>2, <2>3, <2>4 DEF GraphInv
  <1>8. ASSUME NEW k \in Hideable, ToggleNsid(k) PROVE GraphInv'
    <2>1. GraphTypeOK' /\ SeenIsReplayed'
      BY <1>0, <1>8 DEF ToggleNsid, SeenIsReplayed
    <2>2. UnpausedIsWatching'
      BY <1>0, <1>8 DEF ToggleNsid, UnpausedIsWatching
    <2> QED
      BY <2>1, <2>2 DEF GraphInv
  <1>9. ASSUME NEW i \in DOMAIN savedRecording, LoadButton(i) PROVE GraphInv'
    <2>1. GraphTypeOK' /\ SeenIsReplayed'
      BY <1>0, <1>9 DEF LoadButton, SeenIsReplayed
    <2>2. UnpausedIsWatching'
      BY <1>0, <1>9 DEF LoadButton, UnpausedIsWatching
    <2> QED
      BY <2>1, <2>2 DEF GraphInv
  <1>10. CASE UNCHANGED graphVars
    BY <1>0, <1>10 DEF graphVars, GraphInv, SeenIsReplayed, UnpausedIsWatching
  <1> QED
    BY <1>1, <1>2, <1>3, <1>4, <1>5, <1>6, <1>7, <1>8, <1>9, <1>10 DEF GraphNext

\* For any market records, sockets and clicks, a recording made from an empty
\* graph on replays as the graph that was seen, and a page that is not paused
\* is connected or will try again.
THEOREM GraphHolds == GraphSpec => []GraphIsSound
  <1>1. GraphInv => GraphIsSound
    BY DEF GraphInv, GraphIsSound, SeenIsReplayed, ReplayIsWhatWasSeen
  <1> QED
    BY GraphInitInv, GraphNextInv, <1>1, PTL DEF GraphSpec
=============================================================================
