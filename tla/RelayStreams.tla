---------------------------- MODULE RelayStreams ----------------------------
(***************************************************************************)
(* The relay together with WebSocket subscriptions: callers that open a    *)
(* stream on a subdomain (wsRelaySubscriptionHandler in                    *)
(* lib/hono-factory-xrpc-relay/mod.ts), the frames on each subscriber      *)
(* socket in the order the relay sends them, and the subscriber that       *)
(* starts and stops producers (lib/xrpc-relay/subscriber.ts).              *)
(* Each action of XrpcRelay that touches streams is taken together with    *)
(* its effect on them.                                                     *)
(***************************************************************************)
EXTENDS XrpcRelay, SequencesExt

CONSTANTS
    Callers,      \* caller WebSockets, one subscriptionId each
    CallTarget    \* the subdomain a caller subscribes at

ASSUME StreamAssumption == CallTarget \in [Callers -> Subdomains]

VARIABLES
    callerState,  \* readyState of the caller's socket at the relay
    errored,      \* callers whose socket reported an error
    active,       \* RelayState.activeSubscriptions
    wire,         \* frames sent to a subscriber and not yet received by it
    producers     \* the disposers map of a subscriber: streams it feeds

streamVars == <<callerState, errored, active, wire, producers>>

allVars == <<vars, streamVars>>

Frame(kind, id) == [kind |-> kind, id |-> id]

\* WebSocket.send on an open socket.
Send(s, frames) == wire' = [wire EXCEPT ![s] = @ \o frames]

StreamsOf(d) == {c \in active : CallTarget[c] = d}

StreamInit ==
    /\ Init
    /\ callerState = [c \in Callers |-> "NEW"]
    /\ errored = {}
    /\ active  = {}
    /\ wire      = [s \in Sockets |-> <<>>]
    /\ producers = [s \in Sockets |-> {}]

-----------------------------------------------------------------------------
(* The relay                                                               *)

\* onOpen of a subscriber: the replayed requests go out before the greeting.
Register(s) ==
    /\ AcceptRegistration(s)
    /\ \/ /\ readyState[s] = "OPEN"
          /\ \E replay \in SetToSeqs(QueuedOf(SubOf[s])) :
                Send(s, [i \in DOMAIN replay |-> Frame("request", replay[i])]
                          \o <<Frame("registered", s)>>)
       \/ /\ readyState[s] # "OPEN"
          /\ UNCHANGED wire
    /\ UNCHANGED <<callerState, errored, active, producers>>

Dispatch(r) ==
    /\ DispatchRequest(r)
    /\ IF Live(Target[r]) THEN Send(subscribers[Target[r]], <<Frame("request", r)>>)
                          ELSE UNCHANGED wire
    /\ UNCHANGED <<callerState, errored, active, producers>>

\* Mutation of RejectSubscriberSubscriptions: the entries stay in the map.
RejectKeepsEntries(d) ==
    /\ UNCHANGED active
    /\ callerState' = [c \in Callers |->
          IF c \in StreamsOf(d) /\ callerState[c] = "OPEN" THEN "CLOSING"
                                                          ELSE callerState[c]]

\* Mutation of RejectSubscriberSubscriptions: the callers are not closed.
RejectForgetsCallers(d) ==
    /\ active' = active \ StreamsOf(d)
    /\ UNCHANGED callerState

\* rejectSubscriberSubscriptions: the streams of the subdomain are forgotten
\* and their callers' sockets closed.
RejectSubscriberSubscriptions(d) ==
    /\ active' = active \ StreamsOf(d)
    /\ callerState' = [c \in Callers |->
          IF c \in StreamsOf(d) /\ callerState[c] = "OPEN" THEN "CLOSING"
                                                          ELSE callerState[c]]

Disconnect(s) ==
    /\ OnClose(s) \/ OnError(s)
    /\ RejectSubscriberSubscriptions(SubOf[s])
    /\ UNCHANGED <<errored, wire, producers>>

\* A response frame, for a request the subscriber has taken off the wire.
Answer(s, r) ==
    /\ ~Contains(wire[s], Frame("request", r))
    /\ OnResponse(s, r)
    /\ UNCHANGED streamVars

\* The parts of the relay that streams do not see.
Elsewhere ==
    /\ \/ \E s \in Sockets : Connect(s) \/ RejectRegistration(s) \/ PeerClose(s)
       \/ \E r \in Requests : RelayTimeout(r)
       \/ \E d \in Subdomains : GraceExpired(d)
    /\ UNCHANGED streamVars

\* onOpen of a caller: a stream needs a live subscriber.
CallerOpen(c) ==
    /\ callerState[c] = "NEW"
    /\ LET d == CallTarget[c] IN
       \/ /\ Live(d)
          /\ callerState' = [callerState EXCEPT ![c] = "OPEN"]
          /\ active' = active \cup {c}
          /\ Send(subscribers[d], <<Frame("subscribe", c)>>)
       \/ /\ ~Live(d)
          /\ callerState' = [callerState EXCEPT ![c] = "CLOSING"]
          /\ UNCHANGED <<active, wire>>
    /\ UNCHANGED <<vars, errored, producers>>

\* The caller goes away; its close event is still to come.
CallerLeaves(c) ==
    /\ callerState[c] = "OPEN"
    /\ callerState' = [callerState EXCEPT ![c] = "CLOSING"]
    /\ UNCHANGED <<vars, errored, active, wire, producers>>

\* Mutation of CallerOnClose: the subscriber is not told.
CallerOnCloseSilent(c) ==
    /\ callerState[c] \in {"OPEN", "CLOSING"}
    /\ callerState' = [callerState EXCEPT ![c] = "CLOSED"]
    /\ active' = active \ {c}
    /\ UNCHANGED <<vars, errored, wire, producers>>

\* onClose of a caller: forget the stream and, if the subdomain has a live
\* subscriber now, tell that one.
CallerOnClose(c) ==
    /\ callerState[c] \in {"OPEN", "CLOSING"}
    /\ callerState' = [callerState EXCEPT ![c] = "CLOSED"]
    /\ active' = active \ {c}
    /\ LET d == CallTarget[c] IN
       IF c \in active /\ Live(d)
         THEN Send(subscribers[d], <<Frame("subscriptionCancel", c)>>)
         ELSE UNCHANGED wire
    /\ UNCHANGED <<vars, errored, producers>>

\* onError of a caller: the stream is forgotten and nobody is told, also not
\* by the close event that follows.
CallerOnError(c) ==
    /\ callerState[c] = "OPEN"
    /\ callerState' = [callerState EXCEPT ![c] = "CLOSING"]
    /\ errored' = errored \cup {c}
    /\ active'  = active \ {c}
    /\ UNCHANGED <<vars, wire, producers>>

\* A #subscriptionClose frame, which a subscriber may send for a stream that it
\* feeds: the relay closes the caller.
SubscriptionClose(s, c) ==
    /\ c \in producers[s]
    /\ readyState[s] = "OPEN"
    /\ producers' = [producers EXCEPT ![s] = @ \ {c}]
    /\ active' = active \ {c}
    /\ callerState' = [callerState EXCEPT
          ![c] = IF c \in active /\ @ = "OPEN" THEN "CLOSING" ELSE @]
    /\ UNCHANGED <<vars, errored, wire>>

-----------------------------------------------------------------------------
(* The subscriber                                                          *)

\* Mutation of ReceiveFrame: a cancel frame is read and ignored.
ReceiveFrameIgnoresCancel(s) ==
    /\ wire[s] # <<>>
    /\ wire' = [wire EXCEPT ![s] = Tail(@)]
    /\ producers' = [producers EXCEPT
          ![s] = IF Head(wire[s]).kind = "subscribe" THEN @ \cup {Head(wire[s]).id}
                                                     ELSE @]
    /\ UNCHANGED <<vars, callerState, errored, active>>

\* The message handler of createSubscriber: a subscribe frame starts a
\* producer unless onSubscribe refuses it, a cancel stops it.
ReceiveFrame(s) ==
    /\ wire[s] # <<>>
    /\ wire' = [wire EXCEPT ![s] = Tail(@)]
    /\ LET f == Head(wire[s]) IN
       \/ /\ f.kind = "registered"
          /\ UNCHANGED producers
       \/ /\ f.kind = "subscribe"
          /\ \E accepted \in BOOLEAN :
                producers' = [producers EXCEPT
                                ![s] = IF accepted THEN @ \cup {f.id} ELSE @]
       \/ /\ f.kind = "subscriptionCancel"
          /\ producers' = [producers EXCEPT ![s] = @ \ {f.id}]
       \/ /\ f.kind = "request"
          /\ UNCHANGED producers
    /\ UNCHANGED <<vars, callerState, errored, active>>

\* The close event at the subscriber: every producer is stopped and what was
\* still on the wire is gone.
SubscriberSeesClose(s) ==
    /\ readyState[s] \in {"CLOSING", "CLOSED"}
    /\ wire[s] # <<>> \/ producers[s] # {}
    /\ wire' = [wire EXCEPT ![s] = <<>>]
    /\ producers' = [producers EXCEPT ![s] = {}]
    /\ UNCHANGED <<vars, callerState, errored, active>>

-----------------------------------------------------------------------------

StreamNext ==
    \/ \E s \in Sockets : \/ Register(s) \/ Disconnect(s)
                          \/ ReceiveFrame(s) \/ SubscriberSeesClose(s)
    \/ \E r \in Requests : Dispatch(r)
    \/ \E s \in Sockets, r \in Requests : Answer(s, r)
    \/ \E c \in Callers : \/ CallerOpen(c) \/ CallerLeaves(c)
                          \/ CallerOnClose(c) \/ CallerOnError(c)
    \/ \E s \in Sockets, c \in Callers : SubscriptionClose(s, c)
    \/ Elsewhere

\* Frames on an open connection arrive and close events are delivered.
StreamFairness ==
    /\ \A s \in Sockets : WF_allVars(ReceiveFrame(s))
    /\ \A c \in Callers : WF_allVars(callerState[c] = "CLOSING" /\ CallerOnClose(c))

StreamSpec == StreamInit /\ [][StreamNext]_allVars /\ StreamFairness

-----------------------------------------------------------------------------
(* Correctness                                                             *)

\* The maps of callers and producers keep their shape, and only the frames of
\* the subscribe lexicon are sent.
StreamTypeOK ==
    /\ callerState \in [Callers -> ReadyStates]
    /\ errored \subseteq Callers
    /\ active  \subseteq Callers
    /\ \A s \in Sockets : \A i \in DOMAIN wire[s] :
          wire[s][i].kind \in {"registered", "request", "subscribe",
                              "subscriptionCancel"}
    /\ producers \in [Sockets -> SUBSET Callers]

\* The relay keeps a stream only while its subdomain has a subscriber, through
\* reconnects, takeovers and late close events of earlier sockets.
ActiveIsBound ==
    \A c \in active : subscribers[CallTarget[c]] # NoSocket

\* A caller whose socket is open has a stream: none is left listening to a
\* subscriber that went away or that ended the stream.
OpenCallerIsActive ==
    \A c \in Callers : callerState[c] = "OPEN" => c \in active

\* A producer of the bound subscriber whose stream is over has a cancel frame
\* on its way, unless the caller's socket failed with an error event.
CancelIsOnTheWay ==
    \A s \in Sockets : \A c \in producers[s] :
        /\ subscribers[SubOf[s]] = s
        /\ readyState[s] = "OPEN"
        /\ c \notin active \cup errored
        => Contains(wire[s], Frame("subscriptionCancel", c))

\* Once a caller has closed without an error, the bound subscriber stops
\* producing for it.
StreamsWindDown ==
    \A c \in Callers :
        callerState[c] = "CLOSED" /\ c \notin errored
        ~> \A s \in Sockets : /\ subscribers[SubOf[s]] = s
                              /\ readyState[s] = "OPEN"
                              => c \notin producers[s]

\* Streams, callers and the frames under way agree, through reconnects,
\* takeovers and late close events: no stream without a subscriber, no open
\* caller without a stream, no ended stream whose producer is not being told.
StreamsAreSound == ActiveIsBound /\ OpenCallerIsActive /\ CancelIsOnTheWay
=============================================================================
