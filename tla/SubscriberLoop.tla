--------------------------- MODULE SubscriberLoop ---------------------------
(***************************************************************************)
(* runSubscriber (lib/xrpc-relay/subscriber.ts): keeps a subscriber        *)
(* registered at the relay, reconnecting with exponential backoff.  Each   *)
(* call of connect starts one createSubscriber attempt, whose promise and  *)
(* WebSocket end independently: the promise is rejected by an error, a     *)
(* close or a ten second timer, and the close event calls onClose whether  *)
(* or not the promise was rejected before.                                 *)
(***************************************************************************)
EXTENDS Integers, FiniteSets

CONSTANTS
    Attempts,       \* createSubscriber calls that may run at the same time
    Base,           \* reconnectBase
    MaxDelay,       \* reconnectMax
    MaxScheduled,   \* bound on the setTimeout(connect) timers alive at once
    NoAttempt       \* null

ASSUME LoopAssumption ==
    /\ Base \in Nat \ {0}
    /\ MaxDelay \in Nat
    /\ Base <= MaxDelay
    /\ MaxScheduled \in Nat \ {0, 1}
    /\ NoAttempt \notin Attempts

VARIABLES
    phase,      \* of an attempt: "unused", "fetching", "socket", "closed"
    promise,    \* of an attempt: "pending", "resolved", "rejected"
    registered, \* attempts whose #registered frame arrived
    expiring,   \* attempts whose ten second timer is still to fire
    scheduled,  \* number of setTimeout(connect) timers
    delay,      \* the backoff delay of the next schedule
    handle,     \* the attempt the variable handle stems from
    subdomain,  \* the attempt the published subdomain stems from
    stopped,
    status      \* what onStatus reported last

loopVars == <<phase, promise, registered, expiring, scheduled, delay, handle,
          subdomain, stopped, status>>

Phases   == {"unused", "fetching", "socket", "closed"}
Promises == {"pending", "resolved", "rejected"}
Statuses == {"connecting", "connected", "disconnected"}

Open == {a \in Attempts : phase[a] = "socket"}
Busy == {a \in Attempts : phase[a] \in {"fetching", "socket"}}

\* The first call of connect is made by runSubscriber itself.
LoopInit ==
    \E first \in Attempts :
        /\ phase = [a \in Attempts |-> IF a = first THEN "fetching" ELSE "unused"]
        /\ promise = [a \in Attempts |-> "pending"]
        /\ registered = {}
        /\ expiring = {}
        /\ scheduled = 0
        /\ delay = Base
        /\ handle = NoAttempt
        /\ subdomain = NoAttempt
        /\ stopped = FALSE
        /\ status = "connecting"

\* The delay after n calls of schedule.
Doubled(d, n) ==
    LET twice(x) == IF x * 2 < MaxDelay THEN x * 2 ELSE MaxDelay
    IN  IF n = 0 THEN d ELSE IF n = 1 THEN twice(d) ELSE twice(twice(d))

\* schedule, called n times in a row.  A status of "error" is reported just
\* before some of these calls and replaced by theirs.
Schedule(n) ==
    \/ /\ stopped
       /\ UNCHANGED <<scheduled, delay, status>>
    \/ /\ ~stopped
       /\ scheduled + n <= MaxScheduled
       /\ scheduled' = scheduled + n
       /\ delay' = Doubled(delay, n)
       /\ status' = "disconnected"

\* A backoff timer fires and connect runs: a new attempt asks for a nonce.
Reconnect(a) ==
    /\ scheduled > 0
    /\ scheduled' = scheduled - 1
    /\ \/ /\ stopped
          /\ UNCHANGED <<phase, promise, status>>
       \/ /\ ~stopped
          /\ phase[a] = "unused"
          /\ phase' = [phase EXCEPT ![a] = "fetching"]
          /\ promise' = [promise EXCEPT ![a] = "pending"]
          /\ status' = "connecting"
    /\ UNCHANGED <<registered, expiring, delay, handle, subdomain, stopped>>

\* The nonce arrives; the socket is opened and the ten second timer started.
OpenSocket(a) ==
    /\ phase[a] = "fetching"
    /\ phase' = [phase EXCEPT ![a] = "socket"]
    /\ expiring' = expiring \cup {a}
    /\ UNCHANGED <<promise, registered, scheduled, delay, handle, subdomain,
                   stopped, status>>

\* Mutation of FetchFails: connect does not catch the error.
FetchFailsUncaught(a) ==
    /\ phase[a] = "fetching"
    /\ phase' = [phase EXCEPT ![a] = "closed"]
    /\ promise' = [promise EXCEPT ![a] = "rejected"]
    /\ UNCHANGED <<registered, expiring, scheduled, delay, handle, subdomain,
                   stopped, status>>

\* Asking for the token or the nonce fails: connect catches it.
FetchFails(a) ==
    /\ phase[a] = "fetching"
    /\ phase' = [phase EXCEPT ![a] = "closed"]
    /\ promise' = [promise EXCEPT ![a] = "rejected"]
    /\ Schedule(1)
    /\ UNCHANGED <<registered, expiring, handle, subdomain, stopped>>

\* The #registered frame.  It is believed even if the promise was rejected
\* before or stop was called; the handle is kept only when the promise resolves.
Registered(a) ==
    /\ phase[a] = "socket"
    /\ a \notin registered
    /\ registered' = registered \cup {a}
    /\ subdomain' = a
    /\ delay' = Base
    /\ status' = "connected"
    /\ \/ /\ promise[a] = "pending"
          /\ promise' = [promise EXCEPT ![a] = "resolved"]
          /\ handle' = a
       \/ /\ promise[a] # "pending"
          /\ UNCHANGED <<promise, handle>>
    /\ UNCHANGED <<phase, expiring, scheduled, stopped>>

\* The ten second timer: a promise that is pending is rejected and connect
\* schedules another attempt; the socket stays as it is.
RegistrationTimeout(a) ==
    /\ a \in expiring
    /\ expiring' = expiring \ {a}
    /\ \/ /\ promise[a] = "pending"
          /\ promise' = [promise EXCEPT ![a] = "rejected"]
          /\ Schedule(1)
       \/ /\ promise[a] # "pending"
          /\ UNCHANGED <<promise, scheduled, delay, status>>
    /\ UNCHANGED <<phase, registered, handle, subdomain, stopped>>

\* An error event: as for the timer.  The close event follows.
SocketError(a) ==
    /\ phase[a] = "socket"
    /\ promise[a] = "pending"
    /\ promise' = [promise EXCEPT ![a] = "rejected"]
    /\ Schedule(1)
    /\ UNCHANGED <<phase, registered, expiring, handle, subdomain, stopped>>

\* Mutation of SocketClosed: what the closed socket published is kept.
SocketClosedKeepsState(a) ==
    /\ phase[a] = "socket"
    /\ phase' = [phase EXCEPT ![a] = "closed"]
    /\ IF promise[a] = "pending"
         THEN /\ promise' = [promise EXCEPT ![a] = "rejected"]
              /\ Schedule(2)
         ELSE Schedule(1) /\ UNCHANGED promise
    /\ UNCHANGED <<registered, expiring, handle, subdomain, stopped>>

\* The close event: onClose forgets the handle, whosever it is, and schedules;
\* if the promise was pending its rejection makes connect schedule once more.
SocketClosed(a) ==
    /\ phase[a] = "socket"
    /\ phase' = [phase EXCEPT ![a] = "closed"]
    /\ handle' = NoAttempt
    /\ subdomain' = NoAttempt
    /\ \/ /\ promise[a] = "pending"
          /\ promise' = [promise EXCEPT ![a] = "rejected"]
          /\ Schedule(2)
       \/ /\ promise[a] # "pending"
          /\ Schedule(1)
          /\ UNCHANGED promise
    /\ UNCHANGED <<registered, expiring, stopped>>

\* A finished attempt is garbage: its identity may be used again.
Recycle(a) ==
    /\ phase[a] = "closed"
    /\ a \notin expiring
    /\ phase' = [phase EXCEPT ![a] = "unused"]
    /\ registered' = registered \ {a}
    /\ UNCHANGED <<promise, expiring, scheduled, delay, handle, subdomain,
                   stopped, status>>

\* stop closes the socket of the handle; its close event is still to come.
Stop ==
    /\ ~stopped
    /\ stopped' = TRUE
    /\ handle' = NoAttempt
    /\ subdomain' = NoAttempt
    /\ status' = "disconnected"
    /\ UNCHANGED <<phase, promise, registered, expiring, scheduled, delay>>

LoopNext ==
    \/ \E a \in Attempts :
          \/ Reconnect(a) \/ OpenSocket(a) \/ FetchFails(a) \/ Registered(a)
          \/ RegistrationTimeout(a) \/ SocketError(a) \/ SocketClosed(a)
          \/ Recycle(a)
    \/ Stop

LoopSpec == LoopInit /\ [][LoopNext]_loopVars

-----------------------------------------------------------------------------
(* Correctness                                                             *)

\* The backoff delay of schedule stays between reconnectBase and reconnectMax,
\* and the variables of runSubscriber keep their types.
LoopTypeOK ==
    /\ phase   \in [Attempts -> Phases]
    /\ promise \in [Attempts -> Promises]
    /\ registered \subseteq Attempts
    /\ expiring   \subseteq Attempts
    /\ scheduled \in 0..MaxScheduled
    /\ delay \in Base..MaxDelay
    /\ handle    \in Attempts \cup {NoAttempt}
    /\ subdomain \in Attempts \cup {NoAttempt}
    /\ stopped \in BOOLEAN
    /\ status \in Statuses

\* The loop never dies: until stop is called there is an attempt under way, an
\* open socket whose close event will be heard, or a backoff timer.
NeverGivesUp ==
    ~stopped => scheduled > 0 \/ Busy # {}

\* The subdomain the controller publishes, and the handle stop would close,
\* belong to a socket that is open and registered, whichever of several
\* overlapping attempts closed, timed out or registered last; and until stop
\* the status is "connected" only while a subdomain is published.
PublishedIsOpen ==
    /\ \A a \in {handle, subdomain} \ {NoAttempt} : a \in Open \cap registered
    /\ ~stopped /\ status = "connected" => subdomain # NoAttempt

\* What runSubscriber promises its controller under every overlap of attempts,
\* timers and late close events: until stop it keeps trying, and what it
\* publishes belongs to an open, registered socket.
LoopPromise == NeverGivesUp /\ PublishedIsOpen
=============================================================================
