---------------------------- MODULE RelayPromise ----------------------------
(***************************************************************************)
(* What the XRPC relay promises its HTTP callers, without sockets, maps    *)
(* and timers.  A subdomain is up, in its grace period or down.  A request *)
(* is refused at once, or accepted and then waits; an accepted request is  *)
(* replied to or times out only while its subdomain is up, and the end of  *)
(* a grace period fails all the requests of the subdomain together.  So no *)
(* caller ever waits on a subdomain that is down, except for one whose     *)
(* request was lost, which happens only when a grace period ends well.     *)
(***************************************************************************)
CONSTANTS
    Subdomains, Requests, Target,
    MayLose     \* may accepted requests be lost when a subscriber comes back?

VARIABLES service, reply

promiseVars == <<service, reply>>

Init ==
    /\ service = [d \in Subdomains |-> "down"]
    /\ reply   = [r \in Requests |-> "idle"]

Waits(r) == reply[r] = "waiting"

\* A subscriber registers, or another one takes over.  Requests keep waiting,
\* but if requests may be lost, all but one of them may be lost here.
Attach(d) ==
    /\ service' = [service EXCEPT ![d] = "up"]
    /\ \/ UNCHANGED reply
       \/ /\ MayLose
          /\ service[d] = "grace"
          /\ \E kept \in Requests :
                /\ Target[kept] = d /\ Waits(kept)
                /\ reply' = [r \in Requests |->
                      IF Target[r] = d /\ Waits(r) /\ r # kept THEN "lost"
                                                              ELSE reply[r]]

\* A connection for the subdomain ends: the grace period begins (again).
Detach(d) ==
    /\ service' = [service EXCEPT ![d] = "grace"]
    /\ UNCHANGED reply

\* The grace period ends without a subscriber.
Expire(d) ==
    /\ service[d] = "grace"
    /\ service' = [service EXCEPT ![d] = "down"]
    /\ reply' = [r \in Requests |-> IF Target[r] = d /\ Waits(r) THEN "dropped"
                                                                 ELSE reply[r]]

Accept(r) ==
    /\ reply[r] = "idle"
    /\ service[Target[r]] # "down"
    /\ reply' = [reply EXCEPT ![r] = "waiting"]
    /\ UNCHANGED service

\* 404: also for a bound socket that is no longer open, never in the grace.
Refuse(r) ==
    /\ reply[r] = "idle"
    /\ service[Target[r]] # "grace"
    /\ reply' = [reply EXCEPT ![r] = "notFound"]
    /\ UNCHANGED service

Finish(r) ==
    /\ Waits(r)
    /\ service[Target[r]] = "up"
    /\ \E result \in {"answered", "timedOut"} :
          reply' = [reply EXCEPT ![r] = result]
    /\ UNCHANGED service

Next ==
    \/ \E d \in Subdomains : Attach(d) \/ Detach(d) \/ Expire(d)
    \/ \E r \in Requests : Accept(r) \/ Refuse(r) \/ Finish(r)

Promise == Init /\ [][Next]_promiseVars
=============================================================================
