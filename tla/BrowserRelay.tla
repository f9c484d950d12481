---------------------------- MODULE BrowserRelay ----------------------------
(***************************************************************************)
(* The browser's relay (compute-spa): a SharedWorker keeps one connection  *)
(* to the relay for all tabs (relay-worker.ts) and asks a signed-in tab,   *)
(* the host, for everything that needs the user's session                  *)
(* (relay-client.svelte.ts).  Tabs come and go; a tab says goodbye when it *)
(* is hidden, unless it crashes.  No page calls the client's stop.         *)
(***************************************************************************)
EXTENDS Naturals, SequencesExt

CONSTANTS
    Tabs,
    Loops,        \* connection attempts that may be under way at once
    Frames,       \* request frames from the relay
    MaxTabFaults  \* bound on departures, failures and closes


VARIABLES
    tab,        \* tab -> closed, open, minter or dead
    minterPorts,\* the signed-in ports, in the order they announced themselves
    keyed,      \* the worker has the key pair
    relayUp,    \* state.status
    named,      \* state.subdomain is set
    loop,       \* doConnect: none, timer, nonce, fetch, auth, socket or open
    host,       \* the tab a loop or a frame waits for
    frame,      \* frame -> unsent, asking or answered
    abandoned,  \* history: a rejection nobody catches ended a loop
    tabFaults

browserVars == <<tab, minterPorts, keyed, relayUp, named, loop, host, frame, abandoned, tabFaults>>

NoTab == "noTab"

ASSUME BrowserAssumption == MaxTabFaults \in Nat /\ NoTab \notin Tabs

HostPort == IF minterPorts = <<>> THEN NoTab ELSE Head(minterPorts)

BrowserInit ==
    /\ tab = [t \in Tabs |-> "closed"] /\ minterPorts = <<>>
    /\ keyed = FALSE /\ relayUp = "disconnected" /\ named = FALSE
    /\ loop = [s \in Loops |-> "none"]
    /\ host = [x \in Loops \cup Frames |-> NoTab]
    /\ frame = [f \in Frames |-> "unsent"]
    /\ abandoned = FALSE /\ tabFaults = 0

Fault == tabFaults < MaxTabFaults /\ tabFaults' = tabFaults + 1

\* The tab that a loop or a frame asked is there and has every callback wired:
\* it mints the token, writes the record or fetches from the PDS, and answers.
ServeOauth(x) == host[x] # NoTab /\ tab[host[x]] = "minter"

-----------------------------------------------------------------------------
(* The worker: start, doConnect and the socket                             *)

\* doConnect up to its first await.  Without a signed-in tab the loop ends and
\* leaves the next one to a tab that announces itself.
DoConnect(s) ==
    \/ /\ ~keyed
       /\ loop' = [loop EXCEPT ![s] = "timer"]
       /\ relayUp' = "connecting"
       /\ UNCHANGED host
    \/ /\ keyed /\ HostPort = NoTab
       /\ loop' = [loop EXCEPT ![s] = "none"]
       /\ relayUp' = "disconnected"
       /\ UNCHANGED host
    \/ /\ keyed /\ HostPort # NoTab
       /\ loop' = [loop EXCEPT ![s] = "nonce"]
       /\ host' = [host EXCEPT ![s] = HostPort]
       /\ relayUp' = "connecting"

\* start: a relay that is not disconnected is left alone.
Start ==
    \/ relayUp # "disconnected" /\ UNCHANGED <<relayUp, loop, host>>
    \/ relayUp = "disconnected" /\ \E s \in Loops : loop[s] = "none" /\ DoConnect(s)

\* setTimeout(doConnect): the status is not touched before the first await.
Timer(s) ==
    /\ loop[s] = "timer"
    /\ \/ /\ ~keyed /\ UNCHANGED <<loop, relayUp, host>>
       \/ /\ keyed /\ HostPort = NoTab
          /\ loop' = [loop EXCEPT ![s] = "none"] /\ relayUp' = "disconnected" /\ UNCHANGED host
       \/ /\ keyed /\ HostPort # NoTab
          /\ loop' = [loop EXCEPT ![s] = "nonce"]
          /\ host' = [host EXCEPT ![s] = HostPort] /\ UNCHANGED relayUp
    /\ UNCHANGED <<tab, minterPorts, keyed, named, frame, abandoned, tabFaults>>

\* The host minted the token with which the worker itself fetches the nonce.
TokenMinted(s) ==
    /\ loop[s] = "nonce" /\ ServeOauth(s)
    /\ loop' = [loop EXCEPT ![s] = "fetch"]
    /\ UNCHANGED <<tab, minterPorts, keyed, relayUp, named, host, frame, abandoned, tabFaults>>

\* buildRegistration succeeded: the token for the subscription is asked for,
\* outside of any try.  No host by now: the rejection is nobody's.
NonceSigned(s) ==
    /\ loop[s] = "fetch"
    /\ IF HostPort = NoTab
       THEN loop' = [loop EXCEPT ![s] = "none"] /\ abandoned' = TRUE /\ UNCHANGED host
       ELSE /\ loop' = [loop EXCEPT ![s] = "auth"]
            /\ host' = [host EXCEPT ![s] = HostPort] /\ UNCHANGED abandoned
    /\ UNCHANGED <<tab, minterPorts, keyed, relayUp, named, frame, tabFaults>>

SocketMade(s) ==
    /\ loop[s] = "auth" /\ ServeOauth(s)
    /\ loop' = [loop EXCEPT ![s] = "socket"]
    /\ UNCHANGED <<tab, minterPorts, keyed, relayUp, named, host, frame, abandoned, tabFaults>>

\* Mutation: a failed registration is not tried again.
ConnectFailedGivesUp(s) ==
    /\ loop[s] \in {"nonce", "fetch"}
    /\ loop' = [loop EXCEPT ![s] = "none"] /\ relayUp' = "disconnected"
    /\ UNCHANGED abandoned

\* The call to the host was rejected, or the dispatcher refused the nonce.
ConnectFailed(s) ==
    \/ /\ loop[s] \in {"nonce", "fetch"}
       /\ loop' = [loop EXCEPT ![s] = "timer"] /\ relayUp' = "disconnected"
       /\ UNCHANGED abandoned
    \/ /\ loop[s] = "auth"
       /\ loop' = [loop EXCEPT ![s] = "none"] /\ abandoned' = TRUE
       /\ UNCHANGED relayUp

\* callHost: the 30 s timer, or removePort when no host is left.  A tab that is
\* there answers in time unless a fault keeps it.
CallRejected(s) ==
    /\ loop[s] \in {"nonce", "fetch", "auth"}
    /\ \/ loop[s] # "fetch" /\ ~ServeOauth(s) /\ UNCHANGED tabFaults
       \/ (loop[s] = "fetch" \/ ServeOauth(s)) /\ Fault
    /\ ConnectFailed(s)
    /\ UNCHANGED <<tab, minterPorts, keyed, named, host, frame>>

SocketOpens(s) ==
    /\ loop[s] = "socket"
    /\ loop' = [loop EXCEPT ![s] = "open"]
    /\ relayUp' = "connected"
    /\ named' \in {named, TRUE}       \* before or after the registered frame
    /\ UNCHANGED <<tab, minterPorts, keyed, host, frame, abandoned, tabFaults>>

RegisteredFrame(s) ==
    /\ loop[s] = "open" /\ ~named
    /\ named' = TRUE
    /\ UNCHANGED <<tab, minterPorts, keyed, relayUp, loop, host, frame, abandoned, tabFaults>>

SocketCloses(s) ==
    /\ loop[s] \in {"socket", "open"} /\ Fault
    /\ relayUp' = "disconnected" /\ named' = FALSE
    /\ loop' = [loop EXCEPT ![s] = "timer"]
    /\ UNCHANGED <<tab, minterPorts, keyed, host, frame, abandoned>>

-----------------------------------------------------------------------------
(* Requests from the relay                                                 *)

\* handleRequest: reads and writes go to the host; without one the answer is
\* an error at once.
FrameArrives(f) ==
    /\ frame[f] = "unsent" /\ \E s \in Loops : loop[s] = "open"
    /\ frame' = [frame EXCEPT ![f] = IF HostPort = NoTab THEN "answered" ELSE "asking"]
    /\ host' = [host EXCEPT ![f] = HostPort]
    /\ UNCHANGED <<tab, minterPorts, keyed, relayUp, named, loop, abandoned, tabFaults>>

\* Mutation: without a timeout only a living tab settles a call.
FrameAnsweredByTab(f) ==
    /\ frame[f] = "asking" /\ (ServeOauth(f) \/ HostPort = NoTab)
    /\ frame' = [frame EXCEPT ![f] = "answered"]
    /\ UNCHANGED <<tab, minterPorts, keyed, relayUp, named, loop, host, abandoned, tabFaults>>

\* The host answers; or it is gone, and removePort or the timeout rejects.
FrameAnswered(f) ==
    /\ frame[f] = "asking"
    /\ frame' = [frame EXCEPT ![f] = "answered"]
    /\ UNCHANGED <<tab, minterPorts, keyed, relayUp, named, loop, host, abandoned, tabFaults>>

-----------------------------------------------------------------------------
(* Tabs                                                                    *)

\* RelayClient.start: the first message opens the port to the shared worker,
\* then init and start are posted.
TabOpens(t) ==
    /\ tab[t] = "closed"
    /\ tab' = [tab EXCEPT ![t] = "open"]
    /\ Start
    /\ UNCHANGED <<minterPorts, keyed, named, frame, abandoned, tabFaults>>

EnsureKeypair ==
    /\ ~keyed /\ \E t \in Tabs : tab[t] # "closed"
    /\ keyed' = TRUE
    /\ UNCHANGED <<tab, minterPorts, relayUp, named, loop, host, frame, abandoned, tabFaults>>

\* The page has opened its port and wired the last of the three callbacks.
MinterReady(t) == tab[t] = "open"

\* The port can serve as host from now on, and a disconnected relay is started.
TabAnnounces(t) ==
    /\ MinterReady(t)
    /\ tab' = [tab EXCEPT ![t] = "minter"]
    /\ minterPorts' = Append(minterPorts, t)
    /\ LET elected == HostPort' IN
       \/ relayUp # "disconnected" /\ UNCHANGED <<relayUp, loop, host>>
       \/ /\ relayUp = "disconnected"
          /\ relayUp' = "connecting"
          /\ \E s \in Loops : /\ loop[s] = "none"
                              /\ loop' = [loop EXCEPT ![s] = IF keyed THEN "nonce" ELSE "timer"]
                              /\ host' = IF keyed THEN [host EXCEPT ![s] = elected] ELSE host
    /\ UNCHANGED <<keyed, named, frame, abandoned, tabFaults>>

\* pagehide: the port says bye and is removed; nobody answers what it was asked.
TabLeaves(t) ==
    /\ tab[t] \in {"open", "minter"} /\ Fault
    /\ tab' = [tab EXCEPT ![t] = "closed"]
    /\ minterPorts' = RemoveFirst(minterPorts, t)
    /\ host' = [x \in DOMAIN host |-> IF host[x] = t THEN NoTab ELSE host[x]]
    /\ UNCHANGED <<keyed, relayUp, named, loop, frame, abandoned>>

\* The tab dies without a word: its port stays where it was.
TabCrashes(t) ==
    /\ tab[t] \in {"open", "minter"} /\ Fault
    /\ tab' = [tab EXCEPT ![t] = "dead"]
    /\ UNCHANGED <<minterPorts, keyed, relayUp, named, loop, host, frame, abandoned>>

LoopStep(s) ==
    Timer(s) \/ TokenMinted(s) \/ NonceSigned(s) \/ SocketMade(s) \/ SocketOpens(s) \/ RegisteredFrame(s) \/ CallRejected(s)

BrowserNext ==
    \/ \E s \in Loops : LoopStep(s) \/ SocketCloses(s)
    \/ \E f \in Frames : FrameArrives(f) \/ FrameAnswered(f)
    \/ \E t \in Tabs : TabOpens(t) \/ TabAnnounces(t) \/ TabLeaves(t) \/ TabCrashes(t)
    \/ EnsureKeypair

\* Timers fire, a tab that is there answers, sockets open, keys are imported.
BrowserFairness ==
    /\ \A s \in Loops : WF_browserVars(LoopStep(s))
    /\ \A f \in Frames : WF_browserVars(FrameAnswered(f))
    /\ WF_browserVars(EnsureKeypair)

BrowserSpec == BrowserInit /\ [][BrowserNext]_browserVars /\ BrowserFairness

-----------------------------------------------------------------------------
(* Properties                                                              *)

\* A relay that shows as disconnected is being reconnected whenever a tab could
\* host it: no order of tabs, timers, failures and closes leaves it idle, but
\* the one rejection that nobody catches.
DisconnectedIsRetried ==
    relayUp = "disconnected" /\ minterPorts # <<>> /\ ~abandoned => \E s \in Loops : loop[s] # "none"

\* Every request the relay hands to the worker is answered, also when the tab
\* that was asked has left or died.
FramesAreAnswered == \A f \in Frames : frame[f] = "asking" ~> frame[f] = "answered"

=============================================================================
