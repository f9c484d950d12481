---------------------------- MODULE SshSessions ----------------------------
(***************************************************************************)
(* The ssh relay of xrpc-relay-pds: ssh-xrpc-factory.ts gives a WebSocket  *)
(* an ssh process through ssh-session-manager.ts and streams its output;   *)
(* a procedure writes to its stdin.  connect awaits temporary files and a  *)
(* search for script(1), so the socket may send another message, or close, *)
(* before the session exists.                                              *)
(***************************************************************************)
EXTENDS Naturals, FiniteSets

CONSTANTS
    WebSockets,
    SshAttempts       \* connect messages a client may send on one socket

NoSshAttempt == 0
ASSUME SshAssumption == NoSshAttempt \notin SshAttempts

Sessions == WebSockets \X SshAttempts

VARIABLES
    wsState,    \* opening, open or closed
    connecting, \* sessions whose connect is under way
    session,    \* the variable session of each handler: an attempt or none
    streaming,  \* the session whose output is streamed: an attempt or none
    proc,       \* the ssh process: none, running, dying (SIGKILL sent) or exited
    registry,   \* #sessions
    killed,     \* sessions marked killed
    exitSent,   \* sockets that were sent the exit frame
    written,    \* sessions whose stdin got data
    raced       \* history: a message or the close came during a connect

sshVars == <<wsState, connecting, session, streaming, proc, registry, killed, exitSent,
             written, raced>>

SshInit ==
    /\ wsState = [w \in WebSockets |-> "opening"]
    /\ connecting = {} /\ registry = {} /\ killed = {} /\ exitSent = {} /\ written = {} /\ raced = {}
    /\ session = [w \in WebSockets |-> NoSshAttempt]
    /\ streaming = [w \in WebSockets |-> NoSshAttempt]
    /\ proc = [s \in Sessions |-> "none"]

SshBusy(w) == \E s \in connecting : s[1] = w
TriedBefore(w, a) == <<w, a>> \in connecting \/ proc[<<w, a>>] # "none"

-----------------------------------------------------------------------------
(* The WebSocket                                                           *)

SshOpen(w) ==
    /\ wsState[w] = "opening"
    /\ wsState' = [wsState EXCEPT ![w] = "open"]
    /\ UNCHANGED <<connecting, session, streaming, proc, registry, killed, exitSent, written, raced>>

\* onmessage: ignored once the session exists; parameters that do not parse
\* close the socket; otherwise connect is awaited.
SshMessage(w, a) ==
    /\ wsState[w] = "open" /\ ~TriedBefore(w, a)
    /\ session[w] = NoSshAttempt
    /\ raced' = IF SshBusy(w) THEN raced \cup {w} ELSE raced
    /\ \/ connecting' = connecting \cup {<<w, a>>} /\ UNCHANGED wsState
       \/ wsState' = [wsState EXCEPT ![w] = "closed"] /\ UNCHANGED connecting
    /\ UNCHANGED <<session, streaming, proc, registry, killed, exitSent, written>>

\* connect spawned the process; the handler keeps the session and starts to
\* stream, unless it streams already.
SshConnected(w, a) ==
    /\ <<w, a>> \in connecting
    /\ connecting' = connecting \ {<<w, a>>}
    /\ proc' = [proc EXCEPT ![<<w, a>>] = "running"]
    /\ registry' = registry \cup {<<w, a>>}
    /\ session' = [session EXCEPT ![w] = a]
    /\ streaming' = [streaming EXCEPT ![w] = IF @ = NoSshAttempt THEN a ELSE @]
    /\ UNCHANGED <<wsState, killed, exitSent, written, raced>>

\* Mutation: only a session that was written to is killed.
SshOnCloseWrittenOnly(w, procs) ==
    LET s == <<w, session[w]>> IN
    IF s \in registry \cap written
    THEN /\ killed' = killed \cup {s}
         /\ proc' = [procs EXCEPT ![s] = IF @ = "running" THEN "dying" ELSE @]
    ELSE UNCHANGED killed /\ proc' = procs

\* onclose kills the session the handler knows of.
SshOnClose(w, procs) ==
    LET s == <<w, session[w]>> IN
    IF s \in registry
    THEN /\ killed' = killed \cup {s}
         /\ proc' = [procs EXCEPT ![s] = IF @ = "running" THEN "dying" ELSE @]
    ELSE UNCHANGED killed /\ proc' = procs

\* connect throws: an error frame, and the socket is closed.
SshConnectFails(w, a) ==
    /\ <<w, a>> \in connecting
    /\ connecting' = connecting \ {<<w, a>>}
    /\ wsState' = [wsState EXCEPT ![w] = "closed"]
    /\ SshOnClose(w, [proc EXCEPT ![<<w, a>>] = "exited"])
    /\ raced' = IF \E s \in connecting' : s[1] = w THEN raced \cup {w} ELSE raced
    /\ UNCHANGED <<session, streaming, registry, exitSent, written>>

\* The client goes away.
SshClose(w) ==
    /\ wsState[w] = "open"
    /\ wsState' = [wsState EXCEPT ![w] = "closed"]
    /\ SshOnClose(w, proc)
    /\ raced' = IF SshBusy(w) THEN raced \cup {w} ELSE raced
    /\ UNCHANGED <<connecting, session, streaming, registry, exitSent, written>>

-----------------------------------------------------------------------------
(* The process                                                             *)

\* The process ends: by itself, or because of SIGKILL.
SshExit(s) ==
    /\ proc[s] \in {"running", "dying"}
    /\ proc' = [proc EXCEPT ![s] = "exited"]
    /\ UNCHANGED <<wsState, connecting, session, streaming, registry, killed, exitSent, written, raced>>

\* startStreaming goes on after s.exited: exit frame, then close, which runs
\* onclose.
SshExitFrame(w) ==
    /\ streaming[w] # NoSshAttempt /\ proc[<<w, streaming[w]>>] = "exited"
    /\ wsState[w] = "open"
    /\ exitSent' = exitSent \cup {w}
    /\ wsState' = [wsState EXCEPT ![w] = "closed"]
    /\ SshOnClose(w, proc)
    /\ raced' = IF SshBusy(w) THEN raced \cup {w} ELSE raced
    /\ UNCHANGED <<connecting, session, streaming, registry, written>>

\* Mutation: only sessions that ended by themselves are removed.
SshForgetEnded(s) ==
    /\ s \in registry /\ proc[s] = "exited" /\ s \notin killed
    /\ registry' = registry \ {s}
    /\ UNCHANGED <<wsState, connecting, session, streaming, proc, killed, exitSent, written, raced>>

\* waitForExit: five seconds later the session leaves the registry.
SshForget(s) ==
    /\ s \in registry /\ proc[s] = "exited"
    /\ registry' = registry \ {s}
    /\ UNCHANGED <<wsState, connecting, session, streaming, proc, killed, exitSent, written, raced>>

\* The write procedure: refused for a session that is gone or was killed.
SshWrite(s) ==
    /\ s \in registry /\ s \notin killed /\ proc[s] = "running"
    /\ written' = written \cup {s}
    /\ UNCHANGED <<wsState, connecting, session, streaming, proc, registry, killed, exitSent, raced>>

SshNext ==
    \/ \E w \in WebSockets : SshOpen(w) \/ SshClose(w) \/ SshExitFrame(w)
    \/ \E w \in WebSockets, a \in SshAttempts :
           SshMessage(w, a) \/ SshConnected(w, a) \/ SshConnectFails(w, a)
    \/ \E s \in Sessions : SshExit(s) \/ SshForget(s) \/ SshWrite(s)

\* SIGKILL takes effect, timers fire, and the exit of the process is noticed.
SshFairness ==
    /\ \A s \in Sessions : /\ WF_sshVars(SshForget(s))
                           /\ WF_sshVars(proc[s] = "dying" /\ SshExit(s))
    /\ \A w \in WebSockets : WF_sshVars(SshExitFrame(w))

SshSpec == SshInit /\ [][SshNext]_sshVars /\ SshFairness

-----------------------------------------------------------------------------
(* Properties                                                              *)

\* A closed socket leaves no ssh process running, except when its close or
\* another message came while a connect was under way.
NoProcessOutlivesItsSocket ==
    \A w \in WebSockets, a \in SshAttempts :
        wsState[w] = "closed" /\ w \notin raced => proc[<<w, a>>] # "running"

\* Every session of a closed socket leaves the registry, unless such a race
\* orphaned its process.
SessionsAreReaped ==
    \A s \in Sessions :
        (s \in registry /\ wsState[s[1]] = "closed") ~> (s \notin registry \/ s[1] \in raced)
=============================================================================
