---------------------------- MODULE SystemctlShim ----------------------------
(***************************************************************************)
(* The systemctl emulator of the containers (systemctl-shim.ts, two copies *)
(* that differ in details).  Commands only edit files under the state dir; *)
(* PID 1 reads them on every tick, takes each wanted unit into supervision *)
(* and runs it: spawn, write the pid, reap, restart by policy.  Every      *)
(* command is a process of its own.                                        *)
(***************************************************************************)
EXTENDS Naturals, FiniteSets

CONSTANTS
    Units,      \* canonical unit names
    UnitOf,     \* each unit: [type, restart, remain]
    BootUnits,  \* units initMode wants before cloud-init runs: sshd
    Commands,   \* systemctl invocations: [id, cmd, unit]
    MaxCommands,\* bound on the commands of a behaviour
    MaxPids     \* bound on the processes ever spawned

\* What a unit file, or the built-in unit, says.
UnitRecords == [type : {"simple", "oneshot", "path", "missing"},
                restart : {"no", "always", "on-failure"},
                remain : BOOLEAN]

ASSUME ShimAssumption ==
    /\ {MaxPids, MaxCommands} \subseteq Nat /\ BootUnits \subseteq Units
    /\ \A k \in Commands : k.unit \in Units
    /\ \A u \in Units : UnitOf[u] \in UnitRecords

VARIABLES
    wanted, enabled, exited,  \* marker files
    pidFile,                  \* pids/<unit>, 0 when there is none
    seen,                     \* the names the current tick read
    supervised,               \* units taken over by PID 1
    sup,                      \* where superviseUnit is for each unit
    child,                    \* the process it spawned last
    alive,                    \* live processes
    lastPid,
    code,                     \* exit code of the last child
    ctl,                      \* where each command is
    target                    \* the pid a stop waits for

shimVars == <<wanted, enabled, exited, pidFile, seen, supervised, sup, child, alive,
              lastPid, code, ctl, target>>
fileVars == <<wanted, enabled, exited, pidFile>>
superVars == <<seen, supervised, sup, child, lastPid, code>>
ctlVars  == <<ctl, target>>

\* initMode: the state directories are empty but for the units it wants.
ShimInit ==
    /\ wanted = BootUnits /\ enabled = {} /\ exited = {} /\ seen = {} /\ supervised = {}
    /\ pidFile = [u \in Units |-> 0]
    /\ sup = [u \in Units |-> "none"]
    /\ child = [u \in Units |-> 0]
    /\ alive = {} /\ lastPid = 0
    /\ code = [u \in Units |-> 0]
    /\ ctl = [k \in Commands |-> "none"]
    /\ target = [k \in Commands |-> 0]

-----------------------------------------------------------------------------
(* PID 1                                                                   *)

\* reconcile reads wanted/ ...
ReadWanted ==
    /\ seen # wanted
    /\ seen' = wanted
    /\ UNCHANGED <<fileVars, supervised, sup, child, alive, lastPid, code, ctlVars>>

\* Mutation: a unit whose process runs is taken over again.
AdoptAgain(u) ==
    /\ u \in seen /\ sup[u] \in {"none", "running"}
    /\ supervised' = supervised \cup {u}
    /\ sup' = [sup EXCEPT ![u] = "resolving"]
    /\ UNCHANGED <<fileVars, seen, child, alive, lastPid, code, ctlVars>>

\* ... and starts superviseUnit for every name it does not supervise yet.
Adopt(u) ==
    /\ u \in seen /\ u \notin supervised
    /\ supervised' = supervised \cup {u}
    /\ sup' = [sup EXCEPT ![u] = "resolving"]
    /\ UNCHANGED <<fileVars, seen, child, alive, lastPid, code, ctlVars>>

\* Mutation: a unit whose supervision ended stays owned.
ReleaseNever(u) == sup' = [sup EXCEPT ![u] = "none"] /\ UNCHANGED supervised

\* The finally clause.
Release(u) == sup' = [sup EXCEPT ![u] = "none"] /\ supervised' = supervised \ {u}

\* The request is consumed and the supervision ends.
Drop(u) == Release(u) /\ wanted' = wanted \ {u}

Supervisable(u) == UnitOf[u].type # "path"

\* resolveUnit: the built-in sshd, or the first unit file of the search paths.
ResolveUnit(u) ==
    /\ sup[u] = "resolving"
    /\ \/ ~Supervisable(u) /\ Release(u) /\ UNCHANGED wanted
       \/ UnitOf[u].type = "missing" /\ Drop(u)
       \/ /\ Supervisable(u) /\ UnitOf[u].type # "missing"
          /\ sup' = [sup EXCEPT ![u] = "checking"]
          /\ UNCHANGED <<wanted, supervised>>
    /\ UNCHANGED <<enabled, exited, pidFile, seen, child, alive, lastPid, code, ctlVars>>

\* checkConditions: the paths may be there or not.
CheckConditions(u) ==
    /\ sup[u] = "checking"
    /\ \/ Drop(u)
       \/ sup' = [sup EXCEPT ![u] = "pre"] /\ UNCHANGED <<wanted, supervised>>
    /\ UNCHANGED <<enabled, exited, pidFile, seen, child, alive, lastPid, code, ctlVars>>

\* runExecStartPre: the first command that fails drops the unit.
RunExecStartPre(u) ==
    /\ sup[u] = "pre"
    /\ \/ Drop(u)
       \/ /\ sup' = [sup EXCEPT ![u] = IF UnitOf[u].type = "oneshot" THEN "oneshot" ELSE "loop"]
          /\ UNCHANGED <<wanted, supervised>>
    /\ UNCHANGED <<enabled, exited, pidFile, seen, child, alive, lastPid, code, ctlVars>>

\* A oneshot unit has run; the request is consumed.
OneshotEnds(u) ==
    /\ sup[u] = "oneshot"
    /\ Drop(u)
    /\ exited' = IF UnitOf[u].remain THEN exited \cup {u} ELSE exited
    /\ UNCHANGED <<enabled, pidFile, seen, child, alive, lastPid, code, ctlVars>>

\* The head of the loop: spawn while wanted, else clear the pid and release.
SpawnChild(u) ==
    /\ sup[u] = "loop" /\ u \in wanted /\ lastPid < MaxPids
    /\ lastPid' = lastPid + 1
    /\ child' = [child EXCEPT ![u] = lastPid + 1]
    /\ alive' = alive \cup {<<u, lastPid + 1>>}
    /\ sup' = [sup EXCEPT ![u] = "spawned"]
    /\ UNCHANGED <<fileVars, seen, supervised, code, ctlVars>>

WritePid(u) ==
    /\ sup[u] = "spawned"
    /\ pidFile' = [pidFile EXCEPT ![u] = child[u]]
    /\ sup' = [sup EXCEPT ![u] = "running"]
    /\ UNCHANGED <<wanted, enabled, exited, seen, supervised, child, alive, lastPid, code, ctlVars>>

ShouldRestart(u) ==
    \/ UnitOf[u].restart = "always"
    \/ UnitOf[u].restart = "on-failure" /\ code[u] # 0

\* child.status settles.
Reap(u) ==
    /\ sup[u] = "running" /\ <<u, child[u]>> \notin alive
    /\ sup' = [sup EXCEPT ![u] = IF u \in wanted /\ ShouldRestart(u) THEN "loop" ELSE "clearing"]
    /\ code' = [code EXCEPT ![u] = 0]
    /\ UNCHANGED <<fileVars, seen, supervised, child, alive, lastPid, ctlVars>>

ClearPid(u) ==
    /\ sup[u] = "clearing" \/ (sup[u] = "loop" /\ u \notin wanted)
    /\ pidFile' = [pidFile EXCEPT ![u] = 0]
    /\ Release(u)
    /\ UNCHANGED <<wanted, enabled, exited, seen, child, alive, lastPid, code, ctlVars>>

\* A service exits by itself.
ChildExits(u) ==
    /\ <<u, child[u]>> \in alive
    /\ alive' = alive \ {<<u, child[u]>>}
    /\ \E c \in {0, 1} : code' = [code EXCEPT ![u] = c]
    /\ UNCHANGED <<fileVars, seen, supervised, sup, child, lastPid, ctlVars>>

-----------------------------------------------------------------------------
(* systemctl                                                               *)

\* The user types it.
Invoked(k) == ctl[k] = "none" /\ Cardinality({c \in Commands : ctl[c] # "none"}) < MaxCommands

\* start, enable --now, disable: one edit of the files.
Edit(k) ==
    /\ Invoked(k) /\ k.cmd \in {"start", "enable", "disable"}
    /\ ctl' = [ctl EXCEPT ![k] = "done"]
    /\ wanted' = IF k.cmd = "disable" THEN wanted \ {k.unit} ELSE wanted \cup {k.unit}
    /\ enabled' = CASE k.cmd = "enable" -> enabled \cup {k.unit}
                    [] k.cmd = "disable" -> enabled \ {k.unit}
                    [] OTHER -> enabled
    /\ UNCHANGED <<exited, pidFile, superVars, alive, target>>

\* stopUnit: first the supervisor is told not to restart.
StopUnwant(k) ==
    /\ Invoked(k) /\ k.cmd \in {"stop", "restart"}
    /\ ctl' = [ctl EXCEPT ![k] = "killing"]
    /\ wanted' = wanted \ {k.unit}
    /\ UNCHANGED <<enabled, exited, pidFile, superVars, alive, target>>

Kill(u, pid) ==
    /\ alive' = alive \ {<<u, pid>>}
    /\ code' = IF <<u, pid>> \in alive THEN [code EXCEPT ![u] = 1] ELSE code

\* The pid on file is sent SIGTERM, which it may ignore for a while.
StopKill(k) ==
    /\ ctl[k] = "killing"
    /\ target' = [target EXCEPT ![k] = pidFile[k.unit]]
    /\ \/ Kill(k.unit, pidFile[k.unit])
       \/ UNCHANGED <<alive, code>>
    /\ ctl' = [ctl EXCEPT ![k] = "waiting"]
    /\ UNCHANGED <<fileVars, seen, supervised, sup, child, lastPid>>

\* It is gone, or past the deadline and sent SIGKILL; the files are removed,
\* and restart wants the unit again.
StopClear(k) ==
    /\ ctl[k] = "waiting"
    /\ Kill(k.unit, target[k])
    /\ pidFile' = [pidFile EXCEPT ![k.unit] = 0]
    /\ exited' = exited \ {k.unit}
    /\ ctl' = [ctl EXCEPT ![k] = IF k.cmd = "restart" THEN "rewant" ELSE "done"]
    /\ target' = [target EXCEPT ![k] = 0]
    /\ UNCHANGED <<wanted, enabled, seen, supervised, sup, child, lastPid>>

Rewant(k) ==
    /\ ctl[k] = "rewant"
    /\ ctl' = [ctl EXCEPT ![k] = "done"]
    /\ wanted' = wanted \cup {k.unit}
    /\ UNCHANGED <<enabled, exited, pidFile, superVars, alive, target>>

SuperviseStep(u) ==
    \/ Adopt(u) \/ ResolveUnit(u) \/ CheckConditions(u) \/ RunExecStartPre(u) \/ OneshotEnds(u) \/ SpawnChild(u) \/ WritePid(u)
    \/ Reap(u) \/ ClearPid(u)

StopStep(k) == StopKill(k) \/ StopClear(k) \/ Rewant(k)

ShimNext ==
    \/ ReadWanted
    \/ \E u \in Units : SuperviseStep(u) \/ ChildExits(u)
    \/ \E k \in Commands : Edit(k) \/ StopUnwant(k) \/ StopStep(k)

\* The tick fires and PID 1 goes on; a command that began ends.
ShimFairness ==
    /\ WF_shimVars(ReadWanted)
    /\ \A u \in Units : WF_shimVars(SuperviseStep(u))
    /\ \A k \in Commands : WF_shimVars(StopStep(k))

ShimSpec == ShimInit /\ [][ShimNext]_shimVars /\ ShimFairness

-----------------------------------------------------------------------------

\* Whatever commands overlap, no unit ever has two live processes.
OneProcessPerUnit == \A u \in Units : Cardinality({p \in alive : p[1] = u}) <= 1

\* A unit that is wanted gets a live process, or is not wanted any more: no
\* order of stop, start and exits makes PID 1 forget it.
WantedIsServed ==
    \A u \in Units : UnitOf[u].type = "simple" =>
        (u \in wanted ~> \/ \E p \in alive : p[1] = u
                         \/ u \notin wanted
                         \/ lastPid = MaxPids)

=============================================================================
