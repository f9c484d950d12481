------------------------------- MODULE MCHosts -------------------------------
(***************************************************************************)
(* Small instances of what runs jobs on machines: the spindle that hears   *)
(* of them and reports their logs and events, the contract it makes with a *)
(* bidder, the bidder that starts and the one that provisions and deletes, *)
(* and PID 1 of a container.  They share no variable.  focus names the one *)
(* that moves in a behaviour while the others rest in an initial state, so *)
(* that TLC explores their state spaces side by side and not their product.*)
(***************************************************************************)
EXTENDS KnotWatch, SpindleRuns, ComputeContract, EphemeralCompute, SystemctlShim,
        BidderBringUp

VARIABLE focus

\* Two triggers of different runs.
MCKeyOf == [t \in Triggers |-> IF t = "t1" THEN "k1" ELSE "k2"]

\* A delete for each contract, and two proofs with the nonce of one.
MCDeleteOf == [d \in Deletes |-> IF d = "d1" THEN "c1" ELSE "c2"]
MCProofOf  == [p \in Proofs |-> "c1"]

\* A supervised unit, a oneshot, a path unit and one without a unit file.
MCUnitOf ==
    [u \in Units |-> [type |-> CASE u = "s" -> "simple" [] u = "o" -> "oneshot"
                                 [] u = "p" -> "path" [] OTHER -> "missing",
                      restart |-> IF u = "s" THEN "on-failure" ELSE "no",
                      remain |-> u = "o"]]
MCCommands ==
    {[id |-> 1, cmd |-> "restart", unit |-> "s"], [id |-> 2, cmd |-> "start", unit |-> "o"],
     [id |-> 3, cmd |-> "start", unit |-> "p"], [id |-> 4, cmd |-> "enable", unit |-> "m"]}

Parts == {"knot", "runs", "events", "contract", "ephemeral", "shim", "bidder"}

hostsVars == <<focus, knotVars, runVars, eventVars, vars, ephVars, shimVars, bringUpVars>>

\* What rests, rests in one initial state.
Pinned(part, P) == focus # part => P

HostsInit ==
    /\ focus \in Parts
    /\ KnotInit /\ RunsInit /\ EventsInit /\ Init /\ EphInit /\ ShimInit /\ BringUpInit
    /\ Pinned("knot", pdsUp)
    /\ Pinned("ephemeral", vmMode = "container")
    /\ Pinned("bidder", kind = "service")

HostsNext ==
    /\ IF focus = "knot" THEN KnotNext ELSE UNCHANGED knotVars
    /\ IF focus = "runs" THEN RunsNext ELSE UNCHANGED runVars
    /\ IF focus = "events" THEN EventsNext ELSE UNCHANGED eventVars
    /\ IF focus = "contract" THEN Next ELSE UNCHANGED vars
    /\ IF focus = "ephemeral" THEN EphNext ELSE UNCHANGED ephVars
    /\ IF focus = "shim" THEN ShimNext ELSE UNCHANGED shimVars
    /\ IF focus = "bidder" THEN BringUpNext ELSE UNCHANGED bringUpVars
    /\ UNCHANGED focus

-----------------------------------------------------------------------------
(* The fairness of the component in focus; the others do not move.         *)

SpindleFairness ==
    /\ WF_knotVars(focus = "knot" /\ KnotConnect)
    /\ WF_knotVars(focus = "knot" /\ KnotMessage)
    /\ \A e \in Events : WF_knotVars(focus = "knot" /\ KnotTrigger(e))
    /\ \A t \in Triggers : WF_runVars(focus = "runs" /\ SubmissionStep(t))
    /\ \A s \in LogSocks : /\ WF_runVars(focus = "runs" /\ LogReady(s))
                           /\ WF_runVars(focus = "runs" /\ LogPipe(s))

ContractFairness ==
    /\ \A j \in Jobs : WF_vars(focus = "contract" /\ SpindleNext(j))
    /\ \A a \in Accepts : WF_vars(focus = "contract" /\ AcceptNext(a))
    /\ \A k \in VmDeletes : WF_vars(focus = "contract" /\ DeleteNext(k))

ProviderFairness ==
    /\ \A c \in Contracts : WF_ephVars(focus = "ephemeral" /\ ProvisionStep(c))
    /\ \A d \in Deletes : WF_ephVars(focus = "ephemeral" /\ DeleteStep(d))
    /\ WF_shimVars(focus = "shim" /\ ReadWanted)
    /\ \A u \in Units : WF_shimVars(focus = "shim" /\ SuperviseStep(u))
    /\ \A k \in Commands : WF_shimVars(focus = "shim" /\ StopStep(k))

BidderFairness ==
    /\ WF_bringUpVars(focus = "bidder" /\ LoginAgent)
    /\ WF_bringUpVars(focus = "bidder" /\ LoadAttestationKey)
    /\ WF_bringUpVars(focus = "bidder" /\ SetupService)
    /\ WF_bringUpVars(focus = "bidder" /\ ServeBidder)
    /\ WF_bringUpVars(focus = "bidder" /\ SubmitGenesis)
    /\ WF_bringUpVars(focus = "bidder" /\ MarketRegistered)
    /\ WF_bringUpVars(focus = "bidder" /\ SetupTimesOut)
    /\ WF_bringUpVars(focus = "bidder" /\ Ready)
    /\ WF_bringUpVars(focus = "bidder" /\ Enlist)

HostsSpec == /\ HostsInit /\ [][HostsNext]_hostsVars
             /\ SpindleFairness /\ ContractFairness /\ ProviderFairness /\ BidderFairness

-----------------------------------------------------------------------------
(* Properties                                                              *)

\* What was taken up comes to an end: a repository with a record is served, a
\* log socket is released, a contract without faults leaves nothing behind, a
\* vm.delete completes, a unit that is wanted gets a process, and the start of a
\* bidder ends.
HostsMakeProgress ==
    /\ RecordedRepoIsServed
    /\ LogSocketReleased
    /\ EventuallyReclaimed
    /\ DeleteCompletes
    /\ focus = "shim" => WantedIsServed
    /\ StartEnds
=============================================================================
