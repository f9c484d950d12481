--------------------------- MODULE ComputeContract ---------------------------
(***************************************************************************)
(* The life of a compute contract after the auction, across two processes. *)
(* The spindle (spindle/marketRFP.ts, spindle/main.ts) accepts a bid,      *)
(* grants the VM-to-be a role, submits the accept, waits for the policy    *)
(* engine in the VM, posts the workflow to it, follows the workflow and    *)
(* reports vm.delete.  The bidder (bidder/main.ts, lib/compute) provisions *)
(* one VM per submitAccept it handles, mints a receipt, remembers the VM   *)
(* under the receipt in activeContracts and destroys it on vm.delete.      *)
(*                                                                         *)
(* Both talk through service proxies and the XRPC relay, which may time    *)
(* out on either leg and replays requests after a reconnect.  Every fault  *)
(* that may happen in a run is named in Faults.                            *)
(***************************************************************************)
EXTENDS Naturals, FiniteSets, TLC

CONSTANTS
    Jobs,        \* workflows, each with its own accept and service name
    Accepts,     \* runs of onAccept; each provisions at most one VM
    VmDeletes,   \* runs of the vm.delete handler
    Faults,      \* what may go wrong
    NoReceipt,   \* receiptRef undefined
    NoJob

FaultKinds == {"acceptLost", "acceptRefused", "provisionFails", "noProviderId",
               "receiptFails", "duplicate", "grantFails", "postFails",
               "revokeFails", "reportLost", "resolveFails", "destroyFails",
               "bidderRestart", "spindleRestart"}

ASSUME ContractAssumption ==
    /\ Faults \subseteq FaultKinds
    /\ NoReceipt \notin Accepts
    /\ NoJob \notin Jobs

VARIABLES
    step,       \* where marketRFPSubmitWorkflow and trackRun are for a job
    goal,       \* how the job ends once its teardown has been reported
    rbac,       \* the com.fedproxy.rbac record granting the job's role
    submitted,  \* jobs whose accept was handed to submitAccept
    receipt,    \* receiptRef: the onAccept run that minted it
    handler,    \* the onAccept runs
    jobOf,      \* the job an onAccept run serves
    vm,         \* the VM an onAccept run provisioned
    activeContracts,  \* keyed by receipt
    reported,   \* receipts a vm.delete event was sent for
    deleter,    \* the vm.delete runs
    deletes,    \* the receipt a vm.delete run is about
    restarted   \* has the bidder been restarted?

spindleVars == <<step, goal, rbac, submitted, receipt, reported>>
bidderVars  == <<handler, jobOf, vm, activeContracts, deleter, deletes, restarted>>
vars        == <<spindleVars, bidderVars>>

Steps == {"idle", "accepted", "submitting", "booting", "polling", "posting",
          "running", "revoking", "reporting", "done", "failed", "orphaned"}
\* The VM may be needed: it boots, is waited for or runs the workflow.
InUse == {"booting", "polling", "posting", "running"}

Fault(f) == f \in Faults

\* Jobs, onAccept runs and vm.delete runs are interchangeable.
Symmetry == Permutations(Jobs) \cup Permutations(Accepts) \cup Permutations(VmDeletes)

Init ==
    /\ step     = [j \in Jobs |-> "idle"]
    /\ goal     = [j \in Jobs |-> "done"]
    /\ rbac     = [j \in Jobs |-> "none"]
    /\ submitted = {}
    /\ receipt  = [j \in Jobs |-> NoReceipt]
    /\ reported = {}
    /\ handler  = [a \in Accepts |-> "unused"]
    /\ jobOf    = [a \in Accepts |-> NoJob]
    /\ vm       = [a \in Accepts |-> "none"]
    /\ activeContracts   = {}
    /\ deleter  = [k \in VmDeletes |-> "unused"]
    /\ deletes  = [k \in VmDeletes |-> NoReceipt]
    /\ restarted = FALSE

-----------------------------------------------------------------------------
(* The spindle                                                             *)

Go(j, from, to) ==
    /\ step[j] = from
    /\ step' = [step EXCEPT ![j] = to]

\* The auction has a winner, it is settled, and market.accept is written.
CreateAccept(j) ==
    /\ Go(j, "idle", "accepted")
    /\ UNCHANGED <<goal, rbac, submitted, receipt, reported, bidderVars>>

\* Mutation of CreateGrant: the accept is submitted before the grant exists.
CreateGrantLater(j) ==
    /\ Go(j, "accepted", "submitting")
    /\ submitted' = submitted \cup {j}
    /\ UNCHANGED <<goal, rbac, receipt, reported, bidderVars>>

\* com.fedproxy.rbac is written before the accept is submitted; if that fails,
\* or only its response is lost, the workflow fails and nothing is provisioned.
CreateGrant(j) ==
    /\ \/ /\ Go(j, "accepted", "submitting")
          /\ rbac' = [rbac EXCEPT ![j] = "live"]
          /\ submitted' = submitted \cup {j}
       \/ /\ Fault("grantFails")
          /\ Go(j, "accepted", "failed")
          /\ \E r \in {"none", "live"} : rbac' = [rbac EXCEPT ![j] = r]
          /\ UNCHANGED submitted
    /\ UNCHANGED <<goal, receipt, reported, bidderVars>>

\* The response of submitAccept.
ReceiveReceipt(j, a) ==
    /\ handler[a] = "answered"
    /\ jobOf[a] = j
    /\ Go(j, "submitting", "booting")
    /\ receipt' = [receipt EXCEPT ![j] = a]
    /\ UNCHANGED <<goal, rbac, submitted, reported, bidderVars>>

\* submitAccept fails or its response is lost: that is logged, and the spindle
\* goes on to wait for the VM without a receipt.
SubmitAcceptFails(j) ==
    /\ \/ Fault("acceptLost")
       \/ \E a \in Accepts : jobOf[a] = j /\ handler[a] = "failed"
    /\ Go(j, "submitting", "booting")
    /\ UNCHANGED <<goal, rbac, submitted, receipt, reported, bidderVars>>

VmUp(j) == \E a \in Accepts : jobOf[a] = j /\ vm[a] \in {"up", "unnamed"}

\* Promise.any: the VM registers its ssh key, or /health answers first.
SeesVm(j) ==
    /\ VmUp(j)
    /\ Go(j, "booting", "polling") \/ Go(j, "booting", "posting")
    /\ UNCHANGED <<goal, rbac, submitted, receipt, reported, bidderVars>>

PolicyEngineReady(j) ==
    /\ VmUp(j)
    /\ Go(j, "polling", "posting")
    /\ UNCHANGED <<goal, rbac, submitted, receipt, reported, bidderVars>>

\* Both signals, or the second wait for the policy engine, time out.
NeverCameUp(j) ==
    /\ Go(j, "booting", "revoking") \/ Go(j, "polling", "revoking")
    /\ goal' = [goal EXCEPT ![j] = "failed"]
    /\ UNCHANGED <<rbac, submitted, receipt, reported, bidderVars>>

\* The workflow is posted to the policy engine.  An error here is thrown to
\* submitWorkflows without a word to the bidder.
PostWorkflow(j) ==
    /\ \/ VmUp(j) /\ Go(j, "posting", "running")
       \/ /\ Fault("postFails") \/ ~VmUp(j)
          /\ Go(j, "posting", "failed")
    /\ UNCHANGED <<goal, rbac, submitted, receipt, reported, bidderVars>>

\* trackRun sees a terminal status and calls reportVmDelete.
WorkflowEnds(j) ==
    /\ Go(j, "running", "revoking")
    /\ UNCHANGED <<goal, rbac, submitted, receipt, reported, bidderVars>>

\* removeRbacRecord, the first half of reportVmDelete; failure is only logged.
RemoveRbacRecord(j) ==
    /\ Go(j, "revoking", "reporting")
    /\ \/ rbac' = [rbac EXCEPT ![j] = "removed"]
       \/ Fault("revokeFails") /\ UNCHANGED rbac
    /\ UNCHANGED <<goal, submitted, receipt, reported, bidderVars>>

\* The second half: without a receipt there is nobody to tell.
ReportVmDelete(j) ==
    /\ Go(j, "reporting", goal[j])
    /\ \/ /\ receipt[j] # NoReceipt
          /\ reported' = reported \cup {receipt[j]}
       \/ /\ receipt[j] = NoReceipt \/ Fault("reportLost")
          /\ UNCHANGED reported
    /\ UNCHANGED <<goal, rbac, submitted, receipt, bidderVars>>

\* A restart: restored runs have no reportVmDelete and are not tracked.
SpindleRestart ==
    /\ Fault("spindleRestart")
    /\ \E j \in Jobs : step[j] \notin {"idle", "done", "failed", "orphaned"}
    /\ step' = [j \in Jobs |-> IF step[j] \in {"idle", "done", "failed"}
                                 THEN step[j] ELSE "orphaned"]
    /\ UNCHANGED <<goal, rbac, submitted, receipt, reported, bidderVars>>

-----------------------------------------------------------------------------
(* The bidder                                                              *)

\* A submitAccept call arrives: again if the relay replays it, and possibly
\* long after the caller gave up.  Nothing remembers accepts already handled.
AcceptArrives(a, j) ==
    /\ handler[a] = "unused"
    /\ j \in submitted
    /\ Fault("duplicate") \/ \A b \in Accepts : jobOf[b] # j
    /\ handler' = [handler EXCEPT ![a] = "verifying"]
    /\ jobOf'   = [jobOf EXCEPT ![a] = j]
    /\ UNCHANGED <<spindleVars, vm, activeContracts, deleter, deletes, restarted>>

\* Authorisation, the contract graph, the signatures or the settlement proof
\* do not verify.
AcceptRefused(a) ==
    /\ Fault("acceptRefused")
    /\ handler[a] = "verifying"
    /\ handler' = [handler EXCEPT ![a] = "failed"]
    /\ UNCHANGED <<spindleVars, jobOf, vm, activeContracts, deleter, deletes, restarted>>

\* computeProvider.provision returns; if the provider's answer names no VM its
\* providerId is 0.
Provision(a) ==
    /\ handler[a] = "verifying"
    /\ \/ /\ handler' = [handler EXCEPT ![a] = "provisioned"]
          /\ \/ vm' = [vm EXCEPT ![a] = "up"]
             \/ Fault("noProviderId") /\ vm' = [vm EXCEPT ![a] = "unnamed"]
       \/ /\ Fault("provisionFails")
          /\ handler' = [handler EXCEPT ![a] = "failed"]
          /\ UNCHANGED vm
    /\ UNCHANGED <<spindleVars, jobOf, activeContracts, deleter, deletes, restarted>>

\* Mutation of MintReceipt: the contract is not tracked.
MintReceiptUntracked(a) ==
    /\ handler[a] = "provisioned"
    /\ handler' = [handler EXCEPT ![a] = "answered"]
    /\ UNCHANGED <<spindleVars, jobOf, vm, activeContracts, deleter, deletes, restarted>>

\* createReceiptRecord returns; the contract is tracked, if the VM has an id,
\* and the call answered.  If it throws, the VM stays and no map knows it.
MintReceipt(a) ==
    /\ handler[a] = "provisioned"
    /\ \/ /\ handler' = [handler EXCEPT ![a] = "answered"]
          /\ activeContracts' = activeContracts \cup (IF vm[a] = "up" THEN {a} ELSE {})
       \/ /\ Fault("receiptFails")
          /\ handler' = [handler EXCEPT ![a] = "failed"]
          /\ UNCHANGED activeContracts
    /\ UNCHANGED <<spindleVars, jobOf, vm, deleter, deletes, restarted>>

\* Mutation of DeleteArrives: the handler takes any contract of the requester.
DeleteArrivesAny(k) ==
    /\ deleter[k] = "unused"
    /\ reported # {}
    /\ \E a \in activeContracts :
          /\ deleter' = [deleter EXCEPT ![k] = "asserted"]
          /\ deletes' = [deletes EXCEPT ![k] = a]
    /\ UNCHANGED <<spindleVars, handler, jobOf, vm, activeContracts, restarted>>

\* A vm.delete event arrives and assertRunningCompute looks the receipt up.
DeleteArrives(k) ==
    /\ deleter[k] = "unused"
    /\ \E a \in reported :
          /\ Fault("duplicate") \/ \A l \in VmDeletes : deletes[l] # a
          /\ deletes' = [deletes EXCEPT ![k] = a]
          /\ deleter' = [deleter EXCEPT
                           ![k] = IF a \in activeContracts THEN "asserted" ELSE "refused"]
    /\ UNCHANGED <<spindleVars, handler, jobOf, vm, activeContracts, restarted>>

\* The receipt and the event are resolved, if their repositories answer;
\* deleteRunningCompute reads the contract again, and throws if another run has
\* deleted it meanwhile.
DeleteBegins(k) ==
    /\ deleter[k] = "asserted"
    /\ \/ /\ deletes[k] \in activeContracts
          /\ deleter' = [deleter EXCEPT ![k] = "destroying"]
       \/ /\ deletes[k] \notin activeContracts \/ Fault("resolveFails")
          /\ deleter' = [deleter EXCEPT ![k] = "failed"]
    /\ UNCHANGED <<spindleVars, handler, jobOf, vm, activeContracts, deletes, restarted>>

\* Mutation of Destroy: the contract is forgotten before the VM is destroyed,
\* and a failing provider leaves it forgotten.
DestroyForgetsOnly(k) ==
    /\ deleter[k] = "destroying"
    /\ deleter' = [deleter EXCEPT ![k] = "done"]
    /\ activeContracts' = activeContracts \ {deletes[k]}
    /\ UNCHANGED <<spindleVars, handler, jobOf, vm, deletes, restarted>>

\* computeProvider.destroy returns, which some providers also do when they
\* could not destroy the VM, and the contract is forgotten; or it throws.
Destroy(k) ==
    /\ deleter[k] = "destroying"
    /\ \/ /\ deleter' = [deleter EXCEPT ![k] = "done"]
          /\ vm' = [vm EXCEPT ![deletes[k]] = "gone"]
          /\ activeContracts' = activeContracts \ {deletes[k]}
       \/ /\ Fault("destroyFails")
          /\ deleter' = [deleter EXCEPT ![k] = "done"]
          /\ activeContracts' = activeContracts \ {deletes[k]}
          /\ UNCHANGED vm
       \/ /\ Fault("destroyFails")
          /\ deleter' = [deleter EXCEPT ![k] = "failed"]
          /\ UNCHANGED <<vm, activeContracts>>
    /\ UNCHANGED <<spindleVars, handler, jobOf, deletes, restarted>>

Aborted(st, idle) == [x \in DOMAIN st |-> IF st[x] \in idle THEN st[x] ELSE "failed"]

\* A restart: activeContracts and the running handlers are lost, VMs are not.
BidderRestart ==
    /\ Fault("bidderRestart")
    /\ ~restarted
    /\ restarted' = TRUE
    /\ activeContracts' = {}
    /\ handler' = Aborted(handler, {"unused", "answered", "failed"})
    /\ deleter' = Aborted(deleter, {"unused", "done", "refused", "failed"})
    /\ UNCHANGED <<spindleVars, jobOf, vm, deletes>>

-----------------------------------------------------------------------------

SpindleNext(j) ==
    \/ CreateAccept(j) \/ CreateGrant(j) \/ SubmitAcceptFails(j)
    \/ \E a \in Accepts : ReceiveReceipt(j, a)
    \/ SeesVm(j) \/ PolicyEngineReady(j) \/ NeverCameUp(j) \/ PostWorkflow(j)
    \/ WorkflowEnds(j) \/ RemoveRbacRecord(j) \/ ReportVmDelete(j)

AcceptNext(a) ==
    \/ \E j \in Jobs : AcceptArrives(a, j)
    \/ AcceptRefused(a) \/ Provision(a) \/ MintReceipt(a)

DeleteNext(k) == DeleteArrives(k) \/ DeleteBegins(k) \/ Destroy(k)

Next ==
    \/ \E j \in Jobs : SpindleNext(j)
    \/ \E a \in Accepts : AcceptNext(a)
    \/ \E k \in VmDeletes : DeleteNext(k)
    \/ SpindleRestart
    \/ BidderRestart

\* Handlers run to their end, calls are delivered and workflows terminate.
Fairness ==
    /\ \A j \in Jobs : WF_vars(SpindleNext(j))
    /\ \A a \in Accepts : WF_vars(AcceptNext(a))
    /\ \A k \in VmDeletes : WF_vars(DeleteNext(k))

Spec == Init /\ [][Next]_vars /\ Fairness

-----------------------------------------------------------------------------
(* Correctness                                                             *)

\* The records of the spindle and the maps of the bidder keep their shape:
\* activeContracts is keyed by receipts.
TypeOK ==
    /\ step \in [Jobs -> Steps]
    /\ goal \in [Jobs -> {"done", "failed"}]
    /\ rbac \in [Jobs -> {"none", "live", "removed"}]
    /\ submitted \subseteq Jobs
    /\ receipt \in [Jobs -> Accepts \cup {NoReceipt}]
    /\ reported \subseteq Accepts
    /\ handler \in [Accepts -> {"unused", "verifying", "provisioned", "answered",
                                "failed"}]
    /\ jobOf \in [Accepts -> Jobs \cup {NoJob}]
    /\ vm \in [Accepts -> {"none", "up", "unnamed", "gone"}]
    /\ activeContracts \subseteq Accepts
    /\ deleter \in [VmDeletes -> {"unused", "asserted", "destroying", "done",
                                "refused", "failed"}]
    /\ deletes \in [VmDeletes -> Accepts \cup {NoReceipt}]
    /\ restarted \in BOOLEAN

\* No VM comes up before the grant it registers its ssh key with.
GrantBeforeVm ==
    \A a \in Accepts : vm[a] # "none" => jobOf[a] # NoJob /\ rbac[jobOf[a]] # "none"

\* Whatever is lost, repeated or late, the VM whose receipt a job holds is not
\* destroyed before the job has reported its end: not while the job waits for it
\* or runs on it, and not while the job removes the grant.
VmKeptWhileInUse ==
    \A j \in Jobs :
        step[j] \in InUse \cup {"revoking", "reporting"} /\ receipt[j] # NoReceipt
        => vm[receipt[j]] \in {"up", "unnamed"}

\* Unless the bidder was restarted or got no id for the VM, a receipt whose job
\* has not reported its end is in activeContracts: its vm.delete will not be
\* answered with "unknown receipt".
ReceiptIsTracked ==
    ~restarted => \A j \in Jobs :
        /\ receipt[j] # NoReceipt
        /\ receipt[j] \notin reported
        /\ vm[receipt[j]] # "unnamed"
        => receipt[j] \in activeContracts

\* Only an answered vm.delete forgets a contract, and a VM is forgotten only
\* after it was reported, by the job that holds its receipt.
ForgottenWhenReported ==
    [][\A a \in Accepts : a \in activeContracts /\ a \notin activeContracts'
          => a \in reported \/ restarted']_vars

\* With no fault every job that has ended leaves nothing behind: its VMs are
\* gone and its grant is removed.
EventuallyReclaimed ==
    \A j \in Jobs :
        step[j] \in {"done", "failed"}
        ~> /\ \A a \in Accepts : jobOf[a] = j => vm[a] \in {"none", "gone"}
           /\ rbac[j] = "removed"

\* The comment at reportVmDelete: the grant "only needs to exist while the VM
\* is alive", and is removed "so stale grants don't accumulate".  So a job that
\* failed has no grant left.
NoStaleGrant ==
    \A j \in Jobs : step[j] = "failed" => rbac[j] # "live"

\* What spindle and bidder keep under every fault, duplicated call and restart:
\* the guest's grant is written before its VM comes up, the VM a job uses is not
\* destroyed, and the bidder knows every receipt that is still to be reported.
ContractPromise == GrantBeforeVm /\ VmKeptWhileInUse /\ ReceiptIsTracked

-----------------------------------------------------------------------------
(* The promise to the two parties                                          *)

\* How far the jobs are, as their requester sees it.
Leases ==
    [j \in Jobs |->
       CASE step[j] \in {"idle", "accepted", "submitting"} -> "open"
         [] step[j] \in InUse                              -> "using"
         [] step[j] \in {"revoking", "reporting"}          -> "ending"
         [] step[j] \in {"done", "failed"}                 -> "over"
         [] OTHER                                          -> "orphaned"]

Machinery == [a \in Accepts |-> IF vm[a] = "unnamed" THEN "up" ELSE vm[a]]

Owners == [a \in Accepts |-> IF vm[a] = "none" THEN NoJob ELSE jobOf[a]]

Lease == INSTANCE ContractLease
           WITH Machines <- Accepts,   NoMachine <- NoReceipt,
                NoOwner  <- NoJob,     lease     <- Leases,
                awarded  <- submitted, holds     <- receipt,
                owner    <- Owners,    machine   <- Machinery,
                released <- reported

\* onAccept, its receipt and vm.delete together keep the lease of ContractLease,
\* whatever is lost, repeated or restarted: a VM comes up only for a submitted
\* accept, a job takes only its own VM, and only the end of that job destroys it.
KeepsLease == Lease!Promise
=============================================================================
