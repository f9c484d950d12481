---------------------------- MODULE ContractLease ----------------------------
(***************************************************************************)
(* What a compute contract promises the two who made it, without accepts,  *)
(* receipts, relayed calls and the maps of two processes.                  *)
(*                                                                         *)
(* A job is awarded, and only then may machines be served for it, possibly *)
(* late and more than once.  A job that learns which machine is its own    *)
(* takes hold of it while it is up, holds it to the end, and is the only   *)
(* one who can release it, when it is over.  A machine goes only after it  *)
(* was released.  So a job never loses the machine it uses, and no machine *)
(* is taken from one job by the end of another.                            *)
(***************************************************************************)
CONSTANTS
    Jobs, Machines,
    NoMachine,      \* a job was not told which machine is its own
    NoOwner         \* a machine that was never up

VARIABLES
    lease,      \* how far a job is
    awarded,    \* jobs the provider was asked to serve
    holds,      \* the machine a job takes for its own
    owner,      \* the job a machine was served for
    machine,    \* is the machine up?
    released    \* machines whose job has said that it is over

leaseVars == <<lease, awarded, holds, owner, machine, released>>

Init ==
    /\ lease    = [j \in Jobs |-> "open"]
    /\ awarded  = {}
    /\ holds    = [j \in Jobs |-> NoMachine]
    /\ owner    = [m \in Machines |-> NoOwner]
    /\ machine  = [m \in Machines |-> "none"]
    /\ released = {}

Turn(j, from, to) ==
    /\ lease[j] = from
    /\ lease' = [lease EXCEPT ![j] = to]

Award(j) ==
    /\ lease[j] = "open"
    /\ j \notin awarded
    /\ awarded' = awarded \cup {j}
    /\ UNCHANGED <<lease, holds, owner, machine, released>>

\* A machine comes up for an awarded job, which may be over by then.
Serve(m, j) ==
    /\ j \in awarded
    /\ machine[m] = "none"
    /\ machine' = [machine EXCEPT ![m] = "up"]
    /\ owner'   = [owner EXCEPT ![m] = j]
    /\ UNCHANGED <<lease, awarded, holds, released>>

\* The job goes on with a machine of its own that is up, or with none known.
Take(j) ==
    /\ j \in awarded
    /\ Turn(j, "open", "using")
    /\ \/ UNCHANGED holds
       \/ \E m \in Machines :
             /\ machine[m] = "up"
             /\ owner[m] = j
             /\ holds' = [holds EXCEPT ![j] = m]
    /\ UNCHANGED <<awarded, owner, machine, released>>

\* The award fails, or the work cannot be handed to the machine.
Abandon(j) ==
    /\ \/ j \notin awarded /\ Turn(j, "open", "over")
       \/ Turn(j, "using", "over")
    /\ UNCHANGED <<awarded, holds, owner, machine, released>>

End(j) ==
    /\ Turn(j, "using", "ending")
    /\ UNCHANGED <<awarded, holds, owner, machine, released>>

\* The job is over and says so, if it knows its machine and is heard.
Release(j) ==
    /\ Turn(j, "ending", "over")
    /\ \/ UNCHANGED released
       \/ /\ holds[j] # NoMachine
          /\ released' = released \cup {holds[j]}
    /\ UNCHANGED <<awarded, holds, owner, machine>>

\* The requester forgets the jobs under way; their machines stay up.
Orphan ==
    /\ \E gone \in SUBSET {j \in Jobs : lease[j] \notin {"over", "orphaned"}} :
          lease' = [j \in Jobs |-> IF j \in gone THEN "orphaned" ELSE lease[j]]
    /\ UNCHANGED <<awarded, holds, owner, machine, released>>

Destroy(m) ==
    /\ m \in released
    /\ machine[m] = "up"
    /\ machine' = [machine EXCEPT ![m] = "gone"]
    /\ UNCHANGED <<lease, awarded, holds, owner, released>>

Next ==
    \/ \E j \in Jobs : Award(j) \/ Take(j) \/ Abandon(j) \/ End(j) \/ Release(j)
    \/ \E m \in Machines : Destroy(m) \/ \E j \in Jobs : Serve(m, j)
    \/ Orphan

\* Stuttering is told apart first: it is what nearly every step of the parties is.
Promise == Init /\ [][leaseVars' # leaseVars /\ Next]_leaseVars
=============================================================================
