-------------------------- MODULE DigitalOceanRbac --------------------------
(***************************************************************************)
(* Provisioning on DigitalOcean (compute-provider-digitalocean): before a  *)
(* droplet is asked for, the guest's policy and role are written into a    *)
(* clone of the team's RBAC repository, committed and pushed.  Every git   *)
(* command is awaited, the clone is shared by all provisionings of a       *)
(* bidder, and a command that fails is only logged.  Several bidders may   *)
(* push to the repository of one team.                                     *)
(***************************************************************************)
EXTENDS Naturals

CONSTANTS
    DoBidders,   \* bidder processes, each with a clone of its own
    DoVms,       \* provisionings; each stands for one slug (team, requester, role)
    BidderOf     \* provisioning -> the bidder that makes it

ASSUME DoAssumption == BidderOf \in [DoVms -> DoBidders]

VARIABLES
    doStep,    \* provisioning -> the await it is at, or thrown
    cloned,    \* bidder -> its clone has a .git directory
    tree,      \* bidder -> files of the working tree
    gitIndex,  \* bidder -> files that were added
    gitCommits,   \* bidder -> files of the clone's last commit
    base,      \* bidder -> the version of the remote its history contains
    remote,    \* files of the remote's main branch
    version    \* number of pushes to it

doVars == <<doStep, cloned, tree, gitIndex, gitCommits, base, remote, version>>

Policy(v) == <<"policy", v>>
Role(v) == <<"role", v>>

DoInit ==
    /\ doStep = [v \in DoVms |-> "idle"]
    /\ cloned = [b \in DoBidders |-> FALSE]
    /\ tree = [b \in DoBidders |-> {}]
    /\ gitIndex = tree /\ gitCommits = tree
    /\ base = [b \in DoBidders |-> 0]
    /\ remote = {} /\ version = 0

To(v, s) == doStep' = [doStep EXCEPT ![v] = s]

\* createDroplet starts with the team's account; an error status is thrown.
MakeDoctx(v) ==
    /\ doStep[v] = "idle"
    /\ To(v, "isDir") \/ To(v, "thrown")
    /\ UNCHANGED <<cloned, tree, gitIndex, gitCommits, base, remote, version>>

\* Only a clone without .git is initialised: a provisioning that finds one does
\* not wait for the pull of the one that made it.
IsDir(v) ==
    /\ doStep[v] = "isDir"
    /\ To(v, IF cloned[BidderOf[v]] THEN "policy" ELSE "gitInit")
    /\ UNCHANGED <<cloned, tree, gitIndex, gitCommits, base, remote, version>>

GitInit(v) ==
    /\ doStep[v] = "gitInit"
    /\ cloned' = [cloned EXCEPT ![BidderOf[v]] = TRUE]
    /\ To(v, "pull")
    /\ UNCHANGED <<tree, gitIndex, gitCommits, base, remote, version>>

\* git pull origin main.  It is refused when the clone has commits of its own,
\* or untracked files in the place of the remote's.
GitPull(v) ==
    LET b == BidderOf[v] IN
    /\ doStep[v] = "pull"
    /\ To(v, "policy")
    /\ \/ /\ gitCommits[b] = {} /\ tree[b] \cap remote = {}
          /\ tree' = [tree EXCEPT ![b] = @ \cup remote]
          /\ gitIndex' = [gitIndex EXCEPT ![b] = @ \cup remote]
          /\ gitCommits' = [gitCommits EXCEPT ![b] = remote]
          /\ base' = [base EXCEPT ![b] = version]
       \/ UNCHANGED <<tree, gitIndex, gitCommits, base>>
    /\ UNCHANGED <<cloned, remote, version>>

\* Mutation: the role is written before its policy.
WritePolicyLast(v) ==
    /\ \/ doStep[v] = "policy" /\ To(v, "role")
          /\ tree' = [tree EXCEPT ![BidderOf[v]] = @ \cup {Role(v)}]
       \/ doStep[v] = "role" /\ To(v, "add")
          /\ tree' = [tree EXCEPT ![BidderOf[v]] = @ \cup {Policy(v)}]
    /\ UNCHANGED <<cloned, gitIndex, gitCommits, base, remote, version>>

\* The two files, each written with an await of its own.
WriteFiles(v) ==
    /\ \/ doStep[v] = "policy" /\ To(v, "role")
          /\ tree' = [tree EXCEPT ![BidderOf[v]] = @ \cup {Policy(v)}]
       \/ doStep[v] = "role" /\ To(v, "add")
          /\ tree' = [tree EXCEPT ![BidderOf[v]] = @ \cup {Role(v)}]
    /\ UNCHANGED <<cloned, gitIndex, gitCommits, base, remote, version>>

\* git add -A takes what other provisionings have written so far as well.  Each
\* command may fail, on another one's index.lock among other things.
GitAdd(v) ==
    /\ doStep[v] = "add" /\ To(v, "commit")
    /\ \/ gitIndex' = [gitIndex EXCEPT ![BidderOf[v]] = tree[BidderOf[v]]]
       \/ UNCHANGED gitIndex
    /\ UNCHANGED <<cloned, tree, gitCommits, base, remote, version>>

GitCommit(v) ==
    /\ doStep[v] = "commit" /\ To(v, "push")
    /\ \/ gitCommits' = [gitCommits EXCEPT ![BidderOf[v]] = gitIndex[BidderOf[v]]]
       \/ UNCHANGED gitCommits
    /\ UNCHANGED <<cloned, tree, gitIndex, base, remote, version>>

\* The remote takes what extends its own history only.
GitPush(v) ==
    LET b == BidderOf[v] IN
    /\ doStep[v] = "push" /\ To(v, "schema")
    /\ \/ /\ base[b] = version /\ gitCommits[b] # remote
          /\ remote' = gitCommits[b]
          /\ version' = version + 1
          /\ base' = [base EXCEPT ![b] = version + 1]
       \/ UNCHANGED <<remote, version, base>>
    /\ UNCHANGED <<cloned, tree, gitIndex, gitCommits>>

\* The schema is fetched for the log, and the name the function returns is
\* nowhere declared: createDroplet ends in a ReferenceError before its POST.
ReturnRbacRef(v) ==
    /\ doStep[v] = "schema"
    /\ To(v, "thrown")
    /\ UNCHANGED <<cloned, tree, gitIndex, gitCommits, base, remote, version>>

DoStep(v) ==
    \/ MakeDoctx(v) \/ IsDir(v) \/ GitInit(v) \/ GitPull(v)
    \/ WriteFiles(v) \/ GitAdd(v) \/ GitCommit(v) \/ GitPush(v) \/ ReturnRbacRef(v)

DoNext == \E v \in DoVms : DoStep(v)

DoSpec == DoInit /\ [][DoNext]_doVars /\ \A v \in DoVms : WF_doVars(DoStep(v))

-----------------------------------------------------------------------------
(* Properties                                                              *)

\* The issuer never reads a role without its policy: whatever provisionings of
\* one clone interleave and whichever commands fail, a commit that took the
\* role another one was writing has its policy too.
RolesHavePolicies == \A v \in DoVms : Role(v) \in remote => Policy(v) \in remote
=============================================================================
