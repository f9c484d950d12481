----------------------------- MODULE BrowserVms -----------------------------
(***************************************************************************)
(* A page of compute-spa that buys virtual machines: Dashboard.svelte runs *)
(* the request (vm-market.ts), keeps the list of machines (vm-storage.ts), *)
(* and tells the relay's SharedWorker which credentials to hand to which   *)
(* guest.  Records of the request live in the memory of the tab that made  *)
(* them (local-pds.ts); the worker reads them from the tab it elected.     *)
(***************************************************************************)
EXTENDS Naturals, SequencesExt, SeqFilter

CONSTANTS
    Pages,      \* tabs
    Machines,   \* requests, one machine each
    NameOf,     \* machine -> the name its user typed
    IssuerOf    \* machine -> OIDC issuer of the provider that wins it

ASSUME MachineAssumption == DOMAIN NameOf = Machines /\ DOMAIN IssuerOf = Machines

VARIABLES
    page,      \* page -> closed, idle, asking, awarding, accepting or provisioned
    wants,     \* page -> the machine its form is requesting
    saved,     \* page -> its list of machines, newest first
    disk,      \* the list in localStorage
    repo,      \* page -> machines whose records its in-browser PDS holds
    elected,   \* pages the worker may ask, in order of their announcement
    ttyd,      \* ttydRequests: name -> machine whose password is handed out
    trusted,   \* trustedIssuerUrls
    running,   \* machines at their providers
    issuers,   \* machines whose winner's config, and so its issuer, was read
    grants,    \* machines with an RBAC record
    requested, \* machines that were asked for
    latest     \* history: name -> the last machine requested under it

vmVars == <<page, wants, saved, disk, repo, elected, ttyd, trusted, running, issuers, grants, requested, latest>>
workerVars == <<ttyd, trusted>>

NoMachine == "none"
Names == {NameOf[m] : m \in Machines}

VmInit ==
    /\ page = [p \in Pages |-> "closed"] /\ wants = [p \in Pages |-> NoMachine]
    /\ saved = [p \in Pages |-> <<>>] /\ disk = <<>>
    /\ repo = [p \in Pages |-> {}] /\ elected = <<>>
    /\ ttyd = [n \in Names |-> NoMachine] /\ trusted = {}
    /\ running = {} /\ issuers = {} /\ grants = {} /\ requested = {}
    /\ latest = [n \in Names |-> NoMachine]

InList(list) == {list[i] : i \in 1..Len(list)}

\* trustedIssuers: a machine whose bid config could not be read has none.
TrustedIssuers(list) == {IssuerOf[m] : m \in InList(list) \cap issuers}

\* The effect on the saved list: the issuers replace the worker's set, and each
\* machine is registered again in the order of the list.
Reregister(table, list) ==
    [n \in Names |->
        LET of == {i \in 1..Len(list) : NameOf[list[i]] = n}
        IN  IF of = {} THEN table[n] ELSE list[CHOOSE i \in of : \A j \in of : j <= i]]

Rewire(list) == trusted' = TrustedIssuers(list) /\ ttyd' = Reregister(ttyd, list)

-----------------------------------------------------------------------------
(* Tabs                                                                    *)

\* The page loads its list and boots an empty repository.
OpenPage(p) ==
    /\ page[p] = "closed"
    /\ page' = [page EXCEPT ![p] = "idle"]
    /\ saved' = [saved EXCEPT ![p] = disk]
    /\ elected' = Append(elected, p)
    /\ UNCHANGED <<wants, disk, repo, running, issuers, grants, requested, latest>>
    /\ Rewire(disk)

\* Reload or close, also in the middle of a request.  The worker ends with its
\* last page.
ClosePage(p) ==
    /\ page[p] # "closed"
    /\ page' = [page EXCEPT ![p] = "closed"] /\ wants' = [wants EXCEPT ![p] = NoMachine]
    /\ saved' = [saved EXCEPT ![p] = <<>>] /\ repo' = [repo EXCEPT ![p] = {}]
    /\ elected' = RemoveFirst(elected, p)
    /\ IF elected' = <<>> THEN ttyd' = [n \in Names |-> NoMachine] /\ trusted' = {} ELSE UNCHANGED workerVars
    /\ UNCHANGED <<disk, running, issuers, grants, requested, latest>>

-----------------------------------------------------------------------------
(* onsubmit and requestVM                                                  *)

\* The handshake is registered first; the vm and rfp records are created.
Submit(p, m) ==
    /\ page[p] = "idle" /\ m \notin requested
    /\ page' = [page EXCEPT ![p] = "asking"] /\ wants' = [wants EXCEPT ![p] = m]
    /\ requested' = requested \cup {m}
    /\ latest' = [latest EXCEPT ![NameOf[m]] = m]
    /\ ttyd' = [ttyd EXCEPT ![NameOf[m]] = m]
    /\ repo' = [repo EXCEPT ![p] = @ \cup {m}]
    /\ UNCHANGED <<saved, disk, elected, trusted, running, issuers, grants>>

\* A bidder or provider reads a record of m through the relay.
Resolvable(m) == elected # <<>> /\ m \in repo[Head(elected)]

\* Discovery, submitRfp and the bid window.  No bid in time is an error.
CollectBids(p) ==
    /\ page[p] = "asking"
    /\ \/ Resolvable(wants[p]) /\ page' = [page EXCEPT ![p] = "awarding"] /\ UNCHANGED wants
       \/ page' = [page EXCEPT ![p] = "idle"] /\ wants' = [wants EXCEPT ![p] = NoMachine]
    /\ UNCHANGED <<saved, disk, repo, elected, workerVars, running, issuers, grants, requested, latest>>

\* The winner's config is read and the RBAC record created; a failure there
\* skips the record and the request goes on.
Award(p) ==
    /\ page[p] = "awarding"
    /\ page' = [page EXCEPT ![p] = "accepting"]
    /\ issuers' \in {issuers, issuers \cup {wants[p]}}
    /\ grants' \in {grants, grants \cup (issuers' \cap {wants[p]})}
    /\ UNCHANGED <<wants, saved, disk, repo, elected, workerVars, running, requested, latest>>

\* submitAccept: the provider reads the accept and starts the machine, or the
\* call fails and the page gives up.
SubmitAccept(p) ==
    /\ page[p] = "accepting"
    /\ \/ /\ Resolvable(wants[p])
          /\ running' = running \cup {wants[p]}
          /\ page' = [page EXCEPT ![p] = "provisioned"] /\ UNCHANGED wants
       \/ /\ page' = [page EXCEPT ![p] = "idle"] /\ wants' = [wants EXCEPT ![p] = NoMachine]
          /\ UNCHANGED running
    /\ UNCHANGED <<saved, disk, repo, elected, workerVars, issuers, grants, requested, latest>>

\* Mutation: an older entry of the name stays in the list.
PersistKeepingOld(list, m) == <<m>> \o list

\* persistVM: newest first, one entry per name.
Persist(list, m) ==
    <<m>> \o AtIndices(list, {i \in DOMAIN list : NameOf[list[i]] # NameOf[m]})

\* The answer: the page's list, not the stored one, is extended and stored.
\* The answer may be lost, and with it every trace of the machine.
AcceptReturns(p) ==
    /\ page[p] = "provisioned"
    /\ page' = [page EXCEPT ![p] = "idle"] /\ wants' = [wants EXCEPT ![p] = NoMachine]
    /\ UNCHANGED <<repo, elected, running, issuers, grants, requested, latest>>
    /\ \/ /\ saved' = [saved EXCEPT ![p] = Persist(@, wants[p])]
          /\ disk' = saved'[p]
          /\ Rewire(disk')
       \/ UNCHANGED <<saved, disk, workerVars>>

\* deleteVM: the event and the record's deletion may fail; the entry goes.
DeleteVm(p, m) ==
    /\ page[p] # "closed" /\ m \in InList(saved[p])
    /\ running' \in {running, running \ {m}}
    /\ grants' \in {grants, grants \ {m}}
    /\ saved' = [saved EXCEPT ![p] = AtIndices(@, {i \in DOMAIN @ : @[i] # m})]
    /\ disk' = saved'[p]
    /\ UNCHANGED <<page, wants, repo, elected, issuers, requested, latest>>
    /\ Rewire(disk')

VmNext ==
    \E p \in Pages :
        \/ OpenPage(p) \/ ClosePage(p) \/ CollectBids(p) \/ Award(p) \/ SubmitAccept(p) \/ AcceptReturns(p)
        \/ \E m \in Machines : Submit(p, m) \/ DeleteVm(p, m)

VmSpec == VmInit /\ [][VmNext]_vmVars

-----------------------------------------------------------------------------
(* Properties                                                              *)

\* While a page is open, the worker can serve the guest of every machine in
\* the stored list: it hands out that machine's password, unless its name was
\* asked for again, and trusts its issuer; reloads, failed requests, superseded
\* names, deletions and the lists other pages hold do not take that away
\* (vm-storage.ts:49-53, Dashboard.svelte:145-155).
ListedGuestIsServed ==
    elected # <<>> =>
        \A m \in InList(disk) :
            /\ latest[NameOf[m]] = m => ttyd[NameOf[m]] = m
            /\ m \in issuers => IssuerOf[m] \in trusted
=============================================================================
