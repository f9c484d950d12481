-------------------------- MODULE EphemeralCompute --------------------------
(***************************************************************************)
(* The ephemeral bidder (hono-factory-ephemeral-compute-bidder) with the   *)
(* local compute provider and the workload-identity issuer it hosts.  An   *)
(* accept is answered with a receipt while provisioning goes on in the     *)
(* background: grant, droplet entry and nonce, docker run, address, ssh.   *)
(* The booting container proves itself to the issuer with its nonce and is *)
(* given a token.  vm.delete waits for the provisioning it undoes.         *)
(* A contract, its container and its nonce share one name.                 *)
(***************************************************************************)
EXTENDS Naturals, FiniteSets

CONSTANTS
    Contracts,   \* accepted bids
    Deletes,     \* vm.delete events, each for one contract
    DeleteOf,
    Proofs,      \* calls of /v1/oidc/prove, each with the nonce of one contract
    ProofOf

ASSUME EphemeralAssumption ==
    /\ DeleteOf \in [Deletes -> Contracts]
    /\ ProofOf \in [Proofs -> Contracts]

VARIABLES
    vmMode,     \* containerMode: "container" or "vm", fixed per behaviour
    accepted,   \* onAccept: none, signing, acked or failed
    prov,       \* the background provisioning of each contract
    active,     \* activeContracts
    grants,     \* com.fedproxy.rbac records in the repository
    kept,       \* history: grants and containers whose removal failed
    rbacBy,     \* rbacByProvider
    droplet,    \* the issuer's droplet entry: none, without or with an address
    nonces,     \* nonceStore
    containers, \* docker containers
    proof,      \* where each call of prove is
    ephTokens,     \* history: tokens issued per contract
    del,        \* where each vm.delete handler is
    ephIssuer      \* the relay of the issuer

ephVars == <<vmMode, accepted, prov, active, grants, kept, rbacBy, droplet, nonces,
             containers, proof, ephTokens, del, ephIssuer>>
acceptVars  == <<vmMode, accepted, active>>
proofVars   == <<proof, ephTokens>>
deleteVars  == <<del, ephIssuer, kept>>

EphInit ==
    /\ vmMode \in {"container", "vm"}
    /\ accepted = [c \in Contracts |-> "none"]
    /\ prov = [c \in Contracts |-> "none"]
    /\ active = {} /\ grants = {} /\ kept = {} /\ rbacBy = {} /\ nonces = {} /\ containers = {}
    /\ droplet = [c \in Contracts |-> "none"]
    /\ proof = [p \in Proofs |-> "none"]
    /\ ephTokens = [c \in Contracts |-> 0]
    /\ del = [d \in Deletes |-> "none"]
    /\ ephIssuer = "up"

-----------------------------------------------------------------------------
(* submitAccept                                                            *)

\* onAccept starts provisioning and awaits the signed receipt, not the VM.
EphAccept(c) ==
    /\ accepted[c] = "none"
    /\ accepted' = [accepted EXCEPT ![c] = "signing"]
    /\ prov' = [prov EXCEPT ![c] = "resolving"]
    /\ UNCHANGED <<vmMode, active, grants, rbacBy, droplet, nonces, containers, proofVars, deleteVars>>

\* The receipt is written and the contract tracked, or writing it fails and
\* nobody will ever ask for the VM to be deleted.
EphReceipt(c) ==
    /\ accepted[c] = "signing"
    /\ \/ accepted' = [accepted EXCEPT ![c] = "acked"] /\ active' = active \cup {c}
       \/ accepted' = [accepted EXCEPT ![c] = "failed"] /\ UNCHANGED active
    /\ UNCHANGED <<vmMode, prov, grants, rbacBy, droplet, nonces, containers, proofVars, deleteVars>>

-----------------------------------------------------------------------------
(* provision                                                               *)

\* A record cannot be resolved, or has no VM: providerIdPromise is undefined.
ProvisionResolveFails(c) ==
    /\ prov[c] = "resolving"
    /\ prov' = [prov EXCEPT ![c] = "failed"]
    /\ UNCHANGED <<acceptVars, grants, rbacBy, droplet, nonces, containers, proofVars, deleteVars>>

\* configureRbac writes the grant; then the droplet is registered.
ProvisionGrant(c) ==
    /\ prov[c] = "resolving"
    /\ prov' = [prov EXCEPT ![c] = "granted"]
    /\ grants' = grants \cup {c}
    /\ droplet' = [droplet EXCEPT ![c] = "noaddress"]
    /\ UNCHANGED <<acceptVars, rbacBy, nonces, containers, proofVars, deleteVars>>

\* ProvisioningData.create and associateWithDroplet, then docker run, which
\* may fail.
ProvisionRun(c) ==
    /\ prov[c] = "granted"
    /\ nonces' = nonces \cup {c}
    /\ \/ prov' = [prov EXCEPT ![c] = "running"] /\ containers' = containers \cup {c}
       \/ prov' = [prov EXCEPT ![c] = "failed"] /\ UNCHANGED containers
    /\ UNCHANGED <<acceptVars, grants, rbacBy, droplet, proofVars, deleteVars>>

\* Containers get their address before the wait for ssh (onIp); a failed
\* docker inspect fails the provisioning.
ProvisionAddress(c) ==
    /\ prov[c] = "running" /\ vmMode = "container"
    /\ \/ prov' = [prov EXCEPT ![c] = "addressed"]
          /\ droplet' = [droplet EXCEPT ![c] = "address"]
       \/ prov' = [prov EXCEPT ![c] = "failed"] /\ UNCHANGED droplet
    /\ UNCHANGED <<acceptVars, grants, rbacBy, nonces, containers, proofVars, deleteVars>>

\* ssh answers, or for a VM the wait for it is over: provision returns the id.
ProvisionReady(c) ==
    /\ prov[c] = IF vmMode = "vm" THEN "running" ELSE "addressed"
    /\ prov' = [prov EXCEPT ![c] = "ok"]
    /\ droplet' = [droplet EXCEPT ![c] = "address"]
    /\ rbacBy' = rbacBy \cup {c}
    /\ UNCHANGED <<acceptVars, grants, nonces, containers, proofVars, deleteVars>>

\* ssh of a container does not answer in time: provision throws and leaves
\* the container, the droplet entry and the grant behind.
ProvisionSshTimeout(c) ==
    /\ prov[c] = "addressed"
    /\ prov' = [prov EXCEPT ![c] = "failed"]
    /\ UNCHANGED <<acceptVars, grants, rbacBy, droplet, nonces, containers, proofVars, deleteVars>>

-----------------------------------------------------------------------------
(* /v1/oidc/prove                                                          *)

\* Mutation: the nonce is taken out only after the signature was checked.
ProveStartKeepsNonce(p) ==
    LET c == ProofOf[p] IN
    /\ proof[p] = "none" /\ c \in containers /\ ephIssuer = "up"
    /\ UNCHANGED nonces
    /\ proof' = [proof EXCEPT ![p] =
                    IF c \in nonces /\ droplet[c] = "address" THEN "checking" ELSE "refused"]
    /\ UNCHANGED <<acceptVars, prov, grants, rbacBy, droplet, containers, ephTokens, deleteVars>>

\* The container calls through the relay.  validate takes the nonce out of the
\* store, looks up the droplet and needs its address.
ProveStart(p) ==
    LET c == ProofOf[p] IN
    /\ proof[p] = "none" /\ c \in containers /\ ephIssuer = "up"
    /\ nonces' = nonces \ {c}
    /\ proof' = [proof EXCEPT ![p] =
                    IF c \in nonces /\ droplet[c] = "address" THEN "checking" ELSE "refused"]
    /\ UNCHANGED <<acceptVars, prov, grants, rbacBy, droplet, containers, ephTokens, deleteVars>>

\* ssh-keyscan and the signature check ended; the key scanned is that of the
\* container, if it still runs.
ProveEnd(p) ==
    LET c == ProofOf[p] IN
    /\ proof[p] = "checking"
    /\ \/ c \in containers /\ proof' = [proof EXCEPT ![p] = "token"]
          /\ ephTokens' = [ephTokens EXCEPT ![c] = @ + 1]
       \/ proof' = [proof EXCEPT ![p] = "refused"] /\ UNCHANGED ephTokens
    /\ UNCHANGED <<acceptVars, prov, grants, rbacBy, droplet, nonces, containers, deleteVars>>

-----------------------------------------------------------------------------
(* vm.delete                                                               *)

\* onVmDelete up to its await; events for unknown receipts are refused.
EphDeleteStart(d) ==
    /\ del[d] = "none"
    /\ DeleteOf[d] \in active
    /\ del' = [del EXCEPT ![d] = "waiting"]
    /\ UNCHANGED <<acceptVars, prov, grants, kept, rbacBy, droplet, nonces, containers, ephIssuer, proofVars>>

\* Mutation: provisioning under way counts as no provisioning.
SettledAlways(c) == TRUE

Settled(c) == prov[c] \in {"ok", "failed"}

\* providerIdPromise is settled.  With an id, destroy first deletes the grant,
\* which may fail.
EphDestroyGrant(d) ==
    LET c == DeleteOf[d] IN
    /\ del[d] = "waiting" /\ Settled(c)
    /\ IF prov[c] = "ok" /\ c \in rbacBy
       THEN \E ok \in BOOLEAN : /\ grants' = IF ok THEN grants \ {c} ELSE grants
                                /\ kept' = IF ok THEN kept ELSE kept \cup {<<"grant", c>>}
       ELSE UNCHANGED <<grants, kept>>
    /\ del' = [del EXCEPT ![d] = IF prov[c] = "ok" THEN "revoked" ELSE "destroyed"]
    /\ UNCHANGED <<acceptVars, prov, rbacBy, droplet, nonces, containers, ephIssuer, proofVars>>

\* The rest of destroy: the container is killed and removed, or is not, as what
\* docker says is ignored, and the droplet is forgotten.
EphDestroy(d) ==
    LET c == DeleteOf[d] IN
    /\ del[d] = "revoked"
    /\ rbacBy' = rbacBy \ {c}
    /\ \/ containers' = containers \ {c} /\ UNCHANGED kept
       \/ kept' = kept \cup {<<"container", c>>} /\ UNCHANGED containers
    /\ droplet' = [droplet EXCEPT ![c] = "none"]
    /\ del' = [del EXCEPT ![d] = "destroyed"]
    /\ UNCHANGED <<acceptVars, prov, grants, nonces, ephIssuer, proofVars>>

\* teardown stops the issuer's relay, whatever other contracts there are, and
\* the contract is forgotten.
EphDeleteEnd(d) ==
    /\ del[d] = "destroyed"
    /\ ephIssuer' = "down"
    /\ active' = active \ {DeleteOf[d]}
    /\ del' = [del EXCEPT ![d] = "done"]
    /\ UNCHANGED <<vmMode, accepted, prov, grants, kept, rbacBy, droplet, nonces, containers, proofVars>>

ProvisionStep(c) ==
    \/ ProvisionResolveFails(c) \/ ProvisionGrant(c) \/ ProvisionRun(c)
    \/ ProvisionAddress(c) \/ ProvisionReady(c) \/ ProvisionSshTimeout(c)

DeleteStep(d) == EphDestroyGrant(d) \/ EphDestroy(d) \/ EphDeleteEnd(d)

EphNext ==
    \/ \E c \in Contracts : EphAccept(c) \/ EphReceipt(c) \/ ProvisionStep(c)
    \/ \E p \in Proofs : ProveStart(p) \/ ProveEnd(p)
    \/ \E d \in Deletes : EphDeleteStart(d) \/ DeleteStep(d)

\* Background work goes on: docker and the wait for ssh have time limits.
EphFairness ==
    /\ \A c \in Contracts : WF_ephVars(ProvisionStep(c))
    /\ \A d \in Deletes : WF_ephVars(DeleteStep(d))

EphSpec == EphInit /\ [][EphNext]_ephVars /\ EphFairness

-----------------------------------------------------------------------------
(* Properties                                                              *)

\* A contract that was deleted while or after it was provisioned leaves no
\* container, no droplet entry and no grant, unless its provisioning failed
\* half way, the grant could not be deleted, or docker did not remove the
\* container.
DeletedLeavesNothing ==
    \A c \in Contracts :
        accepted[c] = "acked" /\ c \notin active =>
            /\ prov[c] \in {"ok", "failed"}
            /\ prov[c] = "ok" => /\ c \in containers => <<"container", c>> \in kept
                                 /\ droplet[c] = "none"
                                 /\ c \in grants => <<"grant", c>> \in kept

\* However many calls of prove overlap, a nonce yields at most one token.
OneTokenPerNonce == \A c \in Contracts : ephTokens[c] <= 1

\* Every vm.delete that was taken up ends, however provisioning turns out.
DeleteCompletes == \A d \in Deletes : del[d] = "waiting" ~> del[d] = "done"

\* A vm.delete that raced with provisioning still leaves nothing behind, and the
\* nonce of a guest yields one token however many proofs overlap.
EphemeralIsSound == DeletedLeavesNothing /\ OneTokenPerNonce
=============================================================================
