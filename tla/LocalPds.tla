------------------------------ MODULE LocalPds ------------------------------
(***************************************************************************)
(* The identity of the compute-spa in the browser.  Every tab boots a PDS  *)
(* of its own (local-pds.ts) and starts the relay client; both read the    *)
(* relay's key from localStorage, which all tabs share, and make one when  *)
(* there is none.  The PDS also has an attestation key there.  A did:plc   *)
(* is the pair of the two keys of its genesis operation; its endpoint is   *)
(* the relay's subdomain for the first one.  The SharedWorker takes the    *)
(* first key any tab sends it.                                             *)
(***************************************************************************)
EXTENDS Naturals, FiniteSets

CONSTANTS
    SpaTabs,
    Targets,     \* atproto-proxy headers: [host, doc] with doc what its DID
                 \* document says: "found", "noService" or "unreachable"
    MaxKeys      \* bound on the keys ever made

ASSUME LocalPdsAssumption ==
    /\ MaxKeys \in Nat
    /\ \A x \in Targets : x.doc \in {"found", "noService", "unreachable"}

NoKey == 0

VARIABLES
    storedKey,   \* localStorage relay:keypair
    storedAtt,   \* localStorage local-pds:attestation-keypair
    keysMade,
    relayBoot,   \* tab -> relayClient.start: off, creating or started
    pdsBoot,     \* tab -> startLocalPds: where it is
    pdsKey,      \* tab -> the key its PDS signs with
    pdsAtt,      \* tab -> its attestation key
    workerKey,   \* key pair of the SharedWorker
    plcDids,     \* the did:plc identifiers of the directory
    settled,     \* history: tab -> both keys were stored when it opened, and no
                 \* tab was making one
    forwarded    \* calls the proxy middleware sent on: [iss, to, aud]

localVars == <<storedKey, storedAtt, keysMade, relayBoot, pdsBoot, pdsKey, pdsAtt, workerKey,
               plcDids, settled, forwarded>>

LocalInit ==
    /\ storedKey = NoKey /\ storedAtt = NoKey /\ keysMade = 0
    /\ relayBoot = [t \in SpaTabs |-> "off"] /\ pdsBoot = [t \in SpaTabs |-> "off"]
    /\ pdsKey = [t \in SpaTabs |-> NoKey] /\ pdsAtt = [t \in SpaTabs |-> NoKey]
    /\ workerKey = NoKey /\ plcDids = {}
    /\ settled = [t \in SpaTabs |-> FALSE] /\ forwarded = {}

FreshKey == keysMade < MaxKeys /\ keysMade' = keysMade + 1
NewKey == keysMade + 1
ToPds(t, to) == pdsBoot' = [pdsBoot EXCEPT ![t] = to]
DidOf(t) == <<pdsKey[t], pdsAtt[t]>>
Quiet ==
    /\ storedKey # NoKey /\ storedAtt # NoKey
    /\ \A t \in SpaTabs : relayBoot[t] # "creating" /\ pdsBoot[t] \notin {"creating", "creatingAtt"}

\* ensureKeypair of the worker: only the first key counts.
InitWorker(k) == workerKey' = IF workerKey = NoKey THEN k ELSE workerKey

-----------------------------------------------------------------------------
(* Boot of a tab                                                           *)

\* onMount: auth.init and relayClient.start both read the storage at once.
OpenTab(t) ==
    /\ relayBoot[t] = "off"
    /\ settled' = [settled EXCEPT ![t] = Quiet]
    /\ IF storedKey # NoKey
       THEN /\ relayBoot' = [relayBoot EXCEPT ![t] = "started"]
            /\ InitWorker(storedKey)
            /\ pdsKey' = [pdsKey EXCEPT ![t] = storedKey]
            /\ ToPds(t, "keyed")
       ELSE /\ relayBoot' = [relayBoot EXCEPT ![t] = "creating"]
            /\ ToPds(t, "waiting")
            /\ UNCHANGED <<pdsKey, workerKey>>
    /\ UNCHANGED <<storedKey, storedAtt, keysMade, pdsAtt, plcDids, forwarded>>

\* relayPrivateKeyHex after its awaits: what it made replaces what is stored.
RelaySavesKey(t) ==
    /\ relayBoot[t] = "creating"
    /\ FreshKey
    /\ storedKey' = NewKey
    /\ InitWorker(NewKey)
    /\ relayBoot' = [relayBoot EXCEPT ![t] = "started"]
    /\ UNCHANGED <<storedAtt, pdsBoot, pdsKey, pdsAtt, plcDids, settled, forwarded>>

\* loadOrGenerateKeypair: a later attempt finds the key, or the last does not.
PdsRetriesKey(t) ==
    /\ pdsBoot[t] = "waiting"
    /\ IF storedKey # NoKey
       THEN pdsKey' = [pdsKey EXCEPT ![t] = storedKey] /\ ToPds(t, "keyed")
       ELSE UNCHANGED pdsKey /\ ToPds(t, "creating")
    /\ UNCHANGED <<storedKey, storedAtt, keysMade, relayBoot, pdsAtt, workerKey, plcDids, settled, forwarded>>

PdsSavesKey(t) ==
    /\ pdsBoot[t] = "creating"
    /\ FreshKey
    /\ storedKey' = NewKey
    /\ pdsKey' = [pdsKey EXCEPT ![t] = NewKey]
    /\ ToPds(t, "keyed")
    /\ UNCHANGED <<storedAtt, relayBoot, pdsAtt, workerKey, plcDids, settled, forwarded>>

\* Mutation: a stored attestation key is not used.
LoadAttestationKeyNever(t) ==
    /\ pdsBoot[t] = "keyed"
    /\ UNCHANGED pdsAtt /\ ToPds(t, "creatingAtt")
    /\ UNCHANGED <<storedKey, storedAtt, keysMade, relayBoot, pdsKey, workerKey, plcDids, settled, forwarded>>

LoadAttestationKey(t) ==
    /\ pdsBoot[t] = "keyed"
    /\ IF storedAtt # NoKey
       THEN pdsAtt' = [pdsAtt EXCEPT ![t] = storedAtt] /\ ToPds(t, "genesis")
       ELSE UNCHANGED pdsAtt /\ ToPds(t, "creatingAtt")
    /\ UNCHANGED <<storedKey, storedAtt, keysMade, relayBoot, pdsKey, workerKey, plcDids, settled, forwarded>>

SaveAttestationKey(t) ==
    /\ pdsBoot[t] = "creatingAtt"
    /\ FreshKey
    /\ storedAtt' = NewKey
    /\ pdsAtt' = [pdsAtt EXCEPT ![t] = NewKey]
    /\ ToPds(t, "genesis")
    /\ UNCHANGED <<storedKey, relayBoot, pdsKey, workerKey, plcDids, settled, forwarded>>

\* Mutation: every failure to resolve the DID counts as "not there", and a
\* failure to submit is ignored.
SubmitOwnDidIgnored(t) ==
    /\ pdsBoot[t] = "submit"
    /\ plcDids' \in {plcDids, plcDids \cup {DidOf(t)}}
    /\ ToPds(t, "up")
    /\ UNCHANGED <<storedKey, storedAtt, keysMade, relayBoot, pdsKey, pdsAtt, workerKey, settled, forwarded>>

\* plc.resolve of the DID of the genesis operation; an error ends the boot.
ResolveDid(t) ==
    /\ pdsBoot[t] = "genesis"
    /\ \/ ToPds(t, IF DidOf(t) \in plcDids THEN "up" ELSE "submit")
       \/ ToPds(t, "failed")
    /\ UNCHANGED <<storedKey, storedAtt, keysMade, relayBoot, pdsKey, pdsAtt, workerKey, plcDids, settled, forwarded>>

\* submitOp; the directory refuses a second genesis operation, and an answer
\* may be lost.
SubmitOwnDid(t) ==
    /\ pdsBoot[t] = "submit"
    /\ \/ /\ DidOf(t) \notin plcDids
          /\ plcDids' = plcDids \cup {DidOf(t)}
          /\ \E to \in {"up", "failed"} : ToPds(t, to)
       \/ UNCHANGED plcDids /\ ToPds(t, "failed")
    /\ UNCHANGED <<storedKey, storedAtt, keysMade, relayBoot, pdsKey, pdsAtt, workerKey, settled, forwarded>>

\* The page is closed.  The worker ends with its last tab.
CloseTab(t) ==
    /\ relayBoot[t] # "off"
    /\ relayBoot' = [relayBoot EXCEPT ![t] = "off"]
    /\ ToPds(t, "off")
    /\ pdsKey' = [pdsKey EXCEPT ![t] = NoKey] /\ pdsAtt' = [pdsAtt EXCEPT ![t] = NoKey]
    /\ settled' = [settled EXCEPT ![t] = FALSE]
    /\ workerKey' = IF \A u \in SpaTabs \ {t} : relayBoot[u] = "off" THEN NoKey ELSE workerKey
    /\ UNCHANGED <<storedKey, storedAtt, keysMade, plcDids, forwarded>>

-----------------------------------------------------------------------------
(* The atproto-proxy middleware                                            *)

\* A DID document without the service is an error; one that cannot be fetched
\* makes the host itself the endpoint.
Endpoint(x) == IF x.doc = "found" THEN <<"service of", x.host>> ELSE <<"host", x.host>>

\* The call goes out with a token for the endpoint's host.
ForwardCall(t, x) ==
    /\ pdsBoot[t] = "up" /\ x.doc # "noService"
    /\ forwarded' = forwarded \cup {[iss |-> DidOf(t), to |-> Endpoint(x), aud |-> Endpoint(x)]}
    /\ UNCHANGED <<storedKey, storedAtt, keysMade, relayBoot, pdsBoot, pdsKey, pdsAtt, workerKey,
                   plcDids, settled>>

LocalNext ==
    \E t \in SpaTabs :
        \/ OpenTab(t) \/ RelaySavesKey(t) \/ PdsRetriesKey(t) \/ PdsSavesKey(t)
        \/ LoadAttestationKey(t) \/ SaveAttestationKey(t) \/ ResolveDid(t) \/ SubmitOwnDid(t)
        \/ CloseTab(t)
        \/ \E x \in Targets : ForwardCall(t, x)

LocalSpec == LocalInit /\ [][LocalNext]_localVars

-----------------------------------------------------------------------------
(* Properties                                                              *)

\* However many tabs raced to make the keys: tabs that open once both are
\* stored and nobody is making one have one identity between them.
LateTabsShareIdentity ==
    \A t, u \in SpaTabs :
        (settled[t] /\ settled[u] /\ pdsAtt[t] # NoKey /\ pdsAtt[u] # NoKey) => DidOf(t) = DidOf(u)

\* Every call a tab forwards is issued by a DID the directory knows, so that
\* its receiver can check the signature, whatever fails while tabs boot.
CallersAreVerifiable == \A c \in forwarded : c.iss \in plcDids

\* Tabs that open after the keys were settled are one identity, and nobody is
\* called in the name of a DID the directory does not know.
IdentityIsSound == LateTabsShareIdentity /\ CallersAreVerifiable
=============================================================================
