----------------------------- MODULE DropletApi -----------------------------
(***************************************************************************)
(* The droplet API of the mini cloud (hono-factory-compute-provider-local, *)
(* served by qemu/main.ts): POST registers a droplet and its nonce and     *)
(* starts it in the background, DELETE forgets it and removes its          *)
(* container, a signal removes the containers of all registered droplets.  *)
(* A caller sees only the droplets of its own account (actx).              *)
(***************************************************************************)
EXTENDS Naturals, FiniteSets

CONSTANTS
    Droplets,   \* ids that may be created
    ActxOf,     \* the account that creates each
    ApiCalls    \* DELETE requests, each by one account for one droplet

ASSUME DropletAssumption ==
    \A k \in ApiCalls : k.id \in Droplets

VARIABLES
    asContainer,  \* containerMode, fixed per behaviour
    registry,     \* dropletsByActx
    spawn,        \* spawnVM of each droplet
    dStatus,      \* droplet.status
    dAddress,     \* droplets whose networks name an address
    docker,       \* containers
    provNonces,   \* provisioning_nonces
    call,         \* DELETE handlers
    early,        \* history: droplets deleted, or left at exit, too early for docker rm
    stuck,        \* history: containers docker did not remove when it was asked to
    doomed,       \* the ids killAllDroplets read
    host          \* up, stopping or exited

apiVars == <<asContainer, registry, spawn, dStatus, dAddress, docker, provNonces, call, early, stuck, doomed, host>>

ApiInit ==
    /\ asContainer \in BOOLEAN
    /\ registry = {} /\ dAddress = {} /\ docker = {} /\ provNonces = {}
    /\ early = {} /\ stuck = {} /\ doomed = {}
    /\ spawn = [d \in Droplets |-> "none"]
    /\ dStatus = [d \in Droplets |-> "new"]
    /\ call = [k \in ApiCalls |-> "none"]
    /\ host = "up"

\* POST /v2/droplets, or provisionDroplet: registered before the nonce exists.
CreateDroplet(d) ==
    /\ host # "exited" /\ spawn[d] = "none"
    /\ spawn' = [spawn EXCEPT ![d] = "preparing"]
    /\ registry' = registry \cup {d}
    /\ UNCHANGED <<asContainer, dStatus, dAddress, docker, provNonces, call, early, stuck, doomed, host>>

\* ProvisioningData.create and associateWithDroplet return, and spawnVM starts;
\* if they throw, the caller is told so and the entry stays.
StartSpawn(d) ==
    /\ host # "exited" /\ spawn[d] = "preparing"
    /\ \/ spawn' = [spawn EXCEPT ![d] = "starting"] /\ provNonces' = provNonces \cup {d}
       \/ spawn' = [spawn EXCEPT ![d] = "ended"] /\ UNCHANGED provNonces
    /\ UNCHANGED <<asContainer, registry, dStatus, dAddress, docker, call, early, stuck, doomed, host>>

\* docker run, whether or not the droplet is still registered.  It is another
\* process: it runs on when the server exits.
DockerRun(d) ==
    /\ spawn[d] = "starting"
    /\ \/ /\ spawn' = [spawn EXCEPT ![d] = "probing"]
          /\ docker' = docker \cup {d}
          /\ UNCHANGED dStatus
       \/ /\ spawn' = [spawn EXCEPT ![d] = "ended"]
          /\ dStatus' = [dStatus EXCEPT ![d] = "off"]
          /\ UNCHANGED docker
    /\ UNCHANGED <<asContainer, registry, dAddress, provNonces, call, early, stuck, doomed, host>>

\* docker inspect: a container gets its address now, a VM only with ssh.
InspectIp(d) ==
    /\ host # "exited" /\ spawn[d] = "probing" /\ d \in docker
    /\ spawn' = [spawn EXCEPT ![d] = "polling"]
    /\ dAddress' = IF asContainer THEN dAddress \cup {d} ELSE dAddress
    /\ UNCHANGED <<asContainer, registry, dStatus, docker, provNonces, call, early, stuck, doomed, host>>

\* ssh answers.
SshReady(d) ==
    /\ host # "exited" /\ spawn[d] = "polling" /\ d \in docker
    /\ spawn' = [spawn EXCEPT ![d] = "ended"]
    /\ dAddress' = dAddress \cup {d}
    /\ dStatus' = [dStatus EXCEPT ![d] = "active"]
    /\ UNCHANGED <<asContainer, registry, docker, provNonces, call, early, stuck, doomed, host>>

\* docker inspect fails or ssh times out: a container droplet is off, a VM
\* droplet stays new; the container is left running.
ProbeFails(d) ==
    /\ host # "exited" /\ spawn[d] \in {"probing", "polling"}
    /\ spawn' = [spawn EXCEPT ![d] = "ended"]
    /\ dStatus' = IF asContainer THEN [dStatus EXCEPT ![d] = "off"] ELSE dStatus
    /\ UNCHANGED <<asContainer, registry, dAddress, docker, provNonces, call, early, stuck, doomed, host>>

\* getProvisioningNonceDropletId in /v1/oidc/prove: read, then deleted.
TakeNonce(d) ==
    /\ host # "exited" /\ d \in docker /\ d \in provNonces
    /\ provNonces' = provNonces \ {d}
    /\ UNCHANGED <<asContainer, registry, spawn, dStatus, dAddress, docker, call, early, stuck, doomed, host>>

-----------------------------------------------------------------------------

\* DELETE /v2/droplets/:id up to its first await.  A droplet of another
\* account is not found.
DeleteDroplet(k) ==
    /\ host # "exited" /\ call[k] = "none"
    /\ IF k.id \in registry /\ ActxOf[k.id] = k.actx
       THEN /\ registry' = registry \ {k.id}
            /\ early' = IF spawn[k.id] \in {"preparing", "starting"} THEN early \cup {k.id} ELSE early
            /\ call' = [call EXCEPT ![k] = "removing"]
       ELSE call' = [call EXCEPT ![k] = "404"] /\ UNCHANGED <<registry, early>>
    /\ UNCHANGED <<asContainer, spawn, dStatus, dAddress, docker, provNonces, stuck, doomed, host>>

\* Mutation: only droplets that came up are removed from docker.
RemoveActiveContainer(k) ==
    /\ call[k] = "removing"
    /\ docker' = IF dStatus[k.id] = "active" THEN docker \ {k.id} ELSE docker
    /\ call' = [call EXCEPT ![k] = "204"]
    /\ UNCHANGED <<asContainer, registry, spawn, dStatus, dAddress, provNonces, early, stuck, doomed, host>>

\* docker kill and docker rm -f; what they answer is ignored, and the caller is
\* told that the droplet is gone.
RemoveContainer(k) ==
    /\ call[k] = "removing"
    /\ \/ docker' = docker \ {k.id} /\ UNCHANGED stuck
       \/ k.id \in docker /\ stuck' = stuck \cup {k.id} /\ UNCHANGED docker
    /\ call' = [call EXCEPT ![k] = "204"]
    /\ UNCHANGED <<asContainer, registry, spawn, dStatus, dAddress, provNonces, early, doomed, host>>

\* SIGINT or SIGTERM: the relay is stopped, killAllDroplets reads the ids.
\* Direct requests are still served.
Shutdown ==
    /\ host = "up"
    /\ host' = "stopping"
    /\ doomed' = registry
    /\ UNCHANGED <<asContainer, registry, spawn, dStatus, dAddress, docker, provNonces, call, early, stuck>>

\* docker rm -f for those ids, whatever it answers, and the process exits.
KillAllDroplets ==
    /\ host = "stopping"
    /\ host' = "exited"
    /\ \E left \in SUBSET (docker \cap doomed) :
           docker' = docker \ (doomed \ left) /\ stuck' = stuck \cup left
    /\ early' = early \cup {d \in registry : d \notin doomed \/ spawn[d] \in {"preparing", "starting"}}
    /\ spawn' = [d \in Droplets |-> IF spawn[d] = "preparing" THEN "ended" ELSE spawn[d]]
    /\ UNCHANGED <<asContainer, registry, dStatus, dAddress, provNonces, call, doomed>>

SpawnStep(d) == StartSpawn(d) \/ DockerRun(d) \/ InspectIp(d) \/ SshReady(d) \/ ProbeFails(d)

ApiNext ==
    \/ \E d \in Droplets : CreateDroplet(d) \/ SpawnStep(d) \/ TakeNonce(d)
    \/ \E k \in ApiCalls : DeleteDroplet(k) \/ RemoveContainer(k)
    \/ Shutdown \/ KillAllDroplets

ApiSpec == ApiInit /\ [][ApiNext]_apiVars

-----------------------------------------------------------------------------

\* Every container is one the API can still remove: its droplet is registered,
\* a DELETE is removing it, or it was deleted while docker run was under way, or
\* docker failed to remove it when it was forgotten.  A shutdown leaves only those,
\* and droplets created or started during it.
ContainersAreAccounted ==
    \A d \in docker :
        \/ d \in early \cup stuck
        \/ d \in registry /\ host # "exited"
        \/ \E k \in ApiCalls : k.id = d /\ call[k] = "removing"
=============================================================================
