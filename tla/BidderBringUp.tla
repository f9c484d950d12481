---------------------------- MODULE BidderBringUp ----------------------------
(***************************************************************************)
(* How a bidder comes up and answers RFPs: the service (bidder/main.ts,    *)
(* market/bid.ts, market/records.ts), whose repository is an account on a  *)
(* PDS, and the ephemeral one (hono-factory-ephemeral-compute-bidder),     *)
(* which makes an identity, serves its repository from memory through a    *)
(* relay, and starts its own issuer behind a second relay registration.    *)
(* Several of its start-up steps run concurrently, RFPs may arrive before  *)
(* they are done, and the process may crash.                               *)
(***************************************************************************)
EXTENDS Naturals, Sequences

CONSTANTS
    Kinds,     \* the bidders to start: subset of {"service", "ephemeral"}
    BaseUrls,  \* values of BASE_URL, "" is unset
    ReuseKey,  \* REPO_PRIVATE_KEY_HEX is set
    Rfps,      \* RFPs sent to the bidder
    MaxStarts  \* bound on starts

VARIABLES
    kind, starts,
    at,         \* how far the start-up is: "off", its steps, "up", "dead"
    baseUrl,    \* BASE_URL of this start
    keyFile,    \* attestation.jwk: "none", "torn", "whole"
    dids,       \* identities in the PLC directory
    market,     \* the bidder's own relay registration
    setup,      \* computeProvider.setup()
    issuer,     \* the relay of the issuer: "off", "keypair", "connecting", "up"
    issuerUrl,  \* "unset", "fallback", "public"
    timedOut,   \* history: the issuer's registration timed out
    offerings,  \* endpoints of the offering records in the repository
    listed,     \* registered with the registry
    answers     \* [Rfps -> [at, offered, url]]: bids under way

issuerVars == <<setup, issuer, issuerUrl, timedOut>>
bringUpVars == <<kind, starts, at, baseUrl, keyFile, dids, market, setup, issuer, issuerUrl,
                 timedOut, offerings, listed, answers>>

BringUpAssumption == Kinds \subseteq {"service", "ephemeral"} /\ ReuseKey \in BOOLEAN /\ MaxStarts \in Nat

ASSUME BringUpAssumption

NoAnswer == [at |-> "no", offered |-> FALSE, url |-> "unset"]

BringUpInit ==
    /\ kind \in Kinds /\ starts = 0 /\ at = "off" /\ baseUrl = ""
    /\ keyFile = "none" /\ dids = {} /\ offerings = <<>> /\ listed = FALSE
    /\ market = "off" /\ setup = "off" /\ issuer = "off" /\ issuerUrl = "unset" /\ timedOut = FALSE
    /\ answers = [r \in Rfps |-> NoAnswer]

StartBidder ==
    /\ at = "off" /\ starts < MaxStarts
    /\ starts' = starts + 1
    /\ baseUrl' \in BaseUrls
    /\ at' = IF kind = "service" THEN "login" ELSE "genesis"
    /\ UNCHANGED <<kind, keyFile, dids, market, issuerVars, offerings, listed, answers>>

\* Memory is lost, and with it the ephemeral bidder's repository; a key file that
\* was being written stays as it is.
BidderCrash ==
    /\ at # "off"
    /\ at' = "off"
    /\ market' = "off" /\ setup' = "off" /\ issuer' = "off" /\ issuerUrl' = "unset" /\ timedOut' = FALSE
    /\ offerings' = IF kind = "service" THEN offerings ELSE <<>>
    /\ answers' = [r \in Rfps |-> NoAnswer]
    /\ UNCHANGED <<kind, starts, baseUrl, keyFile, dids, listed>>

-----------------------------------------------------------------------------
(* The service: main()                                                     *)

LoginAgent ==
    /\ at = "login"
    /\ at' \in {"key", "dead"}
    /\ UNCHANGED <<kind, starts, baseUrl, keyFile, dids, market, issuerVars, offerings, listed, answers>>

\* loadOrCreateAttestationKeyHex: a file that is no key is refused, not
\* overwritten; a new one is written in place.
LoadAttestationKey ==
    \/ /\ at = "key"
       /\ at' = CASE keyFile = "whole" -> "setup" [] keyFile = "torn" -> "dead" [] OTHER -> "writeKey"
       /\ keyFile' = IF keyFile = "none" THEN "torn" ELSE keyFile
       /\ UNCHANGED <<kind, starts, baseUrl, dids, market, issuerVars, offerings, listed, answers>>
    \/ /\ at = "writeKey"
       /\ at' = "setup" /\ keyFile' = "whole"
       /\ UNCHANGED <<kind, starts, baseUrl, dids, market, issuerVars, offerings, listed, answers>>

\* setup() with serveHttp and without a relay: ISSUER_URL is the deployment's.
SetupService ==
    /\ at = "setup"
    /\ \/ at' = "offering" /\ setup' = "done" /\ issuerUrl' = "public"
       \/ at' = "dead" /\ UNCHANGED <<setup, issuerUrl>>
    /\ UNCHANGED <<kind, starts, baseUrl, keyFile, dids, market, issuer, timedOut, offerings, listed, answers>>

\* Mutation: an offering with another endpoint is left, and one is added.
EnsureOfferingRecordAdds ==
    IF baseUrl = "" \/ (offerings # <<>> /\ offerings[1] = baseUrl) THEN UNCHANGED offerings
    ELSE offerings' = Append(offerings, baseUrl)

EnsureOfferingRecord ==
    IF baseUrl = "" THEN UNCHANGED offerings
    ELSE offerings' = IF offerings = <<>> THEN <<baseUrl>> ELSE [offerings EXCEPT ![1] = baseUrl]

ServeBidder ==
    /\ at = "offering"
    /\ EnsureOfferingRecord
    /\ at' = "up"
    /\ UNCHANGED <<kind, starts, baseUrl, keyFile, dids, market, issuerVars, listed, answers>>

-----------------------------------------------------------------------------
(* The ephemeral bidder                                                    *)

\* createGenesisOp, submitOp: a genesis operation is refused for an identity the
\* directory already has.  Then the provider's setup and the relay are started.
SubmitGenesis ==
    /\ at = "genesis"
    /\ LET did == IF ReuseKey THEN 1 ELSE starts IN
       \/ /\ did \notin dids
          /\ dids' = dids \cup {did}
          /\ at' = "relay" /\ market' = "connecting" /\ setup' = "running" /\ issuer' = "keypair"
       \/ at' = "dead" /\ UNCHANGED <<dids, market, setup, issuer>>
    /\ UNCHANGED <<kind, starts, baseUrl, keyFile, issuerUrl, timedOut, offerings, listed, answers>>

\* onRegistered of the bidder's relay: requests get through from now on.
MarketRegistered ==
    /\ market = "connecting"
    /\ market' = "registered"
    /\ UNCHANGED <<kind, starts, at, baseUrl, keyFile, dids, issuerVars, offerings, listed, answers>>

\* startRelay of the issuer: the keypair first, then the subscriber.
IssuerKeypair ==
    /\ issuer = "keypair"
    /\ issuer' = "connecting"
    /\ UNCHANGED <<kind, starts, at, baseUrl, keyFile, dids, market, setup, issuerUrl, timedOut,
                   offerings, listed, answers>>

\* onIssuerUrl, also after setup gave up.
IssuerRegistered ==
    /\ issuer = "connecting"
    /\ issuer' = "up" /\ issuerUrl' = "public"
    /\ UNCHANGED <<kind, starts, at, baseUrl, keyFile, dids, market, setup, timedOut, offerings, listed, answers>>

GetIssuerUrl == IF issuerUrl = "unset" THEN "fallback" ELSE issuerUrl

SetupDone ==
    /\ setup = "running" /\ issuer = "up"
    /\ setup' = "done"
    /\ UNCHANGED <<kind, starts, at, baseUrl, keyFile, dids, market, issuer, issuerUrl, timedOut,
                   offerings, listed, answers>>

\* Mutation: setup waits for the registration however long it takes.
SetupTimesOutNever == FALSE /\ UNCHANGED bringUpVars

\* REGISTRATION_TIMEOUT_MS: setup goes on with the fallback URL.
SetupTimesOut ==
    /\ setup = "running"
    /\ setup' = "done" /\ timedOut' = (issuerUrl # "public") /\ issuerUrl' = GetIssuerUrl
    /\ UNCHANGED <<kind, starts, at, baseUrl, keyFile, dids, market, issuer, offerings, listed, answers>>

\* Mutation: the bidder offers itself without waiting for its provider.
ReadyUnawaited ==
    /\ at = "relay" /\ market = "registered"
    /\ offerings' = IF offerings = <<>> THEN <<"did">> ELSE offerings
    /\ at' = "discovery"
    /\ UNCHANGED <<kind, starts, baseUrl, keyFile, dids, market, issuerVars, listed, answers>>

\* ready: the relay, then the provider, then ensureOffering.
Ready ==
    /\ at = "relay" /\ market = "registered" /\ setup = "done"
    /\ offerings' = IF offerings = <<>> THEN <<"did">> ELSE offerings
    /\ at' = "discovery"
    /\ UNCHANGED <<kind, starts, baseUrl, keyFile, dids, market, issuerVars, listed, answers>>

\* ensureDiscoveryRecord and registerWithRegistry, whose failure is only logged.
Enlist ==
    /\ at = "discovery"
    /\ at' = "up"
    /\ listed' \in {TRUE, listed}
    /\ UNCHANGED <<kind, starts, baseUrl, keyFile, dids, market, issuerVars, offerings, answers>>

\* teardown on a vm.delete: stopRelay.
TeardownIssuer ==
    /\ kind = "ephemeral" /\ at = "up" /\ issuer \in {"connecting", "up"}
    /\ issuer' = "off"
    /\ UNCHANGED <<kind, starts, at, baseUrl, keyFile, dids, market, setup, issuerUrl, timedOut,
                   offerings, listed, answers>>

-----------------------------------------------------------------------------
(* RFPs                                                                    *)

Answer1(r, a) == answers' = [answers EXCEPT ![r] = a]

\* The service hears once it serves, the ephemeral bidder once its relay has it.
RfpArrives(r) ==
    /\ answers[r].at = "no"
    /\ IF kind = "service" THEN at = "up" ELSE market = "registered"
    /\ Answer1(r, [NoAnswer EXCEPT !.at = "arrived", !.offered = at \in {"discovery", "up"}])
    /\ UNCHANGED <<kind, starts, at, baseUrl, keyFile, dids, market, issuerVars, offerings, listed>>

\* createBidConfig: the issuer's URL as it is now; asking for it fixes the fallback.
CreateBidConfig(r) ==
    /\ answers[r].at = "arrived"
    /\ issuerUrl' = GetIssuerUrl
    /\ Answer1(r, [answers[r] EXCEPT !.at = "configured", !.url = GetIssuerUrl])
    /\ UNCHANGED <<kind, starts, at, baseUrl, keyFile, dids, market, setup, issuer, timedOut, offerings, listed>>

\* The payload and the signed bid are written and sent to the requester; a failed
\* submission is only logged.
SubmitSignedBid(r) ==
    /\ answers[r].at = "configured"
    /\ Answer1(r, [answers[r] EXCEPT !.at = "submitted"])
    /\ UNCHANGED <<kind, starts, at, baseUrl, keyFile, dids, market, issuerVars, offerings, listed>>

BringUpStep ==
    \/ LoginAgent \/ LoadAttestationKey \/ SetupService \/ ServeBidder
    \/ SubmitGenesis \/ MarketRegistered \/ IssuerKeypair \/ SetupTimesOut \/ Ready \/ Enlist

BringUpNext ==
    \/ StartBidder \/ BidderCrash \/ BringUpStep
    \/ IssuerRegistered \/ SetupDone \/ TeardownIssuer
    \/ \E r \in Rfps : RfpArrives(r) \/ CreateBidConfig(r) \/ SubmitSignedBid(r)

\* The bidder's steps are taken, and the dispatcher registers the bidder; it may
\* never register the issuer.
BringUpSpec ==
    /\ BringUpInit /\ [][BringUpNext]_bringUpVars
    /\ WF_bringUpVars(LoginAgent) /\ WF_bringUpVars(LoadAttestationKey) /\ WF_bringUpVars(SetupService)
    /\ WF_bringUpVars(ServeBidder) /\ WF_bringUpVars(SubmitGenesis) /\ WF_bringUpVars(MarketRegistered)
    /\ WF_bringUpVars(SetupTimesOut) /\ WF_bringUpVars(Ready) /\ WF_bringUpVars(Enlist)

-----------------------------------------------------------------------------
(* Properties                                                              *)

\* A bid for an RFP that found the bidder by its offering names the public
\* issuer, unless the issuer's registration timed out: "We wait for registration
\* so getIssuerUrl() is the public URL before callers read it" (setup).
OfferedBidsArePublic ==
    \A r \in Rfps : answers[r].at \in {"configured", "submitted"} /\ answers[r].offered
                       => answers[r].url = "public" \/ timedOut

\* However often it is restarted, and with whichever BASE_URL, a bidder that is
\* up has at most one offering, and it names the endpoint it serves.
OneCurrentOffering ==
    /\ Len(offerings) <= 1
    /\ at = "up" /\ kind = "service" /\ baseUrl # "" => offerings = <<baseUrl>>

\* A start comes to an end: the bidder is up, or it failed, even when the issuer
\* is never registered.
StartEnds == at \in {"login", "genesis"} ~> at \in {"up", "dead", "off"}

\* Over any number of restarts, a bidder has one offering that names what it
\* serves, and who found it there is given the public issuer.
BringUpIsSound == OfferedBidsArePublic /\ OneCurrentOffering
=============================================================================
