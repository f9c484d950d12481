------------------------------ MODULE MCMarket ------------------------------
(***************************************************************************)
(* Small instances of the market: bids and their auction, the registry of  *)
(* bidders, the messages between requester and bidder, the requester's     *)
(* flow, what attests to a record and how a purchase is paid.  They share  *)
(* no variable.  focus names the one that moves in a behaviour while the   *)
(* others rest in an initial state, so that TLC explores their state       *)
(* spaces side by side and not their product.                              *)
(***************************************************************************)
EXTENDS Auction, MarketRegistry, MarketMessages, RequesterFlow, Attestations, Settlement

VARIABLE focus

\* A bid, and an event that somebody listens for or nobody.
MCSubmissions == {[id |-> 1, by |-> "p", kind |-> "bid"], [id |-> 2, by |-> "p", kind |-> "event"]}

\* Metadata of an entry: an issuer, or a role.
MCMetadata == {{"issuer"}, {"role"}}

Parts == {"auction", "registry", "messages", "flow", "attest", "api", "settle"}

marketVars == <<focus, auctionVars, registryVars, messageVars, flowVars, attestVars,
                attestApiVars, settleVars>>

\* What rests, rests in one initial state.
Pinned(part, P) == focus # part => P

MarketInit ==
    /\ focus \in Parts
    /\ AuctionInit /\ RegistryInit /\ MessagesInit /\ FlowInit /\ AttestInit
    /\ AttestApiInit /\ SettleInit
    /\ Pinned("messages", bindKeys /\ stable = {} /\ routed = Submissions)
    /\ Pinned("flow", noDelete)
    /\ Pinned("attest", record.content = (CHOOSE c \in Contents : TRUE)
                        /\ record.repository = (CHOOSE r \in Repositories : TRUE))
    /\ Pinned("api", doc.text = (CHOOSE t \in Texts : TRUE))
    /\ Pinned("settle", mode = (CHOOSE m \in Modes : TRUE))

MarketNext ==
    /\ IF focus = "auction" THEN AuctionNext ELSE UNCHANGED auctionVars
    /\ IF focus = "registry" THEN RegistryNext ELSE UNCHANGED registryVars
    /\ IF focus = "messages" THEN MessagesNext ELSE UNCHANGED messageVars
    /\ IF focus = "flow" THEN FlowNext ELSE UNCHANGED flowVars
    /\ IF focus = "attest" THEN AttestNext ELSE UNCHANGED attestVars
    /\ IF focus = "api" THEN AttestApiNext ELSE UNCHANGED attestApiVars
    /\ IF focus = "settle" THEN SettleNext ELSE UNCHANGED settleVars
    /\ UNCHANGED focus

\* The fairness of the registry when it is the one that moves.
MarketFairness ==
    /\ \A s \in Scans : WF_registryVars(focus = "registry" /\ ScanStep(s))
    /\ \A b \in RegBidders : /\ WF_registryVars(focus = "registry" /\ RegisterEnd(b))
                             /\ WF_registryVars(focus = "registry" /\ DiscoveryExpires(b))

MarketSpec == MarketInit /\ [][MarketNext]_marketVars /\ MarketFairness
=============================================================================
