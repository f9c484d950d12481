----------------------------- MODULE Settlement -----------------------------
(***************************************************************************)
(* Settling the terms of a winning bid (market-x402, market-free,          *)
(* market-settlement, hono-factory-market-bids).  The buyer mints an       *)
(* accepts record and asks the bidder's receipt endpoint for a receipt;    *)
(* under x402 a payment gate stands before the endpoint.  The receipt is   *)
(* the payload of the market.accept the bidder verifies before it          *)
(* provisions.  A bidder has one mode: "x402", "grant" (the receipt        *)
(* endpoint of market-free) or "free", which has no receipt.               *)
(***************************************************************************)

CONSTANTS
    Purchases,   \* winning bids on this bidder
    Payers,      \* purchases whose buyer supplies a paying fetch
    Modes        \* the modes a bidder may be started in

VARIABLES
    mode,        \* Settlement.mode
    buyer,       \* [Purchases -> where the buyer is]
    asked,       \* [Purchases -> where the request for a receipt is]
    paid,        \* payments the gate let through
    receipts,    \* receipts in the bidder's repo
    payload,     \* [Purchases -> payload of the market.accept]
    provisioned  \* accepts the bidder provisioned for

settleVars == <<mode, buyer, asked, paid, receipts, payload, provisioned>>

SettlementAssumption == Payers \subseteq Purchases /\ Modes \subseteq {"x402", "grant", "free"}

ASSUME SettlementAssumption

\* receipts.x402 or receipts.free by the bidder or by another, for a purchase.
Receipt == [by : {"bidder", "other"}, kind : {"x402", "grant"}, of : Purchases]
NoPayload == [by |-> "nobody", kind |-> "none", of |-> "none"]

\* settlementModeFromEnv, createX402Settlement or createFreeSettlement.
SettleInit ==
    /\ mode \in Modes
    /\ buyer = [p \in Purchases |-> "won"]
    /\ asked = [p \in Purchases |-> "no"]
    /\ paid = {} /\ receipts = {} /\ provisioned = {}
    /\ payload = [p \in Purchases |-> NoPayload]

BuyerTo(p, at) == buyer' = [buyer EXCEPT ![p] = at]
AskedTo(p, at) == asked' = [asked EXCEPT ![p] = at]

-----------------------------------------------------------------------------
(* The buyer                                                               *)

\* A free bid has no url and nothing to settle.
SkipPayment(p) ==
    /\ buyer[p] = "won" /\ mode = "free"
    /\ BuyerTo(p, "settled")
    /\ UNCHANGED <<mode, asked, paid, receipts, payload, provisioned>>

\* settleX402Payment: the url is checked, the accepts.x402 is minted and signed,
\* and the endpoint is asked.  An unsafe url or a failed write ends it.
SettleX402Payment(p) ==
    /\ buyer[p] = "won" /\ mode = "x402"
    /\ \/ BuyerTo(p, "waiting") /\ AskedTo(p, "arrived")
       \/ BuyerTo(p, "failed") /\ UNCHANGED asked
    /\ UNCHANGED <<mode, paid, receipts, payload, provisioned>>

\* settleFreeGrant: the same with an unsigned accepts.free.
SettleFreeGrant(p) ==
    /\ buyer[p] = "won" /\ mode = "grant"
    /\ \/ BuyerTo(p, "waiting") /\ AskedTo(p, "arrived")
       \/ BuyerTo(p, "failed") /\ UNCHANGED asked
    /\ UNCHANGED <<mode, paid, receipts, payload, provisioned>>

\* The answer carries a strongRef to the receipt, or is an error.
SettleAnswered(p) ==
    /\ buyer[p] = "waiting" /\ asked[p] \in {"answered", "refused"}
    /\ BuyerTo(p, IF asked[p] = "answered" THEN "settled" ELSE "failed")
    /\ UNCHANGED <<mode, asked, paid, receipts, payload, provisioned>>

\* AbortSignal.timeout: the endpoint goes on without the buyer.
SettleTimesOut(p) ==
    /\ buyer[p] = "waiting"
    /\ BuyerTo(p, "failed")
    /\ UNCHANGED <<mode, asked, paid, receipts, payload, provisioned>>

\* The market.accept with the receipt, or with no payload for a free bid.
AcceptSettled(p) ==
    /\ buyer[p] = "settled"
    /\ payload' = [payload EXCEPT ![p] = IF mode = "free" THEN NoPayload
                                         ELSE [by |-> "bidder", kind |-> mode, of |-> p]]
    /\ BuyerTo(p, "accepted")
    /\ UNCHANGED <<mode, asked, paid, receipts, provisioned>>

\* Another client's accept, with no payload or with any receipt that exists.
AcceptUnsettled(p) ==
    /\ buyer[p] \in {"won", "failed"}
    /\ payload' \in {[payload EXCEPT ![p] = r] : r \in {NoPayload} \cup receipts
                        \cup {[by |-> "other", kind |-> mode, of |-> q] : q \in Purchases}}
    /\ BuyerTo(p, "accepted")
    /\ UNCHANGED <<mode, asked, paid, receipts, provisioned>>

-----------------------------------------------------------------------------
(* The receipt endpoint                                                    *)

\* Mutation: the endpoint is mounted without its payment middleware.
PaymentGateOpen(p) ==
    /\ asked[p] = "arrived"
    /\ AskedTo(p, "inside") /\ UNCHANGED paid
    /\ UNCHANGED <<mode, buyer, receipts, payload, provisioned>>

\* paymentMiddleware (x402 only): a paying fetch answers its 402, the default
\* fetch does not.
PaymentGate(p) ==
    /\ asked[p] = "arrived"
    /\ \/ mode = "grant" /\ AskedTo(p, "inside") /\ UNCHANGED paid
       \/ mode = "x402" /\ p \in Payers /\ paid' = paid \cup {p} /\ AskedTo(p, "inside")
       \/ mode = "x402" /\ AskedTo(p, "refused") /\ UNCHANGED paid
    /\ UNCHANGED <<mode, buyer, receipts, payload, provisioned>>

\* mintReceiptForAccepts: the accepts.x402 is resolved and a receipt that proves
\* it is written to the bidder's repo.
MintReceipt(p) ==
    /\ asked[p] = "inside" /\ mode = "x402"
    /\ \/ /\ receipts' = receipts \cup {[by |-> "bidder", kind |-> "x402", of |-> p]}
          /\ AskedTo(p, "answered")
       \/ AskedTo(p, "refused") /\ UNCHANGED receipts
    /\ UNCHANGED <<mode, buyer, paid, payload, provisioned>>

\* mintGrantForAccepts: the same for an accepts.free.
MintGrant(p) ==
    /\ asked[p] = "inside" /\ mode = "grant"
    /\ \/ /\ receipts' = receipts \cup {[by |-> "bidder", kind |-> "grant", of |-> p]}
          /\ AskedTo(p, "answered")
       \/ AskedTo(p, "refused") /\ UNCHANGED receipts
    /\ UNCHANGED <<mode, buyer, paid, payload, provisioned>>

-----------------------------------------------------------------------------
(* The accept                                                              *)

\* Mutation: the author of the receipt is not looked at.
VerifyX402PaymentAnyAuthor(r) == r # NoPayload /\ r.kind = "x402"

\* verifyX402Payment: a receipts.x402 that exists, was authored by this bidder
\* and binds to the accepts.x402 it names.
VerifyX402Payment(r) == r # NoPayload /\ r.kind = "x402" /\ r.by = "bidder" /\ r \in receipts

\* verifyFreeGrant: the same for a receipts.free.
VerifyFreeGrant(r) == r # NoPayload /\ r.kind = "grant" /\ r.by = "bidder" /\ r \in receipts

VerifyAcceptPayload(r) ==
    CASE mode = "x402" -> VerifyX402Payment(r)
      [] mode = "grant" -> VerifyFreeGrant(r)
      [] mode = "free" -> TRUE

\* submitAccept: verified, then provisioned; a record that cannot be resolved
\* refuses too.
SettleAccept(p) ==
    /\ buyer[p] = "accepted"
    /\ \/ /\ VerifyAcceptPayload(payload[p])
          /\ provisioned' = provisioned \cup {p} /\ BuyerTo(p, "served")
       \/ BuyerTo(p, "refused") /\ UNCHANGED provisioned
    /\ UNCHANGED <<mode, asked, paid, receipts, payload>>

SettleNext ==
    \E p \in Purchases :
        \/ SkipPayment(p) \/ SettleX402Payment(p) \/ SettleFreeGrant(p)
        \/ SettleAnswered(p) \/ SettleTimesOut(p) \/ AcceptSettled(p) \/ AcceptUnsettled(p)
        \/ PaymentGate(p) \/ MintReceipt(p) \/ MintGrant(p) \/ SettleAccept(p)

SettleSpec == SettleInit /\ [][SettleNext]_settleVars

-----------------------------------------------------------------------------
(* Properties                                                              *)

\* Whatever payload a client puts into its accept, and whether or not its
\* request for a receipt timed out, an x402 bidder provisions only on a receipt
\* for which its gate let a payment through.
ProvisionedIsPaid ==
    mode = "x402" => \A p \in provisioned : payload[p] # NoPayload /\ payload[p].of \in paid

=============================================================================
