--------------------------- MODULE RequesterFlow ---------------------------
(***************************************************************************)
(* runComputeContract of xrpc-relay-pds/server.ts with the command line of *)
(* cli.ts: discover bidders, submit an RFP to each, wait for bids, accept  *)
(* the cheapest, verify the receipt, use the VM over ssh and ask for its   *)
(* deletion.  Bids come in through the public submitBid handler at any     *)
(* time and from anyone.  The bidder side is what its answers show: it may *)
(* provision and still answer with an error, or not answer.                *)
(***************************************************************************)
EXTENDS Naturals, Sequences, FiniteSets

CONSTANTS
    Bidders,
    DeniedBidders,   \* denyBidderDids
    FreeBidders,     \* bidders with an offering the flow discovers
    FlowCosts,           \* cost fields of bids: numbers, NoCost or NotANumber
    NoCost, NotANumber

ASSUME FlowAssumption ==
    /\ FlowCosts \subseteq Nat \cup {NoCost, NotANumber}
    /\ NoCost \notin Nat /\ NotANumber \notin Nat /\ NoCost # NotANumber

VARIABLES
    step,        \* where runComputeContract is
    flowAsked,       \* bidders the RFP was submitted to
    toAsk,       \* bidders left to ask
    pending,     \* pendingBids.get(rfpUri): bids [by, cost]
    flowBids,        \* the bids collected when the window closed
    flowWinner,      \* index into bids, 0 for none
    vm,          \* at the winner: none, up or deleted
    receipt,     \* what submitAccept returned: none, refs, or refs with submitEvent
    genuine,     \* would the receipt verify?
    receiptOk,
    used,        \* history: an ssh session was run
    noDelete     \* --no-delete

flowVars == <<step, flowAsked, toAsk, pending, flowBids, flowWinner, vm, receipt, genuine, receiptOk,
              used, noDelete>>
awardVars == <<flowBids, flowWinner>>
dealVars  == <<vm, receipt, genuine, receiptOk, used, noDelete>>

FlowInit ==
    /\ step = "discover" /\ flowAsked = {} /\ toAsk = {}
    /\ pending = <<>> /\ flowBids = <<>> /\ flowWinner = 0
    /\ vm = "none" /\ receipt = "none" /\ genuine = FALSE /\ receiptOk = FALSE /\ used = FALSE
    /\ noDelete \in BOOLEAN

-----------------------------------------------------------------------------
(* Discovery and bids                                                      *)

\* Defaults, vouched, registered and extra bidders without the denied ones;
\* each source may fail and then contributes nobody.
FlowDiscover ==
    /\ step = "discover"
    /\ \E found \in SUBSET FreeBidders : toAsk' = found \ DeniedBidders
    /\ step' = "ask"
    /\ UNCHANGED <<flowAsked, pending, awardVars, dealVars>>

\* The loop over the bidders; an error of one is caught.
AskBidder(b) ==
    /\ step = "ask" /\ b \in toAsk
    /\ toAsk' = toAsk \ {b}
    /\ \/ flowAsked' = flowAsked \cup {b}
       \/ UNCHANGED flowAsked
    /\ UNCHANGED <<step, pending, awardVars, dealVars>>

StartWindow ==
    /\ step = "ask" /\ toAsk = {}
    /\ step' = "window"
    /\ UNCHANGED <<flowAsked, toAsk, pending, awardVars, dealVars>>

\* onBid: whoever sends a valid bid for the RFP, once each here.
FlowSubmitBid(b, c) ==
    /\ step # "discover"
    /\ \A i \in DOMAIN pending : pending[i].by # b
    /\ \A i \in DOMAIN flowBids : flowBids[i].by # b
    /\ pending' = Append(pending, [by |-> b, cost |-> c])
    /\ UNCHANGED <<step, flowAsked, toAsk, awardVars, dealVars>>

FlowCloseWindow ==
    /\ step = "window"
    /\ flowBids' = pending
    /\ pending' = <<>>
    /\ step' = IF pending = <<>> THEN "nobids" ELSE "award"
    /\ UNCHANGED <<flowAsked, toAsk, flowWinner, dealVars>>

\* Number(cost ?? Infinity) compared with <, which is false for NaN.
Cheaper(c, d) ==
    /\ c # NotANumber /\ d # NotANumber
    /\ c # NoCost
    /\ d = NoCost \/ (d \in Nat /\ c < d)

\* Mutation: a later bid of the same cost wins.
BestLast(n) ==
    LET best[i \in 1..n] == IF i = 1 THEN 1
                            ELSE IF Cheaper(flowBids[best[i - 1]].cost, flowBids[i].cost)
                            THEN best[i - 1] ELSE i
    IN  best[n]

\* reduce over the bids, from the first.
Best(n) ==
    LET best[i \in 1..n] == IF i = 1 THEN 1
                            ELSE IF Cheaper(flowBids[i].cost, flowBids[best[i - 1]].cost)
                            THEN i ELSE best[i - 1]
    IN  best[n]

\* The accept record is written.
Award ==
    /\ step = "award"
    /\ flowWinner' = Best(Len(flowBids))
    /\ step' = "accept"
    /\ UNCHANGED <<flowAsked, toAsk, pending, flowBids, dealVars>>

-----------------------------------------------------------------------------
(* Accept, use and deletion                                                *)

\* submitAccept: the winner may start a VM; the answer has a receipt, has
\* none, or never comes, and then callBidder throws out of the flow.
SubmitAccept ==
    /\ step = "accept"
    /\ \E up \in BOOLEAN, answer \in {"lost", "none", "refs", "full"}, real \in BOOLEAN :
           /\ answer \in {"refs", "full"} => up
           /\ vm' = IF up THEN "up" ELSE "none"
           /\ receipt' = IF answer = "lost" THEN "none" ELSE answer
           /\ genuine' = (real /\ answer \in {"refs", "full"})
           /\ step' = IF answer = "lost" THEN "threw" ELSE "verify"
    /\ UNCHANGED <<flowAsked, toAsk, pending, awardVars, receiptOk, used, noDelete>>

\* Mutation: a receipt is taken for genuine because it is there.
VerifyReceiptPresence ==
    /\ step = "verify"
    /\ receiptOk' = (receipt # "none")
    /\ step' = "use"
    /\ UNCHANGED <<flowAsked, toAsk, pending, awardVars, vm, receipt, genuine, used, noDelete>>

\* 7b: signature and binding to the accept, or resolving the records fails.
VerifyReceipt ==
    /\ step = "verify"
    /\ receiptOk' \in {FALSE, genuine}
    /\ step' = "use"
    /\ UNCHANGED <<flowAsked, toAsk, pending, awardVars, vm, receipt, genuine, used, noDelete>>

\* pollSshReady and runSshSession, only with a verified receipt.
UseVm ==
    /\ step = "use"
    /\ used' \in (IF receiptOk THEN BOOLEAN ELSE {FALSE})
    /\ step' = "delete"
    /\ UNCHANGED <<flowAsked, toAsk, pending, awardVars, vm, receipt, genuine, receiptOk, noDelete>>

\* vm.delete needs the refs of the receipt and submitEvent; sending it may fail.
DeleteVm ==
    /\ step = "delete"
    /\ \/ /\ ~noDelete /\ receipt = "full"
          /\ vm' = "deleted" /\ step' = "done"
       \/ /\ ~noDelete /\ receipt = "full"
          /\ UNCHANGED vm /\ step' = "deletefailed"
       \/ /\ noDelete \/ receipt # "full"
          /\ UNCHANGED vm /\ step' = "done"
    /\ UNCHANGED <<flowAsked, toAsk, pending, awardVars, receipt, genuine, receiptOk, used, noDelete>>

FlowStep ==
    \/ FlowDiscover \/ (\E b \in Bidders : AskBidder(b)) \/ StartWindow \/ FlowCloseWindow \/ Award
    \/ SubmitAccept \/ VerifyReceipt \/ UseVm \/ DeleteVm

FlowNext == FlowStep \/ \E b \in Bidders, c \in FlowCosts : FlowSubmitBid(b, c)

FlowSpec == FlowInit /\ [][FlowNext]_flowVars

-----------------------------------------------------------------------------
(* Properties                                                              *)

\* Without bids of unreadable cost the winner is the first of the cheapest,
\* also among bids without a cost.
FirstCheapestWins ==
    flowWinner # 0 /\ (\A i \in DOMAIN flowBids : flowBids[i].cost # NotANumber) =>
        \A i \in DOMAIN flowBids :
            /\ ~Cheaper(flowBids[i].cost, flowBids[flowWinner].cost)
            /\ i < flowWinner => Cheaper(flowBids[flowWinner].cost, flowBids[i].cost)

\* A VM is used only under a receipt its provider really made, and when the
\* flow is done such a VM was asked to be deleted, unless --no-delete was given
\* or the receipt did not say where to send events.
GenuineVmIsReleased ==
    /\ used => genuine /\ vm # "none"
    /\ step = "done" /\ used /\ ~noDelete => vm = "deleted" \/ receipt = "refs"

\* runComputeContract takes the first of the cheapest bids, uses a VM only under
\* a genuine receipt and has released it when it is done.
FlowIsSound == FirstCheapestWins /\ GenuineVmIsReleased
=============================================================================
