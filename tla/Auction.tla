------------------------------ MODULE Auction ------------------------------
(***************************************************************************)
(* The auction for one RFP (spindle/marketRFP.ts).  Once the RFP record is *)
(* written bidders answer over two channels at once: they POST submitBid,  *)
(* which queues the bid in pendingBids (spindle/main.ts), and their bid    *)
(* record appears on the firehose, which is read while the bid window is   *)
(* open.  Either channel may bring a bid again.  After the window the      *)
(* payloads of the collected bids are fetched, the cheapest bid wins, its  *)
(* signature and config are checked and its price is settled.              *)
(***************************************************************************)
EXTENDS Integers, SequencesExt

CONSTANTS
    Bids,          \* bid records, by uri
    AllowedBids,   \* those whose author is in allowedDids
    Prices,        \* costs that are numbers
    Unpriceable,   \* may the cost of a payload be something else?
    MaxQueue,      \* bound on the entries of pendingBids
    NoBid          \* undefined

ASSUME AuctionAssumption ==
    /\ AllowedBids \subseteq Bids
    /\ Prices \subseteq Nat
    /\ Unpriceable \in BOOLEAN
    /\ MaxQueue \in Nat
    /\ NoBid \notin Bids

VARIABLES
    phase,        \* of marketRFPSubmitWorkflow
    pendingBids,  \* the entry of the RFP in the Map pendingBids
    bids, seen,   \* of collectBidsForRfp
    heard,        \* history: bids that came before the window closed
    offer,        \* the payloads of the collected bids
    winner

auctionVars == <<phase, pendingBids, bids, seen, heard, offer, winner>>

Phases == {"notifying", "collecting", "resolving", "settling", "accepted", "failed"}

\* What Number(cost ?? Infinity) may be besides a price.
Infinity == -1
NaN      == -2

Costs  == Prices \cup {Infinity} \cup (IF Unpriceable THEN {NaN} ELSE {})

\* Payloads by $type; "other" with cost Infinity also stands for none at all.
Offers == [type : {"free", "x402", "other"}, cost : Costs]

AuctionInit ==
    /\ phase = "notifying"
    /\ pendingBids = <<>>
    /\ bids   = <<>>
    /\ seen   = {}
    /\ heard  = {}
    /\ offer  = <<>>
    /\ winner = NoBid

-----------------------------------------------------------------------------
(* Collecting bids                                                         *)

Hear(b) == heard' = IF phase \in {"notifying", "collecting"} THEN heard \cup {b}
                                                             ELSE heard

\* onBid of submitBid: nobody asks whether the RFP still takes bids, nor
\* whether the bid is in the queue already.
SubmitBid(b) ==
    /\ Len(pendingBids) < MaxQueue
    /\ pendingBids' = Append(pendingBids, b)
    /\ Hear(b)
    /\ UNCHANGED <<phase, bids, seen, offer, winner>>

\* Mutation of TakePending: uris are not compared with those seen.
TakePendingUnseen ==
    /\ bids' = bids \o SelectSeq(pendingBids, LAMBDA b : b \in AllowedBids)
    /\ seen' = seen \cup ToSet(pendingBids)
    /\ pendingBids' = <<>>

\* Drain the queue: an allowed bid that has not been seen is collected.
TakePending ==
    LET take(acc, b) == IF b \in AllowedBids \ acc.seen
                          THEN [bids |-> Append(acc.bids, b), seen |-> acc.seen \cup {b}]
                          ELSE acc
        taken == FoldLeft(take, [bids |-> bids, seen |-> seen], pendingBids)
    IN  /\ bids' = taken.bids
        /\ seen' = taken.seen
        /\ pendingBids' = <<>>

\* collectBidsForRfp begins; without a firehose it is over at once.
OpenWindow ==
    /\ phase = "notifying"
    /\ TakePending
    /\ phase' \in {"collecting", "resolving"}
    /\ UNCHANGED <<heard, offer, winner>>

\* onmessage: a bid for the RFP appears on the firehose.
FirehoseBid(b) ==
    /\ phase = "collecting"
    /\ Hear(b)
    /\ seen' = seen \cup {b}
    /\ bids' = IF b \in AllowedBids \ seen THEN Append(bids, b) ELSE bids
    /\ UNCHANGED <<phase, pendingBids, offer, winner>>

\* Mutation of CloseWindow: bids queued during the window are not drained.
CloseWindowDropsQueue ==
    /\ phase = "collecting"
    /\ phase' = "resolving"
    /\ pendingBids' = <<>>
    /\ UNCHANGED <<bids, seen, heard, offer, winner>>

\* The window timer fires.
CloseWindow ==
    /\ phase = "collecting"
    /\ phase' = "resolving"
    /\ TakePending
    /\ UNCHANGED <<heard, offer, winner>>

-----------------------------------------------------------------------------
(* Choosing the winner                                                     *)

Cost(o) == IF o.type = "free" THEN 0 ELSE o.cost

\* The operator < on numbers: Infinity is above all, NaN compares with none.
Less(x, y) == /\ x \in Nat
              /\ y \in Nat \cup {Infinity}
              /\ y \in Nat => x < y

\* Mutation of ScoreLowestCost: of equal bids the last one wins.
ScoreLastLowest(bs, of) ==
    FoldLeft(LAMBDA best, b : IF Less(Cost(of[best]), Cost(of[b])) THEN best ELSE b,
             bs[1], bs)

\* scoreLowestCost: a reduce from the left that begins with the first bid.
ScoreLowestCost(bs, of) ==
    FoldLeft(LAMBDA best, b : IF Less(Cost(of[b]), Cost(of[best])) THEN b ELSE best,
             bs[1], bs)

\* The window closed without a bid.
NoBids ==
    /\ phase = "resolving"
    /\ bids = <<>>
    /\ phase' = "failed"
    /\ UNCHANGED <<pendingBids, bids, seen, heard, offer, winner>>

\* resolveBidPayloads, then scoreLowestCost.
ChooseWinner ==
    /\ phase = "resolving"
    /\ bids # <<>>
    /\ offer' \in [ToSet(bids) -> Offers]
    /\ winner' = ScoreLowestCost(bids, offer')
    /\ phase' = "settling"
    /\ UNCHANGED <<pendingBids, bids, seen, heard>>

\* The winner's signature, its config, its payment url and the payment itself
\* may each fail, and a payload of another type always does; no other bid is
\* tried then.
Settle ==
    /\ phase = "settling"
    /\ \/ offer[winner].type \in {"free", "x402"} /\ phase' = "accepted"
       \/ phase' = "failed"
    /\ UNCHANGED <<pendingBids, bids, seen, heard, offer, winner>>

AuctionNext ==
    \/ \E b \in Bids : SubmitBid(b) \/ FirehoseBid(b)
    \/ OpenWindow
    \/ CloseWindow
    \/ NoBids
    \/ ChooseWinner
    \/ Settle

AuctionSpec == AuctionInit /\ [][AuctionNext]_auctionVars

-----------------------------------------------------------------------------
(* Correctness                                                             *)

\* Only bids of allowed bidders are collected by collectBidsForRfp and win, and
\* each of them has a payload once the window has closed.
AuctionTypeOK ==
    /\ phase \in Phases
    /\ pendingBids \in Seq(Bids)
    /\ bids \in Seq(AllowedBids)
    /\ seen  \subseteq Bids
    /\ heard \subseteq Bids
    /\ winner \in AllowedBids \cup {NoBid}
    /\ phase \in {"settling", "accepted"} => offer \in [ToSet(bids) -> Offers]

\* A bid that comes over both channels, or twice over one, counts once.
CollectedOnce == IsInjective(bids)

\* When the window has closed, the collected bids are exactly those of allowed
\* bidders that came in time, whichever channel brought them, and whether
\* before or after collectBidsForRfp began; also if the firehose was not there.
TimelyBidsCount ==
    phase \in {"resolving", "settling", "accepted"}
        => ToSet(bids) = heard \cap AllowedBids

\* With prices that are numbers, the winner is the earliest of the cheapest:
\* a reference definition of what the reduce computes.
EarliestCheapestWins ==
    phase \in {"settling", "accepted"} =>
        LET cost(i) == Cost(offer[bids[i]])
        IN  \E w \in DOMAIN bids :
              /\ winner = bids[w]
              /\ \A i \in DOMAIN bids : /\ ~Less(cost(i), cost(w))
                                        /\ i < w => Less(cost(w), cost(i))

\* collectBidsForRfp and scoreLowestCost together, for every order in which two
\* channels bring bids and bring them again: each timely bid of an allowed
\* bidder counts exactly once, and the earliest of the cheapest wins.
AuctionPromise == CollectedOnce /\ TimelyBidsCount /\ EarliestCheapestWins
=============================================================================
