--------------------------- MODULE MarketRegistry ---------------------------
(***************************************************************************)
(* The market registry (market-registry/) and the bidders that announce    *)
(* themselves in it.  A bidder publishes a discovery record, registers     *)
(* once and then keeps the record fresh; the registry's health checker     *)
(* scans the first page of entries and removes those whose record is       *)
(* missing or stale.  The index is a repository: a write reads the head    *)
(* first and replaces it later.  Bidders are numbered in the order of      *)
(* their record keys.  Requesters only read a page of the index.           *)
(***************************************************************************)
EXTENDS Naturals, FiniteSets

CONSTANTS
    RegBidders,   \* naturals
    Scans,        \* scans of the health checker that may overlap
    ScanLimit,    \* limit of getAll and removeBidder
    MaxRestarts,  \* bound on restarts of bidders
    MaxScanFaults \* bound on scans that end with an error

ASSUME RegistryAssumption ==
    /\ RegBidders \subseteq Nat
    /\ {ScanLimit, MaxRestarts, MaxScanFaults} \subseteq Nat

VARIABLES
    bidder,      \* off, announcing, registering, leaving, serving or unlisted
    fresh,       \* bidders with a discovery record that is not stale
    index,       \* registrations in the registry's repository
    regBase,     \* the index a registration read
    scan,        \* where each scan is
    queue,       \* entries it has yet to look at
    scanBase,    \* the index its removal read
    excused,     \* history: bidders hit by a failed lookup or an overlapping write
    missed,      \* history: bidders whose last delete the repository's tree missed
    bidderStarts, scanFaults

registryVars == <<bidder, fresh, index, regBase, scan, queue, scanBase, excused, missed,
                  bidderStarts, scanFaults>>

FirstOf(S, n) == {b \in S : Cardinality({c \in S : c < b}) < n}
Head1(S) == CHOOSE b \in S : \A c \in S : b <= c

RegistryInit ==
    /\ bidder = [b \in RegBidders |-> "off"]
    /\ fresh = {} /\ index = {} /\ excused = {} /\ missed = {}
    /\ regBase = [b \in RegBidders |-> {}]
    /\ scan = [s \in Scans |-> "idle"]
    /\ queue = [s \in Scans |-> {}]
    /\ scanBase = [s \in Scans |-> {}]
    /\ bidderStarts = 0 /\ scanFaults = 0

-----------------------------------------------------------------------------
(* A bidder                                                                *)

\* The relay knows the bidder: ensureOffering and ensureDiscoveryRecord write
\* into its own repository.  A fresh start forgives what happened before.
EnsureDiscoveryRecord(b) ==
    /\ bidder[b] = "off" /\ bidderStarts <= MaxRestarts
    /\ bidderStarts' = bidderStarts + 1
    /\ bidder' = [bidder EXCEPT ![b] = "announcing"]
    /\ fresh' = fresh \cup {b}
    /\ excused' = excused \ {b}
    /\ UNCHANGED <<index, regBase, scan, queue, scanBase, missed, scanFaults>>

\* registerWithRegistry, and the registry's handler up to the read of its head.
\* The call may fail; a bidder without a registration starts no updater.
RegisterWithRegistry(b) ==
    /\ bidder[b] = "announcing"
    /\ \/ bidder' = [bidder EXCEPT ![b] = "registering"]
          /\ regBase' = [regBase EXCEPT ![b] = index]
       \/ bidder' = [bidder EXCEPT ![b] = "unlisted"] /\ UNCHANGED regBase
    /\ UNCHANGED <<fresh, index, scan, queue, scanBase, excused, missed, bidderStarts, scanFaults>>

\* The index is written: every change made since regBase was read is undone.
\* A scan that has already judged the bidder is about to remove it.
RegisterEnd(b) ==
    /\ bidder[b] \in {"registering", "leaving"}
    /\ bidder' = [bidder EXCEPT ![b] = IF @ = "leaving" THEN "off" ELSE "serving"]
    /\ index' = regBase[b] \cup {b}
    /\ regBase' = [regBase EXCEPT ![b] = {}]
    /\ excused' = excused \cup (index \ index')
                  \cup IF \E s \in Scans : scan[s] \in {"judged", "removing"} /\ b = Head1(queue[s])
                       THEN {b} ELSE {}
    /\ UNCHANGED <<fresh, scan, queue, scanBase, missed, bidderStarts, scanFaults>>

\* The bidder stops, or crashes; a registration under way goes on.
BidderStops(b) ==
    /\ bidder[b] \in {"announcing", "registering", "serving", "unlisted"}
    /\ bidder' = [bidder EXCEPT ![b] = IF @ = "registering" THEN "leaving" ELSE "off"]
    /\ UNCHANGED <<fresh, index, regBase, scan, queue, scanBase, excused, missed, bidderStarts, scanFaults>>

\* Nobody updates the record: staleThresholdMs pass.
DiscoveryExpires(b) ==
    /\ bidder[b] \in {"off", "unlisted"} /\ b \in fresh
    /\ fresh' = fresh \ {b}
    /\ UNCHANGED <<bidder, index, regBase, scan, queue, scanBase, excused, missed, bidderStarts, scanFaults>>

-----------------------------------------------------------------------------
(* The health checker                                                      *)

\* A tick of the timer: getAll.
ScanStart(s) ==
    /\ scan[s] = "idle"
    /\ queue' = [queue EXCEPT ![s] = FirstOf(index, ScanLimit)]
    /\ scan' = [scan EXCEPT ![s] = "asking"]
    /\ UNCHANGED <<bidder, fresh, index, regBase, scanBase, excused, missed, bidderStarts, scanFaults>>

ScanEnds(s) ==
    /\ scan[s] = "asking" /\ queue[s] = {}
    /\ scan' = [scan EXCEPT ![s] = "idle"]
    /\ UNCHANGED <<bidder, fresh, index, regBase, queue, scanBase, excused, missed, bidderStarts, scanFaults>>

\* Mutation: any answer counts as stale.
StaleAlways(b) == TRUE

\* fetchDiscovery returns null: there is no record or it is too old.
Stale(b) == b \notin fresh

\* fetchDiscovery returned.  It gives null on any error too.
FetchDiscovery(s, fails) ==
    LET b == Head1(queue[s]) IN
    /\ scan[s] = "asking" /\ queue[s] # {}
    /\ IF fails \/ Stale(b)
       THEN /\ scan' = [scan EXCEPT ![s] = "judged"]
            /\ UNCHANGED queue
       ELSE /\ queue' = [queue EXCEPT ![s] = @ \ {b}]
            /\ UNCHANGED scan
    /\ excused' = IF fails THEN excused \cup {b} ELSE excused
    /\ UNCHANGED <<bidder, fresh, index, regBase, scanBase, missed, bidderStarts, scanFaults>>

\* removeBidder: the entries are listed and the head is read; a bidder that is
\* not among the entries is left alone.
RemoveBidder(s) ==
    LET b == Head1(queue[s]) IN
    /\ scan[s] = "judged"
    /\ IF b \in FirstOf(index, ScanLimit)
       THEN /\ scan' = [scan EXCEPT ![s] = "removing"]
            /\ scanBase' = [scanBase EXCEPT ![s] = index]
            /\ UNCHANGED queue
       ELSE /\ scan' = [scan EXCEPT ![s] = "asking"]
            /\ queue' = [queue EXCEPT ![s] = @ \ {b}]
            /\ UNCHANGED scanBase
    /\ UNCHANGED <<bidder, fresh, index, regBase, excused, missed, bidderStarts, scanFaults>>

\* Mutation: the entry is left in the records that are written back.
RemoveEndKeepsEntry(s) ==
    LET b == Head1(queue[s]) IN
    /\ scan[s] = "removing"
    /\ index' = scanBase[s]
    /\ scanBase' = [scanBase EXCEPT ![s] = {}]
    /\ excused' = excused \cup (index \ (index' \cup {b}))
    /\ scan' = [scan EXCEPT ![s] = "asking"]
    /\ queue' = [queue EXCEPT ![s] = @ \ {b}]
    /\ UNCHANGED <<bidder, fresh, regBase, missed, bidderStarts, scanFaults>>

\* The records without the entry are written back; a delete that the tree misses
\* (MerkleSearchTree) is passed over in silence, and the entry stays.
RemoveEnd(s) ==
    LET b == Head1(queue[s]) IN
    /\ scan[s] = "removing"
    /\ \/ index' = scanBase[s] \ {b} /\ missed' = missed \ {b}
       \/ index' = scanBase[s] /\ missed' = missed \cup {b}
    /\ scanBase' = [scanBase EXCEPT ![s] = {}]
    /\ excused' = excused \cup (index \ (index' \cup {b}))
    /\ scan' = [scan EXCEPT ![s] = "asking"]
    /\ queue' = [queue EXCEPT ![s] = @ \ {b}]
    /\ UNCHANGED <<bidder, fresh, regBase, bidderStarts, scanFaults>>

\* getAll or removeBidder throws: the rest of the scan is given up.
ScanFails(s) ==
    /\ scan[s] # "idle" /\ scanFaults < MaxScanFaults
    /\ scanFaults' = scanFaults + 1
    /\ scan' = [scan EXCEPT ![s] = "idle"]
    /\ queue' = [queue EXCEPT ![s] = {}]
    /\ scanBase' = [scanBase EXCEPT ![s] = {}]
    /\ UNCHANGED <<bidder, fresh, index, regBase, excused, missed, bidderStarts>>

-----------------------------------------------------------------------------

ScanStep(s) ==
    \/ ScanStart(s) \/ ScanEnds(s) \/ RemoveBidder(s) \/ RemoveEnd(s) \/ FetchDiscovery(s, FALSE)

RegistryNext ==
    \/ \E b \in RegBidders : EnsureDiscoveryRecord(b) \/ RegisterWithRegistry(b) \/ RegisterEnd(b)
                             \/ BidderStops(b) \/ DiscoveryExpires(b)
    \/ \E s \in Scans : ScanStep(s) \/ FetchDiscovery(s, TRUE) \/ ScanFails(s)

\* The timer of the health checker fires, time passes, handlers run on.
RegistryFairness ==
    /\ \A s \in Scans : WF_registryVars(ScanStep(s))
    /\ \A b \in RegBidders : WF_registryVars(RegisterEnd(b)) /\ WF_registryVars(DiscoveryExpires(b))

RegistrySpec == RegistryInit /\ [][RegistryNext]_registryVars /\ RegistryFairness

-----------------------------------------------------------------------------
(* Properties                                                              *)

\* A bidder that registered and keeps its record fresh stays registered: only
\* a failed lookup, a write that overlapped another, or a registration that
\* came back between the health checker's verdict and its removal drops it.
FreshBidderStaysListed ==
    \A b \in RegBidders : bidder[b] = "serving" /\ b \notin excused => b \in index

\* A stopped bidder within the page that getAll and removeBidder look at is
\* pruned, or its last delete was missed by the tree: whatever registrations and
\* scans overlap with its removal and bring the entry back.  Behind that page
\* nothing is asked of the health checker.
StoppedBidderIsPruned ==
    \A b \in RegBidders :
        []<>(bidder[b] # "off" \/ b \notin FirstOf(index, ScanLimit) \/ b \in missed)
=============================================================================
