SPECIFICATION MarketSpec
CONSTANTS
  \* auction
  Bids = {b1, b2, b3}
  AllowedBids = {b1, b2}
  Prices = {1, 2}
  Unpriceable = FALSE
  MaxQueue = 2
  NoBid = NoBid
  \* registry
  RegBidders = {1, 2}
  Scans = {1}
  ScanLimit = 2
  MaxRestarts = 2
  MaxScanFaults = 1
  \* messages
  Producers = {"p"}
  Submissions <- MCSubmissions
  MaxDeliveries = 2
  MaxMoves = 1
  \* the requester's flow
  Bidders = {d1, d2, d3}
  DeniedBidders = {d3}
  FreeBidders = {d1}
  FlowCosts = {1, NoCost, NotANumber}
  NoCost = NoCost
  NotANumber = NotANumber
  \* attestations
  Attesters = {"a", "b"}
  WithAgent = {"b"}
  Contents = {"c1", "c2"}
  Repositories = {"r1", "r2"}
  Metadata <- MCMetadata
  MaxAttested = 3
  \* the attestation library
  P256 = {"p"}
  K256 = {"k"}
  Texts = {"x", "y"}
  Labels = {"l"}
  Hosts = {"r1", "r2"}
  MaxApiCalls = 4
  \* settlement
  Purchases = {"p1", "p2"}
  Payers = {"p1"}
  Modes = {"x402", "grant", "free"}
INVARIANTS InlineRoundTrips
CHECK_DEADLOCK FALSE
