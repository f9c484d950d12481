SPECIFICATION StoresSpec
CONSTANTS
  \* the Merkle search tree
  Zeros <- MCZeros
  Values = {v1}
  MaxCommits = 3
  \* blocks
  ByteBits = 3
  CharBits = 2
  Immediate = 2
  MaxSafe = 8191
  CidLength = 3
  MaxPuts = 2
  Inputs <- MCInputs
  \* repository and feed
  Writes <- MCWrites
  RepoSubs = {"s1"}
  MaxBacklog = 2
  MaxMicros = 2
  \* PLC directory
  PlcOps <- MCPlcOps
  PageSize = 2
  MaxPlcTime = 2
  \* package store
  Tags = {"1.0.0", "v1.0.0"}
  VersionOf <- MCVersionOf
  Order <- MCOrder
  Branch = "main"
  Requests <- MCRequests
  MaxPushes = 2
  MaxStores = 2
  \* package registry
  Packages <- MCPackages
  Versions <- MCVersions
  BranchVersions <- MCBranchVersions
  Semver = {"0.1.0-main", "1.0.0"}
  BranchRefs <- MCBranchRefs
  Trees <- MCTrees
  NoFile = "no"
  JsrImports <- MCJsrImports
  MaxChanges = 2
  \* the droplet API
  Droplets = {1, 2}
  ActxOf <- MCActxOf
  ApiCalls <- MCApiCalls
  \* QEMU images
  VmRuns = {"v1", "v2"}
  MaxBuilds = 4
  \* RBAC and OIDC
  Guests = {"g1", "g2"}
  Callers = {"c1"}
  Reqs <- MCReqs
  Urls = {"local", "relay"}
  LocalUrl = "local"
  ListLimit = 1
  MaxRkeys = 2
  MaxBoots = 2
  DurableKeys = TRUE
  \* RBAC through a git repository
  DoBidders = {"b1", "b2"}
  DoVms = {"v1", "v2", "v3"}
  BidderOf <- MCBidderOf
INVARIANTS DeletedIsGone
CHECK_DEADLOCK FALSE
