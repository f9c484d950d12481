SPECIFICATION ClientsSpec
CONSTANTS
  \* streams
  d1 = d1
  NoSocket = NoSocket
  Subdomains = {d1}
  Sockets = {s1, s2}
  Requests = {r1}
  Callers = {c1}
  SubOf <- MCSubOf
  Target <- MCTarget
  CallTarget <- MCCallTarget
  SendThrows = FALSE
  \* nonces
  Nonces = {n1, n2}
  Keys = {k1, k2}
  Calls = {v1, v2}
  TtlMs = 1
  MaxTime = 3
  NoEntry = NoEntry
  \* subscriber loop
  Attempts = {a1, a2}
  Base = 1
  MaxDelay = 6
  MaxScheduled = 3
  NoAttempt = NoAttempt
  \* ssh sessions
  WebSockets = {w1}
  SshAttempts = {1, 2}
  \* the relay in a browser
  Tabs = {"t1", "t2"}
  Loops = {1, 2}
  Frames = {11}
  MaxTabFaults = 2
  \* machines of the compute page
  Pages = {p1, p2}
  Machines = {"m1", "m2"}
  NameOf <- MCNameOf
  IssuerOf <- MCIssuerOf
  \* the page's own PDS
  SpaTabs = {"t1", "t2"}
  Targets <- MCTargets
  MaxKeys = 4
  \* spindle viewer
  Repositories = {"a", "b", "c"}
  SpindleOf <- MCSpindleOf
  RunKeys = {"k"}
  RunStatuses = {"s1", "s2"}
  NoSpindle = "-"
  NoRun = "."
  NoRepo = "?"
  MaxNavs = 2
  \* market graph
  Records <- MCRecords
  Hideable = {"vm"}
  MaxSockets = 2
  MaxFrames = 4
  MaxClicks = 2
INVARIANTS StreamsAreSound NoncePromise LoopPromise NoProcessOutlivesItsSocket
           DisconnectedIsRetried ListedGuestIsServed IdentityIsSound ViewerIsSound GraphIsSound
PROPERTIES ClientsWindDown
CHECK_DEADLOCK FALSE
