SPECIFICATION HostsSpec
CONSTANTS
  \* knot events
  Repos = {"r1"}
  MaxEvents = 3
  MaxKnotFaults = 2
  \* runs and their logs
  Triggers = {"t1", "t2"}
  Keys = {"k1", "k2"}
  KeyOf <- MCKeyOf
  LogSocks = {"l1"}
  MaxLines = 2
  MaxRunRestarts = 1
  NoTask = "-"
  \* the status events of the spindle
  Watchers = {"w1"}
  MaxLog = 2
  MaxStatuses = 4
  MaxClock = 3
  MaxEvRestarts = 1
  \* the contract, without faults
  Jobs = {"j1", "j2"}
  Accepts = {"a1", "a2"}
  VmDeletes = {"k1", "k2"}
  Faults = {}
  NoReceipt = "noReceipt"
  NoJob = "noJob"
  \* the ephemeral bidder
  Contracts = {"c1", "c2"}
  Deletes = {"d1", "d2"}
  DeleteOf <- MCDeleteOf
  Proofs = {"p1", "p2"}
  ProofOf <- MCProofOf
  \* PID 1 of a container
  Units = {"s", "o", "p", "m"}
  UnitOf <- MCUnitOf
  BootUnits = {"s"}
  Commands <- MCCommands
  MaxCommands = 2
  MaxPids = 2
  \* starts of a bidder
  Kinds = {"service", "ephemeral"}
  BaseUrls = {"", "u1", "u2"}
  ReuseKey = FALSE
  Rfps = {1}
  MaxStarts = 3
INVARIANTS TriggeredAtMostOnce LogIsSound FeedIsGapless EphemeralIsSound OneProcessPerUnit BringUpIsSound
PROPERTIES HostsMakeProgress
CHECK_DEADLOCK FALSE
