SPECIFICATION Spec
CONSTANTS
  Jobs = {j1, j2}
  Accepts = {a1, a2, a3}
  VmDeletes = {k1, k2}
  Faults = {"acceptLost", "acceptRefused", "provisionFails", "noProviderId",
            "receiptFails", "resolveFails", "duplicate", "grantFails", "postFails", "revokeFails",
            "reportLost", "destroyFails", "bidderRestart", "spindleRestart"}
  NoReceipt = NoReceipt
  NoJob = NoJob
SYMMETRY Symmetry
INVARIANTS ContractPromise
PROPERTIES KeepsLease
CHECK_DEADLOCK FALSE
