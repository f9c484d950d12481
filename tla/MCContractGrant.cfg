SPECIFICATION Spec
CONSTANTS
  Jobs = {j1}
  Accepts = {a1}
  VmDeletes = {k1}
  Faults = {"postFails"}
  NoReceipt = NoReceipt
  NoJob = NoJob
INVARIANTS NoStaleGrant
CHECK_DEADLOCK FALSE
