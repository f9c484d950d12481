SPECIFICATION Spec
CONSTANTS
  d1 = d1
  d2 = d2
  s1 = s1
  s2 = s2
  s3 = s3
  r1 = r1
  r2 = r2
  NoSocket = NoSocket
  Subdomains = {d1, d2}
  Sockets = {s1, s2, s3}
  SubOf <- MCSubOf
  Requests = {r1, r2}
  Target <- MCTarget
  SendThrows = TRUE
INVARIANTS RequestsAreSafe
PROPERTIES EveryRequestSettles KeepsPromise
CHECK_DEADLOCK FALSE
