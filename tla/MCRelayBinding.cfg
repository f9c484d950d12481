SPECIFICATION Spec
CONSTANTS
  d1 = d1
  d2 = d2
  s1 = s1
  s2 = s2
  s3 = s3
  r1 = r1
  r2 = r2
  NoSocket = NoSocket
  Subdomains = {d1}
  Sockets = {s1, s2}
  SubOf <- MCSubOf
  Requests = {r1}
  Target <- MCTarget
  SendThrows = FALSE
PROPERTIES BoundWhileOpen
CHECK_DEADLOCK FALSE
