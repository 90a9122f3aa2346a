SPECIFICATION MCSpec
CONSTANTS
  c1 = c1
  c2 = c2
  Clients = {c1, c2}
  Server = server
  Services = {echo, other}
  Registered = {echo}
  MaxRetry = 1
  Stalls = TRUE
  MaxAsks <- MCMaxAsks
INVARIANTS
  TypeOK
  NoAnswerArrives
  NoneLost
PROPERTIES
  Implements
  Served
\* A connection closed for good, or a server that has quit, leaves nothing to do.
CHECK_DEADLOCK FALSE
