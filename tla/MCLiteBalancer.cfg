SPECIFICATION Spec
CONSTANTS
  Peers = {p1, p2, p3}
  MaxRetries = 2
  MaxReqPerPeer = 1
  TimeoutMs = 1
  SendThreshold = 3
  SendFew = 2
  Kinds = {"info", "send"}
  Errors = {"Timeout", "ServerError"}
  Elapsed = {0, 2}
  Seqnos = {1, 2}
  MaxStartUps = 1
  MaxCancels = 1
SYMMETRY Symmetry
INVARIANTS
  TypeOK
  InFlightAccounting
  SendFanout
  FreshnessFirst
