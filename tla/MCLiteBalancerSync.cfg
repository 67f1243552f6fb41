SPECIFICATION Spec
CONSTANTS
  Peers = {p1, p2, p3, p4}
  MaxRetries = 2
  MaxReqPerPeer = 1
  TimeoutMs = 1
  SendThreshold = 3
  SendFew = 2
  Kinds = {"info"}
  Errors = {"Timeout", "ServerError"}
  Elapsed = {0}
  Seqnos = {1, 2}
  MaxStartUps = 1
  MaxCancels = 0
SYMMETRY Symmetry
PROPERTIES
  OnlyLaggardsEvicted
