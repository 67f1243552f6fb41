SPECIFICATION Spec
CONSTANTS
  Peers = {p1, p2}
  MaxRetries = 2
  MaxReqPerPeer = 100
  TimeoutMs = 4
  SendThreshold = 12
  SendFew = 4
  Kinds = {"info"}
  Errors = {"Timeout", "ServerError"}
  Elapsed = {0}
  Seqnos = {1}
  MaxStartUps = 1
  MaxCancels = 0
PROPERTIES
  UnaskedPeersStay
