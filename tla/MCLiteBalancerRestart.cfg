SPECIFICATION FairSpec
CONSTANTS
  Peers = {p1, p2}
  MaxRetries = 2
  MaxReqPerPeer = 1
  TimeoutMs = 1
  SendThreshold = 2
  SendFew = 2
  Kinds = {"typed", "info", "send"}
  Errors = {"Timeout", "ServerError"}
  Elapsed = {0}
  Seqnos = {1}
  MaxStartUps = 2
  MaxCancels = 1
INVARIANTS
  PeerStatesAgree
  RetryDiscipline
PROPERTIES
  CallReturns
