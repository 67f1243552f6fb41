SPECIFICATION FairSpec
CONSTANTS
  MaxQueries = 3
  MaxArms = 1
  Payloads = {"ok", "error", "garbage", "query"}
  HasTimeout = TRUE
CHECK_DEADLOCK FALSE
INVARIANTS
  TypeOK
  AnswerMatchesQuery
  PrefixConserved
  TagsAccountedFor
PROPERTIES
  ImplementsRemoteCall
  QueryReturns
