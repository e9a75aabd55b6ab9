SPECIFICATION FairSpec
CONSTANTS
  Backends = {b1, b2}
  Adhoc = {b1, b2}
  Queries = {q1}
  Lookups = {l1, l2}
  NoBackend = noBackend
  NoQuery = noQuery
  Nobody = nobody
  NotHeld = notHeld
  MaxChanges = 1
  MaxRestarts = 1
  SplitResponses = TRUE
  StoreErrors = TRUE
  OldRows = TRUE
INVARIANTS
  TypeOK
  CacheAgreesWithHistory
  LedHome
PROPERTIES
  KnowledgeStays
  EveryLookupEnds
CHECK_DEADLOCK FALSE
