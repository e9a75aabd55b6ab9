SPECIFICATION FairSpec
CONSTANTS
  MIN_WT = 1
  MAX_WT = 2
  Backends = {b1, b2}
  Groups = {adhoc}
  Adhoc = adhoc
  Requests = {r1}
  Monitor = monitor
  Free = free
  NoRow = noRow
  NoBackend = noBackend
  MaxLen = 0
  MaxChanges = 1
  IntRange = 8
  LateFills = TRUE
  StoreErrors = FALSE
  NotifierErrors = FALSE
  AnonymousQueries = FALSE
PROPERTIES
  EveryRequestFinishes
  TablesBecomeActive
