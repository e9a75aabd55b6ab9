SPECIFICATION Spec
CONSTANTS
  MIN_WT = 1
  MAX_WT = 2
  Backends = {b1, b2}
  Groups = {adhoc, etl}
  Adhoc = adhoc
  Requests = {r1}
  Monitor = monitor
  Free = free
  NoRow = noRow
  NoBackend = noBackend
  MaxLen = 0
  MaxChanges = 1
  IntRange = 1
  LateFills = TRUE
  StoreErrors = FALSE
  NotifierErrors = FALSE
  AnonymousQueries = FALSE
SYMMETRY Symmetry
INVARIANTS
  TablesAgree
PROPERTIES
  ImplementsContract
  OnlyBeatsReport
