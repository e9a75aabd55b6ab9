SPECIFICATION Spec
CONSTANTS
  MIN_WT = 1
  MAX_WT = 2
  Backends = {b1, b2}
  Groups = {adhoc}
  Adhoc = adhoc
  Requests = {r1, r2}
  Monitor = monitor
  Free = free
  NoRow = noRow
  NoBackend = noBackend
  MaxLen = 0
  MaxChanges = 1
  IntRange = 8
  LateFills = FALSE
  StoreErrors = TRUE
  NotifierErrors = TRUE
  AnonymousQueries = TRUE
SYMMETRY Symmetry
INVARIANTS
  TypeOK
  TablesAgree
  CrashOnlyByRace
  NullOnlyWhenRacedOrDisjoint
  FallbackOnlyWhenUnknown
