SPECIFICATION FairSpec
CONSTANTS
  Threads = {t1, t2}
  Schemas = {s1, s2}
  Names = {n1}
  Configs = {c1}
  NoRow = noRow
  All = all
  NotCached = notCached
  MaxCalls = 3
INVARIANTS
  TypeOK
  StaleOnlyByRace
  ToldTheTruth
PROPERTIES
  StaleResultsGo
CHECK_DEADLOCK FALSE
