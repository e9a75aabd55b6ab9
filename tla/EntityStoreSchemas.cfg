SPECIFICATION Spec
CONSTANTS
  Threads = {t1}
  Schemas = {s1, s2}
  Names = {n1}
  Configs = {c1}
  NoRow = noRow
  All = all
  NotCached = notCached
  MaxCalls = 2
INVARIANTS
  SchemasApart
CHECK_DEADLOCK FALSE
