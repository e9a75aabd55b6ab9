SPECIFICATION FairSpec
CONSTANTS
  Backends = {b1, b2}
  Groups = {adhoc, etl}
  NoRow = noRow
  NoTask = noTask
  PoolSize = 1
  NoRecipients = TRUE
  MaxChanges = 1
INVARIANTS
  TypeOK
PROPERTIES
  ReportsThisBeat
  KeepsContract
  StopEndsLoop
CHECK_DEADLOCK FALSE
