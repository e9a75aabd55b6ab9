SPECIFICATION Spec
CONSTANTS
  Threads = {t1, t2}
  Groups = {g1, g2}
  Rules = {u, v}
  Places = {p1, p2, p3}
  NoRow = NoRow
INVARIANTS
  TypeOK
  AcknowledgedIsStored
  EditorKeepsOnePerGroup
PROPERTIES
  LostOnlyToGroup
CHECK_DEADLOCK FALSE
SYMMETRY Symmetry
