SPECIFICATION Spec
CONSTANTS
  b1 = b1
  b2 = b2
  adhoc = adhoc
  etl = etl
  Backends = {b1, b2}
  Groups = {adhoc, etl}
  Adhoc = adhoc
  Members <- MCMembers
  Queries = {q1, q2}
  Requests = {r1, r2, r3}
  Word = Word
  NoId = NoId
  BadPath = BadPath
  Gateway = Gateway
  NoBackend = NoBackend
INVARIANTS
  TypeOK
  ToldIsMapped
  SeenFormsGoHome
  StatementsKeepGroup
CHECK_DEADLOCK FALSE
SYMMETRY Symmetry
