SPECIFICATION FairSpec
CONSTANTS
  n1 = n1
  n2 = n2
  Names = {n1, n2}
  Priority <- Order
  Nothing = nothing
  NoGroup = noGroup
  Types = {"GATEWAY_BACKEND", "ROUTING_RULE", "RESOURCE_GROUP", "SELECTOR"}
  Schemas = {gateway, other}
  Default = gateway
  Blank = blank
  MaxGets = 2
  MaxChanges = 3
INVARIANTS
  TypeOK
  SavedAsLoaded
  RulesDecide
PROPERTIES
  ListSettles
CHECK_DEADLOCK FALSE
