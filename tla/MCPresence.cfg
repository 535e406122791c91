SPECIFICATION FairSpec
CONSTANTS
  c1 = c1
  c2 = c2
  n1 = n1
  n2 = n2
  Conns = {c1, c2}
  Nodes = {n1, n2}
  NodeOf <- MCNodeOf
  Router = n1
  MaxFaults = 1
CHECK_DEADLOCK FALSE
INVARIANTS
  TypeOK
  ReachesListed
PROPERTIES
  ServedIsListedAgain
  QuietUserVanishes
  LogoutEnds
