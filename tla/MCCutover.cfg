SPECIFICATION Spec
CONSTANTS
  c1 = c1
  op = op
  g = g
  c = c
  None = None
  Controllers = {c1}
  Operators = {op}
  Nodes = {g}
  Plane <- MCPlane
  Deployments <- MCDeployments
  Deployed <- MCDeployed
  SourceNodes <- MCSourceNodes
  FrozenNodes <- MCTargetNodes
  TargetNodes <- MCTargetNodes
  Source = "go"
  Target = "cpp"
  MaxRenewals = 1
  MaxCommands = 2
CONSTRAINTS Held TwoTroubles
INVARIANTS
  TypeOK
  AtMostOneAhead
  JournalIsTrue
  DrainedBeforeActivation
PROPERTY AuthorityMoves
