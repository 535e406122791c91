SPECIFICATION Spec
CONSTANTS
  c1 = c1
  op = op
  g = g
  c = c
  None = None
  Controllers = {c1}
  Operators = {}
  Nodes = {g, c}
  Plane <- MCPlane
  Deployments <- MCDeployments
  Deployed <- MCDeployed
  SourceNodes <- MCSourceNodes
  FrozenNodes <- MCTargetNodes
  TargetNodes <- MCTargetNodes
  Source = "go"
  Target = "cpp"
  MaxRenewals = 1
  MaxCommands = 0
CONSTRAINT Held
INVARIANTS
  RollbackRenewable
