\* Without a release policy one request at a time on two versions with two restarts; under
\* one that asks for windows, canary and approval two requests at a time on one version with
\* one approval and one restart; one failing store call.
CONSTANTS
  a1 = a1
  h1 = h1
  h2 = h2
  v1 = v1
  v2 = v2
  None = None
  Handlers = {h1, h2}
  Versions = {v1, v2}
  Approvals = {a1}
  ReleasePolicies <- MCPolicies
  MaxFailures = 1
  MaxRestarts = 2
SPECIFICATION Spec
SYMMETRY Symmetry
CONSTRAINT SmallInstance
CHECK_DEADLOCK FALSE
INVARIANTS
  ActiveRunnableAlone
  OneCommandPerApproval
  StableWasEvaluated
PROPERTIES
  RolledBackFinalAlone
