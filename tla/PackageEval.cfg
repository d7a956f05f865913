\* One request at a time, one version.
CONSTANTS
  h1 = h1
  v1 = v1
  None = None
  Handlers = {h1}
  Versions = {v1}
  Approvals = {}
  ReleasePolicies <- MCLenient
  MaxFailures = 0
  MaxRestarts = 0
SPECIFICATION Spec
CHECK_DEADLOCK FALSE
INVARIANTS
  EvalGatesStable
