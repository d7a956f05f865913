\* Two requests at a time, two versions.
CONSTANTS
  h1 = h1
  h2 = h2
  v1 = v1
  v2 = v2
  None = None
  Handlers = {h1, h2}
  Versions = {v1, v2}
  Approvals = {}
  ReleasePolicies <- MCLenient
  MaxFailures = 0
  MaxRestarts = 0
SPECIFICATION Spec
CHECK_DEADLOCK FALSE
INVARIANTS
  ActiveRunnable
