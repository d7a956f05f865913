\* One request at a time, one run, two versions.
CONSTANTS
  PolicyCallers = {c1}
  PolicyDrafts = {1, 2}
  PolicyVersions = {1, 2}
  PolicyBodies <- MCBodies
  PolicyApprovals = {}
  PolicyRuns = {r1}
  InitialPolicies <- MCPolicies
  MaxPolicyRequests = 3
  MaxPolicyFaults = 0
SPECIFICATION PolicySpec
CHECK_DEADLOCK FALSE
INVARIANTS
  PinnedPolicyKept
