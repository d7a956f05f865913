\* Tasks: one task, two racing callers, seven readings of the clock: enough to walk the
\* task to running (create, three commands) and race three more.  Calls: three requests
\* for a plain and a gated tool under two keys, two approvals: one to ask, one to approve
\* and race, and a retry.  Policies: two callers, three requests, one run, one approval, one failing call.
CONSTANTS
  Tasks = {t1}
  Clients = {c1, c2}
  MaxClock = 7
  Requests = {q1, q2, q3}
  InvokeTools = {read, pay}
  GatedTools = {pay}
  Keys = {k1, k2}
  ApprovalIDs = {id1, id2}
  PolicyCallers = {c1, c2}
  PolicyDrafts = {1, 2}
  PolicyVersions = {1, 2}
  PolicyBodies <- MCBodies
  PolicyApprovals = {"x"}
  PolicyRuns = {r1}
  InitialPolicies <- MCPolicies
  MaxPolicyRequests = 3
  MaxPolicyFaults = 1
SPECIFICATION CommandSpec
SYMMETRY CommandSymmetry
CHECK_DEADLOCK FALSE
INVARIANTS
  RecoveryConsistent
  NoLostUpdate
  AuditsCommitted
  GatedNeedsApproval
  ReplayReturnsResult
  InForceWasEvaluated
PROPERTIES
  LifecycleSpec
