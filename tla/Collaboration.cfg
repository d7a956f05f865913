\* Handoffs: two agents, a root task and two children, two goroutines, one failing call.
\* Plans: one run, one client, two plans of two steps, one failing call.
\* Governance: two callers, four requests.  Sharing: two callers on two servers, two requests.
CONSTANTS
  a1 = a1
  a2 = a2
  Agents = {a1, a2}
  Tasks = {t1, t2, t3}
  Handoffs = {h1, h2}
  Workers = {w1, w2}
  NoOne = NoOne
  Roots = {t1}
  RootAgent = a1
  Collaborators <- MCCollaborators
  MaxDepth = 2
  MaxChildren = 2
  Requests <- MCRequests
  Grants = {"artifact_read", "approve_artifacts"}
  MaxCommands = 1
  MaxHandoffFailures = 1
  Runs = {r1}
  Clients = {c1}
  MaxPlans = 2
  MaxSteps = 2
  MaxPlanFailures = 1
  GovCallers = {w1, w2}
  GateDefinitions <- MCDefinitions
  InitialGates <- MCGates
  ReviewInputs <- MCReviews
  Arbitrations = {"approve", "revise", "unknown"}
  Conflicts = {1, 2}
  MaxGovRequests = 4
  Sharers = {w1, w2}
  SharingServers = {1, 2}
  Groups = {"a", "b"}
  PermissionSubjects <- MCSubjects
  Bases = {1, 2, 3}
  Documents = {1, 2, 3, 4}
  Shares = {"p1", "p2", "p3"}
  ShareApprovals = {"x", "y"}
  CallerRoles = {{"admin"}, {}}
  ClaimedRoles = {{"searcher"}}
  SharingInputs <- MCInputs
  InitialSharing <- MCSharing
  MaxSharingRequests = 2
SPECIFICATION CollaborationSpec
SYMMETRY CollaborationSymmetry
CHECK_DEADLOCK FALSE
INVARIANTS
  NoDelegationCycle
  HandoffsAccounted
  PlanInOrder
  DecidedOnRecord
  SharedAsGranted
  IngestedIsFound
PROPERTIES
  CompletedByRunOrCommand
