\* Catalog: two clients and the start, two requests, one failing store call, one restart.
\* Hooks: two administrators, two requests, one invocation.  Drafts: two authors on two
\* servers, two drafts of one version, two requests.  Resources: two callers, two requests.
CONSTANTS
  Clients = {boot, c1, c2}
  Boot = boot
  Scopes = {1, 2}
  Nets = {1, 2}
  InitialConnections <- MCConnections
  InitialCatalogs <- MCCatalogs
  HostTools = {h1}
  AdapterTool = a1
  OperationNeedsResource = TRUE
  MaxRequests = 2
  MaxConnFailures = 1
  MaxStops = 1
  Admins = {c1, c2}
  HookIds = {1, 2}
  Phases = {"p", "q"}
  HookVersions = {1, 2}
  HookApprovals = {"x"}
  HookPatches <- MCHookPatches
  AgentHooks <- MCAgentHooks
  MaxHookContextBlocks = 1
  ToolsAllowed = {"t1"}
  ToolsDenied = {"t1"}
  RetryMax = 1
  InitialHooks <- MCHooks
  HookRows <- MCHookRows
  MaxHookRequests = 2
  MaxInvocations = 1
  Second = 3
  DurationRange = 512
  DelegateTool = "origin.agent.delegate"
  BehaviourKeys = {"max_steps"}
  ConnectionKeys = {"base_url"}
  DraftServers = {s1, s2}
  Authors = {c1, c2}
  DraftIds = {1, 2}
  DraftVersion <- MCVersions
  NewSources <- MCSources
  Edits <- MCEdits
  PluginManifests <- MCPlugins
  DraftTools = {"t1", "t2"}
  InitialDrafts <- MCDrafts
  MaxDraftRequests = 2
  ResourceServers = {s0}
  ResourceCallers = {c1, c2}
  ReleasedVersions = {"v1", "v2"}
  StaticVersions = {"v0"}
  SkillVersions = {1, 2, 3}
  PromptPatches <- MCPromptPatches
  InitialResources <- MCResources
  MaxResourceRequests = 2
SPECIFICATION ConfigurationSpec
SYMMETRY ConfigurationSymmetry
CHECK_DEADLOCK FALSE
INVARIANTS
  ConnectionCurrent
  CatalogConsistent
  ApprovedOncePerBinding
  OnlyEnabledHooksApply
  ReleasedGovernable
  PublishedWasApproved
  SkillStaysActive
PROPERTIES
  SkillVersionsKept
