--------------------------- MODULE AgentCompiler ---------------------------
(***************************************************************************)
(* The compiler of agent packages (internal/agentdef/package/compiler.go)   *)
(* and the reader of agent plugin manifests (internal/agentdef/plugin): how *)
(* a source, or a manifest with overrides, becomes the definition the       *)
(* runtime loads.  Pure operators; AgentDraft runs them.                    *)
(*                                                                          *)
(* A list keeps its order and its duplicates, "" is the empty string, and a *)
(* pointer field is the set of its value, {} for nil.  A definition is a    *)
(* record, and the error of a failed compilation is CompileError.           *)
(***************************************************************************)
EXTENDS Integers, Sequences, FiniteSets, SequencesExt

CONSTANTS
  Second,           \* nanoseconds of a second, scaled to DurationRange
  DurationRange,    \* the number of values of a time.Duration, 2^width
  DelegateTool,     \* "origin.agent.delegate"
  BehaviourKeys,    \* metadata keys that name behaviour (max_steps, tool_bindings, ...)
  ConnectionKeys    \* metadata keys that name connection facts (base_url, auth_ref, ...)

ASSUME CompilerAssumption ==
  /\ Second \in Nat \ {0} /\ DurationRange \in Nat \ {0}
  /\ BehaviourKeys \cap ConnectionKeys = {}

CompileError == [error |-> TRUE]
Compiled(d)  == "error" \notin DOMAIN d

Get(option, default) == IF option = {} THEN default ELSE CHOOSE v \in option : TRUE
NoEmpty(list)        == "" \notin ToSet(list)
NoConflict(l, r)     == ToSet(l) \cap ToSet(r) \subseteq {""}
Distinct(list, Key(_)) == \A i, j \in DOMAIN list : Key(list[i]) = Key(list[j]) => i = j

\* Multiplication of a time.Duration wraps around.
Wrap(n) == ((n + (DurationRange \div 2)) % DurationRange) - (DurationRange \div 2)

RiskLevels   == {"low", "medium", "high", "critical"}
HandoffModes == {"full_context", "summary_only", "reference_only", "hybrid"}
HookPhases   == {"before_context_build", "after_candidate_retrieval", "before_model_call",
                 "before_memory_write"}

-----------------------------------------------------------------------------
(* What a source leaves empty.                                             *)

NoStrategies ==
  [prompt  |-> [identity |-> "", system |-> "", developer |-> ""],
   model   |-> [maxOutputTokens |-> 0, timeout |-> 0, temperature |-> {}],
   context |-> [mode |-> "", numbers |-> {}, sources |-> <<>>, budgets |-> {},
                compression |-> [mode |-> "", failure |-> "", ratio |-> 0, target |-> 0, max |-> 0,
                                 toMemory |-> FALSE, inline |-> {}]],
   tools   |-> [mode |-> "", maxToolCalls |-> {}, risk |-> "", allowed |-> <<>>, allowedGroups |-> <<>>,
                denied |-> <<>>, deniedGroups |-> <<>>, preferred |-> <<>>],
   skills  |-> [mode |-> "", maxSelected |-> 0, enabled |-> <<>>, disabled |-> <<>>],
   runtime |-> [maxSteps |-> {}, maxSeconds |-> {}, maxModelRetries |-> {}, maxFailures |-> {}, mode |-> ""],
   repair  |-> [enabled |-> {}, maxAttempts |-> {}, failure |-> "", codes |-> <<>>],
   collaboration |-> [mode |-> "", maxDepth |-> {}, maxChildren |-> {}, maxTokens |-> {}, handoff |-> ""],
   memory  |-> [maxItems |-> {}, write |-> "", readScopes |-> <<>>, writeScopes |-> <<>>],
   knowledge |-> [search |-> "", inject |-> "", maxResults |-> 0, bases |-> <<>>],
   output  |-> [mode |-> "", schema |-> FALSE]]

NoTools == [allowed |-> <<>>, denied |-> <<>>, exposed |-> <<>>, allowedGroups |-> <<>>, deniedGroups |-> <<>>]
NoHookBindings == [mode |-> "", hooks |-> <<>>]

EmptySource ==
  [kind |-> "", provider |-> "", metadata |-> {}, agentsMD |-> "", prompt |-> "",
   strategies |-> NoStrategies, tools |-> NoTools, skills |-> <<>>, skillDefinitions |-> <<>>,
   collaborators |-> <<>>, exports |-> <<>>, hooks |-> NoHookBindings]

-----------------------------------------------------------------------------
(* Validation of the parts of a source.                                    *)

normalizeSourceKind(kind) == IF kind \in {"", "package"} THEN "package" ELSE kind
validSourceKind(kind)     == kind \in {"", "package", "plugin_service"}

ValidateSourceMetadata(metadata)       == metadata \cap BehaviourKeys = {}
ValidatePluginSourceMetadata(metadata) == metadata \cap ConnectionKeys = {}

validateToolBindings(t) ==
  /\ NoEmpty(t.denied) /\ NoEmpty(t.allowed) /\ NoEmpty(t.exposed)
  /\ ToSet(t.denied) \cap (ToSet(t.allowed) \cup ToSet(t.exposed)) = {}
  /\ NoEmpty(t.deniedGroups) /\ NoEmpty(t.allowedGroups)
  /\ ToSet(t.deniedGroups) \cap ToSet(t.allowedGroups) = {}

validCollaboratorStatus(status) == status \in {"enabled", "active", "disabled", "deleted"}

validateCollaborators(list) ==
  /\ Distinct(list, LAMBDA r : r.agent)
  /\ \A r \in ToSet(list) :
       /\ r.agent # ""
       /\ r.defaultMode \in {""} \cup HandoffModes /\ r.modes \subseteq HandoffModes
       /\ r.maxTokens >= 0
       /\ r.status = "" \/ validCollaboratorStatus(r.status)

validateRuntimeHookApprovalPolicy(p) ==
  /\ p.types \subseteq {"", "go", "static_hook_host"}
  /\ p.phases \subseteq {""} \cup HookPhases
  /\ p.failures \subseteq {"", "ignore", "reject"}

validateRuntimeHooks(h) ==
  /\ h.mode \in {"", "disabled", "data_hooks", "strategy_hooks"}
  /\ Distinct(h.hooks, LAMBDA b : b.hook)
  /\ \A b \in ToSet(h.hooks) :
       /\ b.hook # "" /\ b.phase \in HookPhases
       /\ b.type \in {"", "go", "static_hook_host"} /\ b.failure \in {"", "ignore", "reject"}
       /\ validateRuntimeHookApprovalPolicy(b.policy)

validateStringIDs(list)        == NoEmpty(list) /\ Distinct(list, LAMBDA id : id)
validateKnowledgeBaseIDs(list) == NoEmpty(list) /\ Distinct(list, LAMBDA id : id)

validateContextCompressionStrategy(c) ==
  /\ c.mode \in {"", "none", "truncate", "llm", "llm_then_truncate"}
  /\ c.failure \in {"", "continue", "reject"}
  /\ c.ratio \in 0..100 /\ c.target >= 0 /\ c.max >= 0
  /\ ~ c.toMemory
  /\ \A p \in c.inline : p.profile # "" /\ p.system # ""

validateContextStrategy(c) ==
  /\ c.mode \in {"", "auto", "concise", "balanced", "long_context", "full_debug"}
  /\ \A n \in c.numbers : n >= 0
  /\ NoEmpty(c.sources)
  /\ \A b \in c.budgets : b.source # "" /\ b.tokens >= 0
  /\ validateContextCompressionStrategy(c.compression)

validateModelStrategy(m) ==
  m.maxOutputTokens >= 0 /\ m.timeout >= 0 /\ \A t \in m.temperature : t \in 0..2

validateToolUseStrategy(t) ==
  /\ t.mode \in {"", "auto", "conservative", "tool_first", "no_tools"}
  /\ \A n \in t.maxToolCalls : n >= 0
  /\ t.risk \in {""} \cup RiskLevels
  /\ \A list \in {t.allowed, t.allowedGroups, t.denied, t.deniedGroups, t.preferred} : validateStringIDs(list)
  /\ NoConflict(t.allowed, t.denied) /\ NoConflict(t.allowedGroups, t.deniedGroups)

validateSkillUseStrategy(s) ==
  /\ s.mode \in {"", "auto", "explicit_only", "all_enabled"} /\ s.maxSelected >= 0
  /\ validateStringIDs(s.enabled) /\ validateStringIDs(s.disabled) /\ NoConflict(s.enabled, s.disabled)

validateRuntimeStrategy(r) ==
  /\ \A n \in r.maxSteps \cup r.maxSeconds : n > 0
  /\ \A n \in r.maxModelRetries \cup r.maxFailures : n >= 0
  /\ r.mode \in {"", "sync", "async"}

validateRepairStrategy(r) ==
  /\ \A n \in r.maxAttempts : n >= 0
  /\ r.failure \in {"", "stop", "continue", "request_model_repair"} /\ NoEmpty(r.codes)

validateCollaborationStrategy(c) ==
  /\ c.mode \in {"", "disabled", "explicit", "auto"}
  /\ \A n \in c.maxDepth \cup c.maxChildren \cup c.maxTokens : n >= 0
  /\ c.handoff \in {""} \cup HandoffModes

validateMemoryStrategy(m) ==
  /\ \A n \in m.maxItems : n >= 0
  /\ m.write \in {"", "disabled", "explicit_intent"} /\ NoEmpty(m.readScopes) /\ NoEmpty(m.writeScopes)

validateKnowledgeStrategy(k) ==
  /\ k.search \in {"", "bm25", "embedding", "hybrid"} /\ k.inject \in {"", "tool_only"}
  /\ k.maxResults >= 0 /\ validateKnowledgeBaseIDs(k.bases)

validateOutputStrategy(o) == o.mode \in {"", "decision_json"} /\ ~ o.schema

validateAgentStrategies(s) ==
  /\ validateContextStrategy(s.context) /\ validateModelStrategy(s.model)
  /\ validateToolUseStrategy(s.tools) /\ validateSkillUseStrategy(s.skills)
  /\ validateRuntimeStrategy(s.runtime) /\ validateRepairStrategy(s.repair)
  /\ validateCollaborationStrategy(s.collaboration) /\ validateMemoryStrategy(s.memory)
  /\ validateKnowledgeStrategy(s.knowledge) /\ validateOutputStrategy(s.output)

\* "complete": the tool has a name, a description and an input schema.
validToolVisibility(visibility) == visibility \in {"private", "protected", "exposed"}
validateExports(list) ==
  /\ Distinct(list, LAMBDA t : t.tool)
  /\ \A t \in ToSet(list) :
       /\ t.tool # "" /\ t.complete /\ t.risk \in {""} \cup RiskLevels
       /\ t.visibility = "" \/ validToolVisibility(t.visibility)

\* The fields an exported tool may leave empty, filled in.
normalizedExports(list) ==
  [i \in DOMAIN list |->
     [list[i] EXCEPT !.risk = IF @ = "" THEN "low" ELSE @, !.status = IF @ = "" THEN "enabled" ELSE @,
                     !.visibility = IF @ = "" THEN "protected" ELSE @]]

validateSkillRefs(list) ==
  Distinct(list, LAMBDA r : <<r.skill, r.version>>) /\ \A r \in ToSet(list) : r.skill # ""

\* "owner" is the skill id of the instruction, "resources" that each resource is complete.
validSkillDefinitions(list) ==
  /\ Distinct(list, LAMBDA d : <<d.skill, d.version>>)
  /\ \A d \in ToSet(list) :
       /\ d.skill # "" /\ d.status \in {"", "enabled", "disabled"} /\ d.risk \in {""} \cup RiskLevels
       /\ d.owner \in {"", d.skill} /\ d.resources

normalizeSkillDefinitions(list) ==
  [i \in DOMAIN list |->
     [list[i] EXCEPT !.status = IF @ = "" THEN "enabled" ELSE @, !.risk = IF @ = "" THEN "low" ELSE @,
                     !.owner = list[i].skill]]

-----------------------------------------------------------------------------
(* Compilation.                                                            *)

\* Mutant: an overflow of the duration is not noticed.
LimitsTrustSeconds(l) ==
  l.maxSteps > 0 /\ l.maxToolCalls >= 0 /\ l.maxModelRetries >= 0 /\ l.maxRepair >= 0
    /\ l.maxFailures >= 0 /\ l.maxDepth >= 0 /\ l.maxChildren >= 0

validateRuntimeLimits(l) ==
  /\ l.maxSteps > 0 /\ l.maxToolCalls >= 0 /\ l.maxDuration > 0
  /\ l.maxDepth >= 0 /\ l.maxChildren >= 0
  /\ l.maxModelRetries >= 0 /\ l.maxRepair >= 0 /\ l.maxFailures >= 0

DefaultLimits ==
  [maxSteps |-> 8, maxToolCalls |-> 8, maxDuration |-> Wrap(60 * Second), maxDepth |-> 0, maxChildren |-> 0,
   maxModelRetries |-> 1, maxRepair |-> 1, maxFailures |-> 2]

Given(list, default) == IF list = <<>> THEN default ELSE list

applyPromptStrategy(d, p) ==
  [d EXCEPT !.identity  = IF p.identity = "" THEN @ ELSE p.identity,
            !.system    = IF p.system = "" THEN @ ELSE p.system,
            !.developer = IF p.developer = "" THEN @ ELSE p.developer]

applyToolUseStrategy(d, t) ==
  [d EXCEPT !.tools.allowed = Given(t.allowed, @), !.tools.allowedGroups = Given(t.allowedGroups, @),
            !.tools.denied = Given(t.denied, @), !.tools.deniedGroups = Given(t.deniedGroups, @),
            !.limits.maxToolCalls = Get(t.maxToolCalls, @)]

applyRuntimeStrategy(d, r) ==
  [d EXCEPT !.limits.maxSteps = Get(r.maxSteps, @),
            !.limits.maxDuration = IF r.maxSeconds = {} THEN @ ELSE Wrap(Get(r.maxSeconds, 0) * Second),
            !.limits.maxModelRetries = Get(r.maxModelRetries, @), !.limits.maxFailures = Get(r.maxFailures, @)]

applyRepairStrategy(d, r) ==
  [d EXCEPT !.limits.maxRepair = IF FALSE \in r.enabled THEN 0 ELSE Get(r.maxAttempts, @)]

appendUniqueString(list, id) == IF id \in ToSet(list) THEN list ELSE Append(list, id)

applyCollaborationStrategy(d, c) ==
  [d EXCEPT !.limits.maxDepth = Get(c.maxDepth, @), !.limits.maxChildren = Get(c.maxChildren, @),
            !.tools.denied = IF c.mode = "disabled" THEN appendUniqueString(@, DelegateTool) ELSE @]

\* In the order of the code: delegation is denied after the strategy's lists are in place.
applyCompiledStrategies(d, s) ==
  applyCollaborationStrategy(
    applyRepairStrategy(
      applyRuntimeStrategy(applyToolUseStrategy(applyPromptStrategy(d, s.prompt), s.tools), s.runtime), s.repair),
    s.collaboration)

validSource(source) ==
  /\ validSourceKind(source.kind)
  /\ normalizeSourceKind(source.kind) = "plugin_service" =>
       source.provider # "" /\ ValidatePluginSourceMetadata(source.metadata)
  /\ ValidateSourceMetadata(source.metadata)
  /\ source.agentsMD # "" \/ source.prompt # ""
  /\ validateToolBindings(source.tools) /\ validateCollaborators(source.collaborators)
  /\ validateRuntimeHooks(source.hooks) /\ validateAgentStrategies(source.strategies)
  /\ validateExports(source.exports)

uncheckedDefinition(source) ==
  applyCompiledStrategies(
    [kind |-> normalizeSourceKind(source.kind), provider |-> source.provider,
     identity |-> IF source.prompt # "" THEN source.prompt ELSE source.agentsMD,
     system |-> "decisions_as_json", developer |-> "",
     tools |-> source.tools, skills |-> source.skills, collaborators |-> source.collaborators,
     exports |-> normalizedExports(source.exports), hooks |-> source.hooks, limits |-> DefaultLimits,
     skillDefinitions |-> normalizeSkillDefinitions(source.skillDefinitions)],
    source.strategies)

Compile(source) ==
  IF /\ validSource(source)
     /\ validateRuntimeLimits(uncheckedDefinition(source).limits)
     /\ validateSkillRefs(source.skills) /\ validSkillDefinitions(source.skillDefinitions)
  THEN uncheckedDefinition(source)
  ELSE CompileError

-----------------------------------------------------------------------------
(* Plugin manifests.                                                       *)

\* "schema": the input and the output schema each name a type.
validateManifestSchema(tool) == tool.schema

ValidateManifest(m) ==
  /\ Distinct(m.tools, LAMBDA t : t.tool) /\ Distinct(m.hooks, LAMBDA h : h.hook)
  /\ \A t \in ToSet(m.tools) : t.tool # "" /\ t.named /\ validateManifestSchema(t)
  /\ \A h \in ToSet(m.hooks) :
       /\ h.hook # "" /\ h.phase \in HookPhases /\ h.status \in {"", "enabled", "disabled"}
       /\ h.timeout >= 0 /\ h.failure \in {"", "ignore", "reject"}

toolBindingsForManifest(tools) ==
  [NoTools EXCEPT !.allowed = [i \in DOMAIN tools |-> tools[i].tool]]

runtimeHooksForManifest(hooks) ==
  IF hooks = <<>> THEN NoHookBindings
  ELSE [mode |-> "plugin_hooks",
        hooks |-> [i \in DOMAIN hooks |->
                     [hook |-> hooks[i].hook, type |-> "static_hook_host", phase |-> hooks[i].phase,
                      failure |-> hooks[i].failure, policy |-> hooks[i].policy]]]

firstNonEmpty(list) ==
  LET i == SelectInSeq(list, LAMBDA v : v # "") IN IF i = 0 THEN "" ELSE list[i]

\* Family by family, the override unless it is empty.
mergeStrategies(base, override) ==
  [f \in DOMAIN base |-> IF override[f] = NoStrategies[f] THEN base[f] ELSE override[f]]

First(override, empty, base) == IF override # empty THEN override ELSE base

PackageSourceFromPlugin(m, provider, over) ==
  [kind |-> "plugin_service",
   provider |-> firstNonEmpty(<<over.provider, provider, m.provider>>),
   metadata |-> over.metadata \cup {"manifest_hash"},
   agentsMD |-> firstNonEmpty(<<over.agentsMD, m.agentsMD>>), prompt |-> firstNonEmpty(<<over.prompt, m.prompt>>),
   strategies |-> mergeStrategies(m.strategies, over.strategies),
   tools |-> First(over.tools, NoTools, toolBindingsForManifest(m.tools)),
   skills |-> over.skills, skillDefinitions |-> over.skillDefinitions,
   collaborators |-> First(over.collaborators, <<>>, m.collaborators),
   exports |-> First(over.exports, <<>>, m.exports),
   hooks |-> First(over.hooks, NoHookBindings, runtimeHooksForManifest(m.hooks))]

\* The source built from a manifest and the overrides of the request, or the error.
BuildSource(m, provider, over) ==
  LET source == PackageSourceFromPlugin(m, provider, over) IN
  IF ValidateManifest(m) /\ source.provider # "" /\ (source.prompt # "" \/ source.agentsMD # "")
  THEN source ELSE CompileError

=============================================================================
