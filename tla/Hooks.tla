------------------------------- MODULE Hooks -------------------------------
(***************************************************************************)
(* Runtime hooks (internal/runtime/hook, its postgres store and the         *)
(* handlers of the API): a provider, the manifests of its hooks with their  *)
(* versions, the bindings of hooks to an agent, and the invocation of the   *)
(* bound hooks at one phase of a run.  Requests of administrators, the sync *)
(* of an agent plugin and the run interleave between any two calls of the   *)
(* store.                                                                   *)
(*                                                                          *)
(* A hook is a number: bindings are invoked in the order of hook ids.       *)
(***************************************************************************)
EXTENDS Integers, FiniteSets, Sequences

CONSTANTS
  Admins,          \* requests handled at the same time
  HookIds,         \* hooks, numbers from 1
  Phases,          \* phases of a run that hooks can be bound to
  HookVersions,    \* versions of a manifest
  HookApprovals,   \* ids of approval requests
  HookPatches,     \* patches a hook can answer
  AgentHooks,      \* the hooks of the agent's own definition: a sequence of bindings
  MaxHookContextBlocks,           \* quota of a patch
  ToolsAllowed, ToolsDenied,      \* what the agent and its policy say of tools
  RetryMax,        \* retries of the provider's connection
  InitialHooks,    \* what the database and the approval service may hold at first
  HookRows,        \* the rows requests give: providers, manifests, bindings, and the
                   \* lists of hooks that providers and plugins answer
  MaxHookRequests, \* requests handled in all (bound, model checking only)
  MaxInvocations   \* invocations in all (bound, model checking only)

VARIABLES
  hookProvider,    \* the runtime_hook_providers row
  hookConnection,  \* the provider's service connection is enabled and not unhealthy
  hookManifest,    \* runtime_hook_manifests, by hook
  manifestVersion, \* runtime_hook_manifest_versions, by hook and version
  hookBinding,     \* agent_runtime_hook_bindings, by hook and phase
  hookApproval,    \* the approval service's items
  admin,           \* admin[c]: where the request is, and its locals
  adminRequests,   \* requests received so far
  hookRun,         \* where the run's invocation is, and its locals
  invocations,     \* invocations so far
  hookEvents,      \* runtime_hook_events, in the order they were written
  seenEnabled,     \* history: what has been enabled during the present invocation
  gatedWrites,     \* history: bindings stored after a gate that asked for approval
  bindingWriter    \* history: who stored the binding there is, by hook and phase

hookVars ==
  <<hookProvider, hookConnection, hookManifest, manifestVersion, hookBinding, hookApproval,
    admin, adminRequests, hookRun, invocations, hookEvents, seenEnabled,
    gatedWrites, bindingWriter>>

bindingHistory == <<gatedWrites, bindingWriter>>
adminVars == <<hookProvider, hookManifest, manifestVersion, hookBinding, hookApproval, bindingHistory>>
runVars   == <<hookRun, invocations, hookEvents>>

Keys       == HookIds \X Phases
NoRow      == [status |-> "absent"]
IdleHooks  == [pc |-> "idle"]
NoneSeen   == [provider |-> FALSE, manifests |-> {}]
NoPatch    == [blocks |-> 0, secret |-> FALSE, ranked |-> {}, dropped |-> {}]
HookHealth == {"unknown", "healthy", "unhealthy"}

\* An approval is for the binding of a hook to a phase.
ApprovalItems ==
  {NoRow} \cup [status : {"pending", "approved", "rejected", "used"}, resource : Keys]

\* A static provider is reached at its endpoint or through a service connection.
Providers ==
  [status : {"enabled", "disabled"}, type : {"go"}, reach : {"none"}, health : HookHealth]
    \cup [status : {"enabled", "disabled"}, type : {"static_hook_host"},
          reach : {"endpoint", "service_connection"}, health : HookHealth]

\* When approval is asked for: an empty list stands for any type, phase or failure policy.
ApprovalPolicies ==
  [required : BOOLEAN, types : SUBSET {"go", "static_hook_host"}, phases : SUBSET Phases,
   failures : SUBSET {"ignore", "reject"}]

HookManifests ==
  [status : {"enabled", "disabled"}, hook : HookIds, version : HookVersions, phase : Phases,
   provider : BOOLEAN, gated : BOOLEAN, policy : ApprovalPolicies, failure : {"ignore", "reject"}]

\* kind: a patch of the binding's own configuration, one of a registered go provider, or
\* the answer of a static provider.
Bindings ==
  [status : {"enabled", "disabled"}, hook : HookIds, phase : Phases,
   kind : {"go", "go_provider", "static_hook_host"}, gated : BOOLEAN, policy : ApprovalPolicies,
   failure : {"ignore", "reject"}, config : HookPatches]

Resource(b) == <<b.hook, b.phase>>

ProviderType(b) == IF b.kind = "static_hook_host" THEN b.kind ELSE "go"

ApprovalPolicyMatches(policy, b) ==
  /\ policy.required
  /\ policy.types = {} \/ ProviderType(b) \in policy.types
  /\ policy.phases = {} \/ b.phase \in policy.phases
  /\ policy.failures = {} \/ b.failure \in policy.failures

\* The binding itself asks for approval.
AsksApproval(b) == b.gated \/ ApprovalPolicyMatches(b.policy, b)

\* Tables that earlier requests can have left.
SoundHooks(init) ==
  /\ init.provider \in Providers \cup {NoRow}
  /\ init.manifest \in [HookIds -> HookManifests \cup {NoRow}]
  /\ init.binding \in [Keys -> Bindings \cup {NoRow}]
  /\ init.approval \in [HookApprovals -> ApprovalItems]

ASSUME HookAssumption ==
  /\ HookIds \subseteq Nat \ {0} /\ IsFiniteSet(HookIds) /\ IsFiniteSet(HookApprovals)
  /\ RetryMax \in Nat /\ MaxHookContextBlocks \in Nat /\ AgentHooks \in Seq(Bindings)
  /\ \A init \in InitialHooks : SoundHooks(init)
  /\ MaxHookRequests \in Nat /\ MaxInvocations \in Nat
  /\ HookRows.providers \subseteq Providers
  /\ HookRows.manifests \subseteq HookManifests
  /\ HookRows.bindings \subseteq Bindings
  /\ HookRows.listed \subseteq Seq(HookManifests) \ {<<>>}
  /\ NoPatch \in HookPatches
  /\ HookPatches \subseteq [blocks : Nat, secret : BOOLEAN, ranked : SUBSET (ToolsAllowed \cup ToolsDenied),
                            dropped : SUBSET {"conversation", "memory", "policy", "safety"}]

HookInit ==
  /\ \E init \in InitialHooks :
       /\ hookProvider = init.provider /\ hookManifest = init.manifest
       /\ hookBinding = init.binding /\ hookApproval = init.approval
       /\ manifestVersion = [h \in HookIds |-> [v \in HookVersions |->
            IF hookManifest[h].status # "absent" /\ hookManifest[h].version = v
              THEN hookManifest[h] ELSE NoRow]]
  /\ hookConnection \in BOOLEAN
  /\ admin         = [c \in Admins |-> IdleHooks]
  /\ adminRequests = 0
  /\ hookRun       = IdleHooks
  /\ invocations   = 0
  /\ hookEvents    = <<>>
  /\ seenEnabled   = NoneSeen
  /\ gatedWrites   = [k \in Keys |-> 0]
  /\ bindingWriter = [k \in Keys |-> "earlier"]

-----------------------------------------------------------------------------
(* Stores.                                                                 *)

GetProvider    == hookProvider.status # "absent"
GetManifest(h) == hookManifest[h].status # "absent"
GetManifestVersion(h, v) == manifestVersion[h][v].status # "absent"

StoreProvider(row) == hookProvider' = row

\* The current manifest and its version, in one transaction.
StoreManifest(row) ==
  /\ hookManifest' = [hookManifest EXCEPT ![row.hook] = row]
  /\ manifestVersion' = [manifestVersion EXCEPT ![row.hook][row.version] = row]

StoreBinding(row) == hookBinding' = [hookBinding EXCEPT ![<<row.hook, row.phase>>] = row]

\* The one list of a set of hooks in the order of their ids.
InOrder(hooks) ==
  {list \in [1..Cardinality(hooks) -> hooks] : \A i, j \in DOMAIN list : i < j => list[i] < list[j]}

\* The bindings of a phase, by hook id.
ListBindings(phase) ==
  {[i \in DOMAIN list |-> hookBinding[<<list[i], phase>>]] :
     list \in InOrder({h \in HookIds : hookBinding[<<h, phase>>].status # "absent"})}

SaveEvent(hook, status) == hookEvents' = Append(hookEvents, [hook |-> hook, status |-> status])

-----------------------------------------------------------------------------
(* Requests.                                                               *)

AdminAt(c, pc)   == admin[c].pc = pc
AdminGoes(c, r)  == admin' = [admin EXCEPT ![c] = r]
AdminAnswer(c)   == AdminGoes(c, IdleHooks)
AdminBegin(c, r) ==
  /\ AdminAt(c, "idle") /\ adminRequests < MaxHookRequests
  /\ adminRequests' = adminRequests + 1
  /\ AdminGoes(c, r)
  /\ UNCHANGED <<adminVars, hookConnection, runVars>>

\* Where a static provider is reached, or why not.
staticProviderConnection(provider) ==
  \/ provider.reach = "endpoint"
  \/ provider.reach = "service_connection" /\ hookConnection

\* POST, PUT and PATCH give the whole row, its health status too.
PutHookProvider(c, row) == AdminBegin(c, [pc |-> "upsert_provider", row |-> row])

\* DELETE reads the row and disables it.
DeleteHookProvider(c) ==
  /\ GetProvider
  /\ AdminBegin(c, [pc |-> "upsert_provider", row |-> [hookProvider EXCEPT !.status = "disabled"]])

ProviderRefused(row) == row.type = "static_hook_host" /\ ~staticProviderConnection(row)

UpsertHookProvider(c) ==
  LET row == admin[c].row
  IN  /\ AdminAt(c, "upsert_provider")
      /\ \/ ProviderRefused(row) /\ AdminAnswer(c)
         \/ ~ProviderRefused(row) /\ AdminGoes(c, [pc |-> "store_provider", row |-> row])
      /\ UNCHANGED <<adminVars, hookConnection, adminRequests, runVars>>

\* A health check reads the row, probes the provider and writes the row back.
CheckHookProviderHealth(c) ==
  GetProvider /\ AdminBegin(c, [pc |-> "probe", row |-> hookProvider])

\* A go provider is healthy; a static one must be reachable and answer /healthz, asked
\* RetryMax + 1 times.
probeHookProviderHealth(c) ==
  LET row == admin[c].row
  IN  /\ AdminAt(c, "probe")
      /\ \E health \in IF row.type = "go" THEN {"healthy"}
                       ELSE IF staticProviderConnection(row) THEN {"healthy", "unhealthy"}
                       ELSE {"unhealthy"} :
           AdminGoes(c, [pc |-> "store_provider", row |-> [row EXCEPT !.health = health]])
      /\ UNCHANGED <<adminVars, hookConnection, adminRequests, runVars>>

WriteHookProvider(c) ==
  /\ AdminAt(c, "store_provider")
  /\ StoreProvider(admin[c].row)
  /\ AdminAnswer(c)
  /\ UNCHANGED <<hookManifest, manifestVersion, hookBinding, hookApproval, bindingHistory,
                 hookConnection, adminRequests, runVars>>

-----------------------------------------------------------------------------
(* Manifests.                                                              *)

\* POST, PUT and PATCH give the whole manifest.
PutManifest(c, row) == AdminBegin(c, [pc |-> "upsert_manifest", rows |-> <<row>>])

DeleteManifest(c, h) ==
  /\ GetManifest(h)
  /\ AdminBegin(c, [pc |-> "upsert_manifest",
                    rows |-> <<[hookManifest[h] EXCEPT !.status = "disabled"]>>])

\* Only a version that is enabled becomes current; the row read is written.
ActivateManifestVersion(c, h, v) ==
  /\ GetManifestVersion(h, v) /\ manifestVersion[h][v].status = "enabled"
  /\ AdminBegin(c, [pc |-> "upsert_manifest", rows |-> <<manifestVersion[h][v]>>])

\* The provider is asked for its catalog if it is static, enabled and not unhealthy.
SyncHookCatalog(c) ==
  /\ GetProvider /\ hookProvider.type = "static_hook_host"
  /\ hookProvider.status = "enabled" /\ hookProvider.health # "unhealthy"
  /\ AdminBegin(c, [pc |-> "catalog", row |-> hookProvider])

\* What it lists is its own, and enabled whatever was stored; the rest of each row is kept.
normalizeProviderCatalog(rows) ==
  [i \in DOMAIN rows |-> [rows[i] EXCEPT !.status = "enabled", !.provider = TRUE]]

\* The provider may not answer, or list a hook twice.
fetchProviderCatalog(c) ==
  /\ AdminAt(c, "catalog")
  /\ \/ AdminAnswer(c)
     \/ /\ staticProviderConnection(admin[c].row)
        /\ \E rows \in HookRows.listed :
             /\ \A i, j \in DOMAIN rows : rows[i].hook = rows[j].hook => i = j
             /\ AdminGoes(c, [pc |-> "upsert_manifest", rows |-> normalizeProviderCatalog(rows)])
  /\ UNCHANGED <<adminVars, hookConnection, adminRequests, runVars>>

\* A manifest that names a provider needs it registered.
ManifestRefused(row) == row.provider /\ ~GetProvider

UpsertHookManifest(c) ==
  LET row  == Head(admin[c].rows)
      rest == Tail(admin[c].rows)
  IN  /\ AdminAt(c, "upsert_manifest")
      /\ \/ ManifestRefused(row) /\ AdminAnswer(c) /\ UNCHANGED <<hookManifest, manifestVersion>>
         \/ /\ ~ManifestRefused(row)
            /\ StoreManifest(row)
            /\ IF rest = <<>> THEN AdminAnswer(c)
               ELSE AdminGoes(c, [pc |-> "upsert_manifest", rows |-> rest])
      /\ UNCHANGED <<hookProvider, hookBinding, hookApproval, bindingHistory, hookConnection,
                     adminRequests, runVars>>

-----------------------------------------------------------------------------
(* Bindings.                                                               *)

Named(b) == b.kind # "go"

\* A static binding needs a manifest.  A binding without a provider passes when the
\* manifest has one; otherwise the manifest must be enabled and of the same phase.
validateBindingManifest(b) ==
  LET m == hookManifest[b.hook]
  IN  IF ~GetManifest(b.hook) THEN b.kind # "static_hook_host"
      ELSE \/ ~Named(b) /\ m.provider
           \/ m.status = "enabled" /\ m.phase = b.phase

\* The approval named in the request, if any, is for this binding or for another.
PutBinding(c, b, approval) ==
  /\ validateBindingManifest(b)
  /\ AdminBegin(c, [pc |-> "gate", row |-> b, approval |-> approval, gated |-> FALSE])

\* The binding may ask for approval itself, and its manifest may.
runtimeHookBindingRequiresApproval(b) ==
  \/ AsksApproval(b)
  \/ /\ GetManifest(b.hook)
     /\ \/ hookManifest[b.hook].gated
        \/ ApprovalPolicyMatches(hookManifest[b.hook].policy, b)

Approved(a, b) == hookApproval[a].status = "approved" /\ hookApproval[a].resource = Resource(b)

\* Mutant: the approval is only looked at.
ValidateOnly(a, b) == Approved(a, b) /\ UNCHANGED hookApproval

Consume(a, b) ==
  /\ Approved(a, b)
  /\ hookApproval' = [hookApproval EXCEPT ![a].status = "used"]

RequestApproval(b) ==
  \E a \in HookApprovals :
    /\ hookApproval[a].status = "absent"
    /\ hookApproval' = [hookApproval EXCEPT ![a] = [status |-> "pending", resource |-> Resource(b)]]

\* With an approval the write goes on; without one it ends in a request for approval.
runtimeHookBindingApprovalGate(c) ==
  LET b == admin[c].row  a == admin[c].approval
  IN  /\ AdminAt(c, "gate")
      /\ \/ /\ ~runtimeHookBindingRequiresApproval(b)
            /\ AdminGoes(c, [pc |-> "upsert_binding", row |-> b, gated |-> FALSE])
            /\ UNCHANGED hookApproval
         \/ /\ runtimeHookBindingRequiresApproval(b) /\ a # "none"
            /\ Consume(a, b)
            /\ AdminGoes(c, [pc |-> "upsert_binding", row |-> b, gated |-> TRUE])
         \/ /\ runtimeHookBindingRequiresApproval(b) /\ a # "none"
            /\ ~Approved(a, b)
            /\ AdminAnswer(c) /\ UNCHANGED hookApproval
         \/ /\ runtimeHookBindingRequiresApproval(b) /\ a = "none"
            /\ RequestApproval(b) /\ AdminAnswer(c)
      /\ UNCHANGED <<hookProvider, hookManifest, manifestVersion, hookBinding, bindingHistory,
                     hookConnection, adminRequests, runVars>>

\* The binding is prepared once more; if that fails the approval is spent.
UpsertBinding(c) ==
  LET b == admin[c].row
  IN  /\ AdminAt(c, "upsert_binding")
      /\ \/ /\ validateBindingManifest(b)
            /\ StoreBinding(b)
            /\ gatedWrites' = [gatedWrites EXCEPT ![Resource(b)] = @ + IF admin[c].gated THEN 1 ELSE 0]
            /\ bindingWriter' = [bindingWriter EXCEPT ![Resource(b)] =
                                   IF admin[c].gated THEN "approved" ELSE "request"]
         \/ ~validateBindingManifest(b) /\ UNCHANGED <<hookBinding, bindingHistory>>
      /\ AdminAnswer(c)
      /\ UNCHANGED <<hookProvider, hookManifest, manifestVersion, hookApproval, hookConnection,
                     adminRequests, runVars>>

-----------------------------------------------------------------------------
(* The hooks of an agent plugin (agent.plugin.sync, once its draft and its  *)
(* tools are written).  Each is bound to the agent as the plugin's manifest *)
(* says: no gate is passed.                                                 *)

PluginProvider ==
  [status |-> "enabled", type |-> "static_hook_host", reach |-> "service_connection", health |-> "unknown"]

PluginBinding(m) ==
  [status |-> "enabled", hook |-> m.hook, phase |-> m.phase, kind |-> "static_hook_host",
   gated |-> m.gated, policy |-> m.policy, failure |-> m.failure, config |-> NoPatch]

syncAgentPluginHookManifests(c) ==
  \E rows \in HookRows.listed :
    AdminBegin(c, [pc |-> "sync_provider",
                   hooks |-> [i \in DOMAIN rows |-> [rows[i] EXCEPT !.provider = TRUE]]])

SyncGoesOn(c, rest) ==
  IF rest = <<>> THEN AdminAnswer(c) ELSE AdminGoes(c, [pc |-> "sync_manifest", hooks |-> rest])

SyncProvider(c) ==
  /\ AdminAt(c, "sync_provider")
  /\ \/ ProviderRefused(PluginProvider) /\ AdminAnswer(c)
     \/ ~ProviderRefused(PluginProvider) /\ AdminGoes(c, [pc |-> "sync_store", hooks |-> admin[c].hooks])
  /\ UNCHANGED <<adminVars, hookConnection, adminRequests, runVars>>

SyncStoreProvider(c) ==
  /\ AdminAt(c, "sync_store")
  /\ StoreProvider(PluginProvider)
  /\ SyncGoesOn(c, admin[c].hooks)
  /\ UNCHANGED <<hookManifest, manifestVersion, hookBinding, hookApproval, bindingHistory,
                 hookConnection, adminRequests, runVars>>

\* A hook that is not enabled is not bound.
SyncManifest(c) ==
  LET row == Head(admin[c].hooks)
  IN  /\ AdminAt(c, "sync_manifest")
      /\ \/ ManifestRefused(row) /\ AdminAnswer(c) /\ UNCHANGED <<hookManifest, manifestVersion>>
         \/ /\ ~ManifestRefused(row)
            /\ StoreManifest(row)
            /\ IF row.status = "enabled" THEN AdminGoes(c, [pc |-> "sync_binding", hooks |-> admin[c].hooks])
               ELSE SyncGoesOn(c, Tail(admin[c].hooks))
      /\ UNCHANGED <<hookProvider, hookBinding, hookApproval, bindingHistory, hookConnection,
                     adminRequests, runVars>>

SyncBinding(c) ==
  LET b == PluginBinding(Head(admin[c].hooks))
  IN  /\ AdminAt(c, "sync_binding")
      /\ \/ /\ ~validateBindingManifest(b)
            /\ AdminAnswer(c) /\ UNCHANGED <<hookBinding, bindingWriter>>
         \/ /\ validateBindingManifest(b)
            /\ StoreBinding(b)
            /\ bindingWriter' = [bindingWriter EXCEPT ![Resource(b)] = "sync"]
            /\ SyncGoesOn(c, Tail(admin[c].hooks))
      /\ UNCHANGED <<hookProvider, hookManifest, manifestVersion, hookApproval, gatedWrites,
                     hookConnection, adminRequests, runVars>>

\* A call of the store fails: the request ends with what was written before it.
HookStoreFails(c) ==
  /\ admin[c].pc \in {"store_provider", "upsert_manifest", "upsert_binding",
                      "sync_store", "sync_manifest", "sync_binding"}
  /\ AdminAnswer(c)
  /\ UNCHANGED <<adminVars, hookConnection, adminRequests, runVars>>

-----------------------------------------------------------------------------
\* An approver decides on what is pending.
ResolveApproval(a, status) ==
  /\ hookApproval[a].status = "pending"
  /\ hookApproval' = [hookApproval EXCEPT ![a].status = status]
  /\ UNCHANGED <<hookProvider, hookManifest, manifestVersion, hookBinding, bindingHistory,
                 hookConnection, admin, adminRequests, runVars>>

\* The connection is changed or tested by other requests.
ConnectionChanges ==
  /\ adminRequests < MaxHookRequests /\ adminRequests' = adminRequests + 1
  /\ hookConnection' = ~hookConnection
  /\ UNCHANGED <<adminVars, admin, runVars>>

-----------------------------------------------------------------------------
(* Patches.                                                                *)

hasPatch(p) == p.blocks > 0 \/ p.ranked # {} \/ p.dropped # {}
validatePatchQuotas(p) == p.blocks <= MaxHookContextBlocks
validatePatchSensitiveFields(p) == ~p.secret

validatePatch(p) ==
  /\ validatePatchQuotas(p) /\ validatePatchSensitiveFields(p)
  /\ p.ranked \cap ToolsDenied = {} /\ p.ranked \subseteq ToolsAllowed
  /\ p.dropped \cap {"policy", "safety"} = {}

-----------------------------------------------------------------------------
(* Invocation at a phase of a run.                                         *)

HookRunAt(pc) == hookRun.pc = pc
Current       == Head(hookRun.todo)

\* The stored bindings, then the agent's own.
bindings(phase) == {list \o AgentHooks : list \in ListBindings(phase)}

Invoke(phase) ==
  /\ HookRunAt("idle") /\ invocations < MaxInvocations
  /\ invocations' = invocations + 1
  /\ \E list \in bindings(phase) :
       hookRun' = [pc |-> "next", phase |-> phase, todo |-> list, merged |-> <<>>,
                   provider |-> NoRow, sent |-> 0]
  /\ UNCHANGED <<adminVars, hookConnection, admin, adminRequests, hookEvents>>

\* A run invokes the hooks of a phase, and so does a request to preview them.
applyRuntimeHook(phase)   == Invoke(phase)
runtimeHookPreview(phase) == Invoke(phase)

\* A hook that succeeds adds its patch; a failing one is passed over or ends it all.
Succeeds(status, patch) ==
  /\ SaveEvent(Current.hook, status)
  /\ hookRun' = [hookRun EXCEPT !.pc = "next", !.todo = Tail(@), !.sent = 0,
                   !.merged = IF hasPatch(patch) THEN Append(@, [hook |-> Current, patch |-> patch]) ELSE @]

Fails(status) ==
  /\ SaveEvent(Current.hook, status)
  /\ hookRun' = IF Current.failure = "reject"
                THEN [hookRun EXCEPT !.pc = "apply", !.todo = <<Current>>, !.merged = <<>>, !.sent = 0]
                ELSE [hookRun EXCEPT !.pc = "next", !.todo = Tail(@), !.sent = 0]

Applicable == Current.status = "enabled" /\ Current.phase = hookRun.phase

\* A binding that is disabled or of another phase is passed over.
SkipBinding ==
  /\ HookRunAt("next") /\ hookRun.todo # <<>> /\ ~Applicable
  /\ hookRun' = [hookRun EXCEPT !.todo = Tail(@)]
  /\ UNCHANGED <<adminVars, hookConnection, admin, adminRequests, invocations, hookEvents>>

\* The manifest is read, then the provider.
invokeBinding ==
  /\ HookRunAt("next") /\ hookRun.todo # <<>> /\ Applicable
  /\ \/ ~validateBindingManifest(Current) /\ Fails("rejected")
     \/ /\ validateBindingManifest(Current)
        /\ hookRun' = [hookRun EXCEPT !.pc = IF Named(Current) THEN "provider" ELSE "go"]
        /\ UNCHANGED hookEvents
  /\ UNCHANGED <<adminVars, hookConnection, admin, adminRequests, invocations>>

\* Mutant: the status of the provider is not looked at.
ProviderHealthy == GetProvider /\ hookProvider.health # "unhealthy"

ProviderUsable == GetProvider /\ hookProvider.status = "enabled" /\ hookProvider.health # "unhealthy"

readHookProvider ==
  /\ HookRunAt("provider")
  /\ \/ ~ProviderUsable /\ Fails("rejected")
     \/ /\ ProviderUsable
        /\ hookRun' = [hookRun EXCEPT !.provider = hookProvider,
                         !.pc = IF Current.kind = "static_hook_host" THEN "connect" ELSE "go"]
        /\ UNCHANGED hookEvents
  /\ UNCHANGED <<adminVars, hookConnection, admin, adminRequests, invocations>>

\* A go hook's patch is in its configuration.
patchFromConfig ==
  LET patch == Current.config
  IN  /\ HookRunAt("go")
      /\ IF validatePatch(patch) THEN Succeeds(IF hasPatch(patch) THEN "ok" ELSE "no_op", patch)
                                 ELSE Fails("rejected")
      /\ UNCHANGED <<adminVars, hookConnection, admin, adminRequests, invocations>>

connectHookProvider ==
  /\ HookRunAt("connect")
  /\ \/ ~staticProviderConnection(hookRun.provider) /\ Fails("rejected")
     \/ /\ staticProviderConnection(hookRun.provider)
        /\ hookRun' = [hookRun EXCEPT !.pc = "send"] /\ UNCHANGED hookEvents
  /\ UNCHANGED <<adminVars, hookConnection, admin, adminRequests, invocations>>

\* One attempt.  No answer and a 5xx are tried again while attempts are left; an endpoint
\* without a connection has one attempt.
attempts == IF hookRun.provider.reach = "endpoint" THEN 1 ELSE RetryMax + 1

invokeStatic ==
  /\ HookRunAt("send")
  /\ \/ /\ hookRun.sent + 1 < attempts
        /\ hookRun' = [hookRun EXCEPT !.sent = @ + 1] /\ UNCHANGED hookEvents
     \/ hookRun.sent + 1 = attempts /\ Fails("timeout")
     \/ Fails("failed")
     \/ \E patch \in HookPatches, status \in {"ok", "no_op"} :
          IF validatePatch(patch) THEN Succeeds(status, patch) ELSE Fails("rejected")
  /\ UNCHANGED <<adminVars, hookConnection, admin, adminRequests, invocations>>

\* When every binding has had its turn the result is recorded.
InvokeEnds ==
  /\ HookRunAt("next") /\ hookRun.todo = <<>>
  /\ SaveEvent(0, "ok")
  /\ hookRun' = [hookRun EXCEPT !.pc = "apply"]
  /\ UNCHANGED <<adminVars, hookConnection, admin, adminRequests, invocations>>

\* The patch, if a rejecting hook did not fail, is used by the run or shown to the client.
\* Apply drops the error: the run goes on with the patch there is.
Apply ==
  /\ HookRunAt("apply")
  /\ hookRun' = IdleHooks
  /\ UNCHANGED <<adminVars, hookConnection, admin, adminRequests, invocations, hookEvents>>

\* The runs' own moments are recorded as events.
Observe ==
  /\ HookRunAt("idle") /\ invocations < MaxInvocations
  /\ SaveEvent(0, "observed")
  /\ invocations' = invocations + 1
  /\ UNCHANGED <<adminVars, hookConnection, admin, adminRequests, hookRun>>

-----------------------------------------------------------------------------
handleRuntimeHookProviders(c) == \E row \in HookRows.providers : PutHookProvider(c, row)

handleRuntimeHookProviderResource(c) ==
  DeleteHookProvider(c) \/ CheckHookProviderHealth(c) \/ SyncHookCatalog(c)

handleRuntimeHookManifests(c) == \E row \in HookRows.manifests : PutManifest(c, row)

handleRuntimeHookManifestResource(c) ==
  \E h \in HookIds : DeleteManifest(c, h) \/ \E v \in HookVersions : ActivateManifestVersion(c, h, v)

handleAgentRuntimeHooks(c) ==
  \E b \in HookRows.bindings, a \in HookApprovals \cup {"none"} : PutBinding(c, b, a)

AdminStep(c) ==
  \/ UpsertHookProvider(c) \/ probeHookProviderHealth(c) \/ WriteHookProvider(c)
  \/ fetchProviderCatalog(c) \/ UpsertHookManifest(c)
  \/ runtimeHookBindingApprovalGate(c) \/ UpsertBinding(c)
  \/ SyncProvider(c) \/ SyncStoreProvider(c) \/ SyncManifest(c) \/ SyncBinding(c)
  \/ HookStoreFails(c)

HookRunStep ==
  \/ \E phase \in Phases : applyRuntimeHook(phase) \/ runtimeHookPreview(phase)
  \/ SkipBinding \/ invokeBinding \/ readHookProvider \/ patchFromConfig \/ connectHookProvider
  \/ invokeStatic \/ InvokeEnds \/ Apply \/ Observe

HookStep ==
  \/ \E c \in Admins :
       \/ handleRuntimeHookProviders(c) \/ handleRuntimeHookProviderResource(c)
       \/ handleRuntimeHookManifests(c) \/ handleRuntimeHookManifestResource(c)
       \/ handleAgentRuntimeHooks(c) \/ syncAgentPluginHookManifests(c) \/ AdminStep(c)
  \/ \E a \in HookApprovals, status \in {"approved", "rejected"} : ResolveApproval(a, status)
  \/ ConnectionChanges
  \/ HookRunStep

\* The history of the present invocation.
NoteEnabled ==
  seenEnabled' =
    IF hookRun'.pc = "idle" THEN NoneSeen
    ELSE [provider  |-> seenEnabled.provider \/ hookProvider'.status = "enabled",
          manifests |-> seenEnabled.manifests \cup {h \in HookIds : hookManifest'[h].status = "enabled"}]

HookNext == HookStep /\ NoteEnabled

HookSpec == HookInit /\ [][HookNext]_hookVars

-----------------------------------------------------------------------------
(* Properties.                                                             *)

\* One approval lets one binding through: the bindings stored through the gate are no
\* more than the approvals spent on them, whatever requests overlap, and a stored binding
\* that itself asks for approval was let through by one, unless the last to write it was
\* the sync of a plugin (syncAgentPluginHookManifests passes no gate).
ApprovedOncePerBinding ==
  \A k \in Keys :
    /\ gatedWrites[k] <= Cardinality({a \in HookApprovals :
         hookApproval[a].status = "used" /\ hookApproval[a].resource = k})
    /\ hookBinding[k].status # "absent" /\ AsksApproval(hookBinding[k]) =>
         bindingWriter[k] \in {"earlier", "approved", "sync"}

\* What a run applies at a phase passed validation, and comes only from hooks whose
\* provider, and for a static hook whose manifest, has been enabled at some time during the invocation: one
\* that was disabled before the phase began, and stays so, adds nothing to it.
OnlyEnabledHooksApply ==
  hookRun.pc = "apply" =>
    \A i \in DOMAIN hookRun.merged :
      LET b == hookRun.merged[i].hook
          p == hookRun.merged[i].patch
      IN  /\ p.ranked \cap ToolsDenied = {} /\ p.dropped \cap {"policy", "safety"} = {} /\ ~p.secret
          /\ Named(b) => seenEnabled.provider
          /\ b.kind = "static_hook_host" => b.hook \in seenEnabled.manifests

=============================================================================
