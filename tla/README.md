# TLA+ models of the Clean Core agent runtime

The repository (`src/`) is a Go server that runs AI agents: a request becomes a
task, a run of an agent works on it step by step (context, model call,
decision, tool calls), users and approvers steer the task meanwhile, and
everything is recorded in task events, traces and audit records. Around this
core, administrators and authors change what agents are made of: packages and
their releases, policies, tools and connections, hooks, skills, shared
knowledge. This project models the parts whose correctness depends on the order
in which concurrent goroutines, requests, processes and failures happen.

## 1. Inventory

| Component | State | Operations | Interacts with |
|---|---|---|---|
| Task state machine (`task/state`) | none | `Apply`, `IsTerminal` | used by the task runtime |
| Task runtime and stores (`task/runtime`, `task/repository`, `TaskStore` of `storage/postgres`) | task rows with a version, event log, audit log | `CreateTask`, `ApplyCommand`, `AppendEvent`, upgrade of the agent version | everybody who changes a task |
| Recovery checker (`task/recovery`) | none | `Check` | reads task and events |
| Coordinator (`runtime/kernel`), drivers, run repository | run row, tool calls and results, locals of its goroutine | prepare, execute, resume, loop, step, model decision, dispatch, tool calls | task runtime, tool runtime, hooks, plans, external delivery |
| Task commands (`server/commands_tasks.go`, `server.go`) | none of their own | `task.command`, `approve_action`, `upgrade_agent_version`, `task.start`, plan and handoff commands | task runtime, coordinator, plans, handoffs |
| Run admission (`runtime/admission`) | three counters | `AcquireRun`, release | `agent.run` in `server.go`, synchronous or in a goroutine |
| External tool calls (`commands_tool_artifacts.go`, `tool/invoke`, `tool/repository`) | calls and results by idempotency key | `tools.invoke` | approvals, tool runtime |
| Approvals (`governance/approval`) | approval requests | request, approve, reject, validate, consume | `tools.invoke`, releases, hook bindings, share policies |
| Tool runtime (`tool/runtime`, `policy/toolpolicy`) | none | `Invoke` | executors, credentials |
| Handoffs (`task/handoff`, `tool/handoff`, `tool/agenttool`, `agentdelegation`) | handoffs, child tasks, delegation records | delegate, create, accept, reject, run, complete, fail, cancel | task runtime, coordinator |
| Plans (`task/plan`) | plans and their steps | create, replan, start, complete, fail | coordinator, task commands |
| Packages and releases (`agentdef/package`, `server/commands_agent_package.go`) | releases, asset, evaluation results, registry | publish, evaluate, canary, stable, rollback, activate | approvals, loader, routing |
| Drafts, proposals, plugins (`agentdef/package`, `agentdef/plugin`) | drafts, proposals, projections, in memory and in rows | create, edit, validate, review, propose, approve, publish, plugin sync | releases, tool catalog, hooks |
| Agent resources (`agentdef/package`, `agentdef/loader`) | standalone prompt, binding, collaborator, export and skill rows | upsert, delete, activate, load | releases, loader |
| Policies (`policy/engine`, `server/commands_policy.go`) | drafts, versions, the policy in force | edit, validate, review, publish, evaluate, canary, stable, rollback, pin | approvals, coordinator |
| Tool catalog (`tool/catalog`, `tool/registry`) | providers, groups, manifests, operations in rows and memory; installed tools | upsert, status changes, sync, health check, publish, restore | service connections, tool runtime |
| Service connections (`serviceconnection`) | connection row, resources, rotations, health events | upsert, test, discover, rotate, disable, delete | tool catalog, hooks |
| Runtime hooks (`runtime/hook`) | provider, manifests with versions, bindings, events | upsert, activate, disable, sync, bind, apply | coordinator, approvals, connections |
| Governance processes (`governance/process`) | templates, runs, gates, reviews, conflicts | start, open, review, escalate, arbitrate | API |
| Permissions, knowledge, sharing (`permission`, `knowledge`, `crossgroup`, `skillupdate`, `agentfactory`) | policies, bases, documents, share policies, requests; memory beside rows | upsert, ingest, search, share, request | approvals, drafts |
| External delivery (`bridge/array`) | outbox, binding status | send, replay, retry, give up | coordinator, retry worker |
| Migrations (`storage/migration`, `cmd/clean-core-server/migration.go`) | schema and recorded versions | up, status, readiness report | operators |
| Conversations, intake, memory scopes; prompt and context assembly; model client; evaluation and replay; observability; wiring; read handlers; generated queries | see section 6 | | |

What is hard here: nothing is locked between two calls of a handler, so a row
can change between every read and write, and most writes compare nothing; an
approver's request drives the same run as the goroutine that asked for the
approval; several components keep a copy in the memory of each server beside
the rows; every store call can fail after its neighbour succeeded; clients
repeat requests; a run can outlive its request; a process can stop anywhere.

The properties that make the parts correct are listed with the modules below;
`PROJECT.json` lists the hazards with the properties that watch them.

## 2. Modules

| Module | Models |
|---|---|
| `TaskState` | the transition table, `Apply`, and the recovery checker's own list of event types |
| `TaskLifecycle` | what the task runtime promises: a task moves one row at a time (abstract) |
| `TaskRuntime` | the task runtime over its stores, with concurrent callers; implements `TaskLifecycle` |
| `TaskRuntimeProofs`, `CoordinatorProofs`, `PackageReleaseProofs` | proofs about the module of that name |
| `CommandProofs` | proofs about `ToolInvoke` and `PolicyRelease` |
| `CollaborationProofs` | proofs about `Plan`, `Handoff`, `GovernanceProcess` and `Sharing` |
| `ServingProofs` | proofs about `Admission` and `SchemaMigration` |
| `ConfigurationProofs` | proofs about `Hooks`, `ServiceConnection`, `ToolCatalog`, `AgentDraft` and `AgentResources` |
| `OrderFacts` | lemmas about least and greatest elements that several proofs use |
| `Coordinator` | the goroutines that drive the runs of one task, approvers, users |
| `Admission` | the limiter and the `agent.run` handler that uses it |
| `ToolInvoke` | `tools.invoke`, the tool repository and the approvals it uses |
| `Handoff` | delegation between agents: tool, service, commands, exported agent tools |
| `Plan` | the plans of one task, worked on by runs and commands |
| `PackageRelease` | versions of an agent from publication to rollback, with store, registry, approvals and routing |
| `AgentCompiler` | from a package source or a plugin manifest to a definition: pure operators |
| `AgentDraft` | drafts and proposals on several servers; runs `AgentCompiler` |
| `AgentResources` | standalone resources of an agent, skill transactions, the overlay loader |
| `PolicyRelease` | a tenant's policy from draft to rollback, and the pinning of runs |
| `ServiceConnection` | one service connection |
| `ToolCatalog` | the catalog, the registry and restore, on top of `ServiceConnection` |
| `Hooks` | hook providers, manifests, bindings and their application in a run |
| `GovernanceProcess` | a governance run, its gates, reviews and conflicts |
| `Sharing` | permissions, knowledge bases and searches across groups |
| `Delivery` | the outbox, its senders and the retry worker |
| `SchemaMigration` | migration up and the report on the live schema |
| `MC*` | TLC instances |

Operators named after a Go function model that function. An operator whose
comment starts with "Mutant:" is a deliberately wrong variant of the operator
that follows it; it is part of no specification and shows that a property
notices the mistake. Every module with failing store calls bounds them by a
constant; a request is a program counter with the locals its handler keeps, and
a step is one store call or one section under a lock.

Composition. `ToolCatalog` extends `ServiceConnection` and its requests run
beside the connection's; `AgentDraft` runs the operators of `AgentCompiler`;
`Coordinator` takes the task's transitions from `TaskState` as atomic commands,
which is what the refinement of `TaskLifecycle` by `TaskRuntime` entitles it to.
The MC modules `MCCommands`, `MCServing`, `MCCollaboration` and
`MCConfiguration` put components that share no state into one instance: a
variable `moving`, chosen at the start, says which of them moves, so their
states add up and do not multiply. Nothing is said there about a combination of
components, and nothing is lost, since none of them reads another's state.

### TaskRuntime

`tasks[t]` is the row (status and version; "absent" before it is created),
`events[t]` the set of events, `audits` the audit log, `client[c]` what a caller
holds between its steps, `clock` the next reading of the clock. `ApplyCommand`
is `Get` (read, `state.Apply`, stamp), then `Commit` or `Conflict` (the
transaction that compares the version), then `Audit`. `AppendEvent` is `Stamp`
and `Append`: no version is compared, and the stamp may be older than events
already stored. `Abandon` is every way a caller can stop half way. Both stores
list events by (created_at, event_id), so a set with distinct stamps stands for
the list. Assumption: two readings of the clock differ. The non-atomic fallback
of `ApplyCommand` (a store without transactions) is not modelled: both stores of
the repository are atomic.

### Coordinator

One task, a set of runs prepared for it and a set of approvers; each goroutine
is a program counter with the locals the code keeps (run, step, repair attempt,
remaining calls of the decision, the call invoked and its result). One step is
one store call, but for `ToolInvoke`: `SaveCall`, `GetResultByCall` and
`ToolRuntime.Invoke` are one step, because the row of a call does not change once
it is stored and no other goroutine sees that a tool is being executed; the
result is saved in a step of its own (`ToolSaveResult`, `ApprovedSaveResult`), so
another goroutine can look for it in between.
`Tasks.ApplyCommand` is atomic here; it may fail before or after its write.
`Mark` overwrites the run status unconditionally, as the code does. The model's
decision is a free choice; the content of context and prompt is not
represented. `MaxDuration`, cancelled requests, errors of hooks and of context
collection all end a step with an error and are the "fail" outcome. Whether a
failed tool call is let pass depends on counts that default to zero when they
cannot be read, so both answers are always possible. A decision may give a call
an idempotency key of its own (`SuppliedKeys`): `saved[k]` is the row first stored
under it, and a later call with the key, of whatever step and tool, goes on with
that row. Without one (`Ungiven`) the server derives a key from run, step, tool
and arguments, so that the row is the call itself; a resumed run has a new step
and so never finds an earlier step's result under a derived key. Keys that other
tasks of the tenant have used are not modelled. `results[r]` lists the saved
results, of which a later one replaces an earlier one of the same call;
`executed[r]`, the calls that reached the executor, is a history variable. Plan
steps are in `Plan`.

### Admission

`request[q].pc` is where the handler (or its goroutine) of a request is;
"background" is the goroutine of an asynchronous run. A deleted map entry reads
as zero, so the counters are total functions.

### ToolInvoke

A request names a tool and carries any key, as the client's `Idempotency-Key`
header does; the approval is validated for the tool the request names, and the
call stored first under the key is the one invoked. `GatedTools` are the tools
that need an approval. `Invoke` is the tool runtime by its outcomes. `seen` (the
result stored when the request arrived) and `executions` (which request had which
tool executed, the tool it named and the approval it used) are history variables.
`GatedNeedsApproval` therefore says that every execution of a gated tool has an
approval of its own, given for the tool its request named; that this is the tool
executed is not promised (section 4).

### Handoff

`task`, `handoff` and `delegation` are the rows, `worker[w]` a tool call or a
command in progress. The delegate tool walks the chain of parents and checks
collaborators, depth and policy before it creates anything, while other calls
do the same. `Chain(t)` is the least set with t that is closed under parents,
which is what the code's walk from parent to parent visits. `Create` writes child, handoff and event one after the other, in
one transaction when the repository is an `AtomicRepository` (`atomicStore`,
chosen at the start), and cancels the child when a later write fails. The run of
the child is started inside the call and waited for. Transitions write back the
row they read. `origin` (how a task came about) is a history variable.
`NoOrphanChild`, a part of `HandoffsAccounted`, holds for one failure: undoing
is best effort.

### Plan

Runs start and end steps around their tool calls; requests create a plan,
replan, and change steps. What an actor writes is what it has read with another
status. `done` is a history variable. Left out: the text of steps and revisions.

### PackageRelease

The versions of one agent of one tenant. `release`, `evalPass` and `asset` are
the service's maps, `stored`, `published` and `storedAsset` what the store
holds; the map is read and written first, a store call may fail, and a restart
empties the maps and fills the registry (`registered`, `default`) from the
store. Each handler is a program counter and the locals of its request; a step
is one lock section or one store call, so `markRelease` and `MarkEvalResult`
are one step when the release is in the map and two when it has to be read
(`ReadRelease`, "relocked"), and `stable`, `rollback` and `activate` are several.
`Check` is the approval's validation and the release policy, `Consume` the
second validation that marks it used. The window and the canary percent are
reduced to whether the policy asks for an approval. `Routed` is the route of a
run without an explicit version, before canary routing. `verdict`, `gate` and
`spent` are history variables: what the evaluations of a version have said, on
which verdicts versions became stable, how many commands an approval let pass.
Left out: the asset's status and carrier, the share of requests a canary gets.

### AgentCompiler and AgentDraft

`AgentCompiler` is the compiler by what it does to limits, lists of allowed and
denied tools, strategies, durations and hooks; `Second` and `DurationRange` keep
the overflow of a duration in seconds at a scale TLC can enumerate. `AgentDraft`
has one copy of drafts and proposals per server (`draftMem`, `proposalMem`)
behind a mutex, and the shared rows; memory is read first. A proposal's
publication publishes its draft, then re-reads, compiles and registers it.
`draftCatalog` is what the tools of a plugin change elsewhere; the hooks a plugin
sync goes on with are a request of `Hooks`, since no draft depends on them.
`approvedOnce` is a history variable.

### AgentResources

`resourceRow` and `skillRow` are the standalone rows beside a release. The
skill transactions run statement by statement under READ COMMITTED, with the
rows they wait for; an error ends one anywhere. `SkillVersionsKept` is about what
they delete and insert again. Of the loader the version and the skill are
modelled, which requests here depend on; the rest of its overlay and the views of
the API are not. `lastSkillWrite` and `skillsOverlapped` are history variables.

### PolicyRelease

`policyDraft`, `policyRow` and `inForce` are the three tables; a version row
belongs to a version name, and publishing again overwrites it. `Perform` is
canary, stable or rollback, each a read, a checked write, and for stable and
rollback a transaction and a separate `Put`. A run pins the version that is in
force when it starts. `passed` and `crossed` are history variables: what an
evaluation has passed, and the versions with the bodies that were published, or
written back by another rollback, where a command on the version reads them
without looking. An evaluation (`EvalRun`) and the read at its end that marks the
version (`MarkEvalResult`) are separate steps, and so are the two reads of a
canary or rollback command: the code goes by the first and writes the second. For
such a version and body `InForceWasEvaluated` makes an exception (section 4).

### ServiceConnection and ToolCatalog

A connection's `scope` stands for what discovered resources depend on, its `net`
for what else its health depends on. A test reads the row, probes and writes the
whole row back. The catalog is the rows (`stored`), the copy in memory, and the
registry of installed tools with the scope each executor has captured; a
request writes the rows, then memory under a lock, then applies the affected
tools one by one. The managed adapter an operation needs is written, to the rows
and then to memory, before the operation is validated, so a refused operation
leaves it behind. A stop loses memory and registry, `Boot` restores them.
`overlap`, `probed`, `tangled` and `usable` are history variables:
`ConnectionCurrent` and `DependentsHaveConnection` speak about requests that have
not overlapped, failing calls included; `RegistryAgrees` and `CallableEnabled`
about requests that have neither overlapped nor failed since the process last
started, so they hold again after every restart. The code promises no more: see
section 4. Draft entries are treated as disabled ones.

### Hooks

Provider, manifest, manifest version and binding rows are changed by
administrators while a run applies the bound hooks of a phase: it lists the
bindings, passes over those that are disabled or of another phase
(`SkipBinding`), then checks manifest, provider and connection of each, calls it
(retries included), validates the patch and applies it. A binding is stored by a
request that has passed the approval gate, or by the synchronisation of a plugin
(`syncAgentPluginHookManifests`: the provider, then each manifest and its
binding, any of which may fail), which passes no gate. `seenEnabled`,
`gatedWrites` (bindings stored after a gate that asked) and `bindingWriter` (who
stored the binding there is) are history variables. `ApprovedOncePerBinding` is
about the bindings requests store, while syncs overwrite them and are overwritten
(section 4). The summary of hook events is not modelled.

### GovernanceProcess

One run made from a template. The reviews of a gate are listed, a review saved,
the gate decided and the run's status refreshed in separate calls; escalation
opens a conflict, arbitration resolves it and decides the gate. Reviews are never
changed, so a list of them is the set of their places in the table. `wasTerminal`
is a history variable. A run found at the start has no gate decided.

### Sharing

Permission policies, bases and documents are kept in rows and in each server's
memory. A search checks the permission, lists share policies and reads bases and
documents in separate calls while policies change. `grants` (what a search was
granted since it was received) and `ingested` are history variables. Ranking,
snippets and result limits are left out.

### Delivery

A message is queued, sent and marked in three calls whose errors are ignored;
the worker and the replay command send what is due. The provider may receive a
message and its answer be lost. `received` is what the provider has got.

### SchemaMigration

`schema[v]` is the checksum of the file that created the objects of version v,
`recorded` the migration table. An up reads the records once, then executes and
records file by file; two operators may use different directories, of which
each only appends versions to what it shares with the others
(`docs/migrations.md:3`). The report
reads tables, indexes and records one after the other. A file is executed as a
whole and, since the files create tables without IF NOT EXISTS, refused the
second time. Left out: the file store that records versions where no database is
configured, and the reading of the files.

## 3. Runs

| Run | Instance | Shows |
|---|---|---|
| `commands` | 1 task, 2 callers, 7 clock readings; or 3 `tools.invoke` requests, 1 plain and 1 gated tool, 2 keys, 2 approvals; or 2 policy callers, 3 requests, 2 drafts, 2 versions, 1 run, 1 approval, 1 failing call | `RecoveryConsistent`, `NoLostUpdate`, `AuditsCommitted`, refinement `LifecycleSpec`; `GatedNeedsApproval`, `ReplayReturnsResult`; `InForceWasEvaluated` |
| `coordinator` | 1 run and 1 approver, up to 2 calls to a decision, which may give them a key; or three goroutines, 2 runs and 1 approver or 1 run and 2 approvers, with one call to a decision and no key given | `ExecutedOnce`, `CompletedTogether`, `OneRunAccepted`, `GatedNeedsApproval`, `StepLimit` |
| `serving` | 4 requests, 2 tenants, 2 agents, limits 3, 2, 1; or 1 message sent three times, a sender, the worker, 2 attempts, a replay, 1 fault; or 1 run, 1 approver, 2 steps, 1 call allowed; or 2 operators, 3 commands, 5 directories; fairness | `CountersExact`, `LimitsHold`, `RejectsOnlyWhenFull`, `SlotsReturned`; `DeliveriesSettle`; `ToolCallLimit`, `ThreadsEnd`; `MigrationsAccounted` |
| `package` | without a release policy one request at a time on 2 versions with 2 restarts; under one that asks for windows, canary and approval two at a time on one version with 1 approval and 1 restart; 1 failing store call | `ActiveRunnableAlone`, `RolledBackFinalAlone`, `OneCommandPerApproval`, `StableWasEvaluated` |
| `collaboration` | 2 agents, a root and 2 children, 2 goroutines, 1 failure; or 1 run, 1 client, 2 plans of 2 steps, 1 failure; or 2 governance callers, 4 requests; or 2 callers on 2 servers, 2 requests | `NoDelegationCycle`, `HandoffsAccounted`, `CompletedByRunOrCommand`; `PlanInOrder`; `DecidedOnRecord`; `SharedAsGranted`, `IngestedIsFound` |
| `configuration` | 2 catalog clients and the start, 2 requests, 1 failing call, 1 restart; or 2 hook administrators, 2 requests, 1 invocation; or 2 authors on 2 servers, 2 drafts of one version, 2 requests; or 2 resource callers, 2 requests | `ConnectionCurrent`, `CatalogConsistent`; `ApprovedOncePerBinding`, `OnlyEnabledHooksApply`; `ReleasedGovernable`, `PublishedWasApproved`; `SkillStaysActive`, the action property `SkillVersionsKept` |
| `coordinator_cancel`, `tool_invoke_inflight`, `package_eval`, `package_rollback`, `policy_pinning`, `migration_rerun` | one or two actors | `CancelStops`, `InFlightOnce`, `EvalGatesStable`, `ActiveRunnable`, `PinnedPolicyKept`, `RerunSafe` are violated (findings) |

Bounds. Two callers are what a conflict takes, and seven clock readings walk a
task to running and race three more commands. Two runs are enough for two
acceptances, two approvers enough for two goroutines on one run; the constraint
`SmallInstance` of `MCCoordinator` keeps these cases, with one call to a decision,
beside the one of one run and one approver with two calls, which is what a
repetition within a step and a call of another tool under one key take, and drops
the products; symmetry identifies runs and approvers (there is no liveness property
in that run). Two steps let the step limit be reached and passed, and one
allowed call with two steps the call limit. Four requests reach each of the
three admission limits with a request left to be turned away. Three tool requests
cover ask, approved call and its duplicate, or a retry, and two keys two calls of
one tool. Two attempts let a delivery
be retried and given up. Three migration commands cover an interrupted up, its
repetition and a report, or two ups with different files and a report. Two
versions are what a fallback takes, two agents and two children what a cycle of
delegations takes, two steps what an order takes, two reviewers what a consensus
takes. In the configuration run two requests are what an overlap takes; an
initial state is a table the earlier requests could have left, so that two more
are enough to reach the interesting cases.

`package` looks at `ActiveRunnable` for commands that do not overlap, whatever
fails and restarts, and `package_rollback` shows that overlapping commands break
it. One failing store call is a limit of the result as well: with two,
`ActiveRunnable` can be lost, when the store refuses the status "stable" that the
map already has and the listing of releases then fails too, so that `activate`
goes by the map. Deadlock is not checked: tasks end, handlers return and the
numbers of requests are bounded.

Fairness. `serving` assumes weak fairness of each handler's and goroutine's next
step: the Go scheduler runs what is runnable, and every call returns because it
has a timeout or a cancelled context. That the run a handler waits for ends is
what `ThreadsEnd` shows. `DeliveriesSettle` assumes besides that the worker's
ticker goes on and that time passes; a provider that never answers well is
covered, since a delivery then ends as a dead letter.

Findings. (1) The loop's termination conditions in the implementation
specification (`docs/原智能体CleanCore工程实施规格文档_v1.0.md:2102`) include
"Task cancelled"; `loop` and `step` do not look at the task's status, so another
step is started for a cancelled task. (2) The same document (line 1973) wants a
duplicate of a tool call in execution to be answered with pending or conflict;
`invoke.Service.Invoke` executes it again. (3) The delivery plan
(`docs/原智能体CleanCore开发任务拆解与交付计划_v1.2-alpha.md:1026`) lets a failed
evaluation block the stable release; `MarkStable` accepts the stored status
"evaluated", which a later failed evaluation does not take back. (4) The same
document (line 1052) sends new runs to another version after a rollback; a
rollback that overlaps the stable command of the same version is followed by
that command making it active, and new runs are refused. Two overlapping
rollbacks have the same end: the second one's compensation makes the version
active again that the first has rolled back. (5) The regression matrix
(`docs/e2e_regression_matrix.md:27`) keeps an old run on its pinned policy;
publishing a draft of the same version name rewrites the row the run is pinned
to. (6) The migration guide (`docs/migrations.md:8`) says that running up again
is safe; an up that ends between executing a file and recording it makes every
later up fail on tables that exist.

## 4. What the properties do not promise

Met while modelling; the properties are stated so that they are true beside
these, and no document promises otherwise unless one is named.

- Tool calls in a run. `ExecutedOnce` is about calls whose key the server derived.
  Two goroutines that approvals have set to work on one run, at different steps,
  can be given the same key by their decisions (`coordinator.go:2052`); both find
  no result under it and both execute the call (line 2097). It is finding 2 inside
  a run.
- `tools.invoke` validates the approval for the tool the request names and invokes
  the call stored under the request's key (`tool/invoke/service.go:101`), which may
  be another tool's: `GatedNeedsApproval` counts the approval for the named tool.
  The gap analysis
  (`docs/原智能体CleanCore可上线内核七项缺口逐项分析_v0.1.md:236`) wants it to fit the
  resource.
- Runs. The `Mark*` writes of the run row compare nothing, so a late goroutine
  overwrites a terminal status. An asynchronous run lives in its goroutine only:
  after a restart its row stays running.
- Approvals are spent before the command they are for: a release, a hook
  binding, a policy or a share that then fails costs its approval.
- Plans. Replan supersedes the old plan before the new one exists, `create_plan`
  does not look for an active plan, and the end of a step overwrites
  "superseded".
- Governance. `refreshRunStatus` makes a blocked run completed although a gate
  was rejected; two reviews that miss each other can leave a gate open; a stale
  `OpenGate` reopens a decided gate; one reviewer can be counted twice.
- Hooks. A health check writes back the status it read; a sync enables disabled
  manifests again; the sync of a plugin stores bindings that ask for approval
  without one, and overwrites approved ones (`commands_agent_package.go:558`;
  `docs/Origin_Agent_Platform_P3_MMR_全景开发计划_v1.1.md:193` forbids plugins to get
  around approval), so `ApprovedOncePerBinding` leaves the bindings it was the last
  to write out; `Apply` drops the error of a "reject" (`hook/service.go:359`;
  `docs/Agent开发者插件生命周期与接口指南_v0.1.md:960` lets it interrupt the run); a hook disabled between check and call is applied; a
  static provider whose connection is unusable cannot be deleted.
- Catalog and connections. Health checks and connection tests write back the row
  they read, which undoes a disable or a rotation in between; a reference added
  while its connection is deleted is left without it; overlapping writes can
  install and remove a tool in the wrong order until the next start; an installed
  executor keeps the address it was made with until it is applied again; a POST
  is retried.
- Drafts. A draft edited after its review is published as edited; the registered
  definition is compiled again after publication and can differ from the
  release; two drafts of one version published on two servers overwrite each
  other. A plugin manifest with hooks gives a draft that validation refuses
  (`runtimeHooksForManifest` sets a mode `validateRuntimeHooks` does not know).
- Resources. Two concurrent upserts or activations leave two stable skill rows;
  an activated version is not seen by another replica's registry; `Ensure`
  revives a deleted asset.
- Policies. What is published between an evaluation and its mark, or between the
  two reads of a canary or rollback, gets into force without an evaluation
  (`engine.go:372`; the design document
  `docs/原智能体CleanCore全景开发设计文档_v1.2_Clean.md:241` wants every change
  evaluated): the exception of `InForceWasEvaluated`. Rolling back the stable version does not restore the previous one in
  postgres, where it has become "deprecated"; a rollback can promote an evaluated
  version without approval; two drafts get the same version name.
- Sharing. A remembered permission policy is replaced in memory only; tools take
  roles from the arguments of the call; changing a share policy asks for no
  approval.
- Delivery. A stop after the delivered mark, or a dead letter, leaves the binding
  failed and reads denied until the next send or bind; a failed enqueue sends a
  message without a row; sending a key again resets its row but not its attempts.
- Migrations. `MarkApplied` overwrites a record
  (`docs/上线应用标准稳定性性能扩展性代码与真实测试审计_20260605_v0.4.md:57` says
  it does nothing on conflict); only the refused second execution keeps records
  from being overwritten.

## 5. Proofs

Every theorem is about the specification the runs check and holds for every
value of the constants that satisfies the assumptions of the module. Each rests
on an inductive invariant: the property by itself says too little about what a
handler or goroutine that is between two calls will write.

| Theorem | States | Module |
|---|---|---|
| `TypeCorrect`, `RecoveryAlwaysConsistent`, `NoUpdateLost`, `AuditNeverAhead`, `ImplementsLifecycle` | `TypeOK`, `RecoveryConsistent`, `NoLostUpdate`, `AuditsCommitted`, `LifecycleSpec` | `TaskRuntimeProofs` |
| `CoordinatorTypeCorrect`, `StepLimitKept`, `OneRunAcceptedHolds`, `CompletedTogetherHolds`, `ExecutedOnceHolds`, `GatedNeedsApprovalHolds`, `ToolCallLimitHolds` | `CoordinatorTypeOK`, `StepLimit`, `OneRunAccepted`, `CompletedTogether`, `ExecutedOnce`, `GatedNeedsApproval`, `ToolCallLimit` | `CoordinatorProofs` |
| `InvokeTypeCorrect`, `InvokeGatedNeedsApproval`, `InvokeReplayReturnsResult` | `InvokeTypeOK`, `GatedNeedsApproval`, `ReplayReturnsResult` of `ToolInvoke` | `CommandProofs` |
| `PolicyInForceWasEvaluated` | `InForceWasEvaluated` | `CommandProofs` |
| `PlanTypeCorrect`, `PlanOrderKept` | `PlanTypeOK`, `PlanInOrder` | `CollaborationProofs` |
| `HandoffTypeCorrect`, `NoDelegationCycleHolds`, `HandoffsAccountedHolds`, `CompletedByRunOrCommandHolds` | `HandoffTypeOK`, `NoDelegationCycle`, `HandoffsAccounted`, the action property `CompletedByRunOrCommand` | `CollaborationProofs` |
| `DecidedOnRecordHolds` | `DecidedOnRecord` | `CollaborationProofs` |
| `IngestedIsFoundHolds`, `SharedAsGrantedHolds` | `IngestedIsFound`, `SharedAsGranted` | `CollaborationProofs` |
| `ReleaseTypeCorrect`, `OneCommandPerApprovalHolds`, `StableWasEvaluatedHolds` | `TypeOK`, `OneCommandPerApproval`, `StableWasEvaluated` | `PackageReleaseProofs` |
| `CountersAlwaysExact`, `LimitsAlwaysHold`, `NeverRejectsEarly` | `CountersExact`, `LimitsHold`, the action property `RejectsOnlyWhenFull` | `ServingProofs` |
| `MigrationsAccountedHolds` | `MigrationsAccounted` | `ServingProofs` |
| `ApprovedOncePerBindingHolds`, `OnlyEnabledHooksApplyHolds` | `ApprovedOncePerBinding`, `OnlyEnabledHooksApply` | `ConfigurationProofs` |
| `ConnectionCurrentHolds`, `CatalogConsistentHolds` | `ConnectionCurrent`, `CatalogConsistent` | `ConfigurationProofs` |
| `PublishedWasApprovedHolds`, `ReleasedGovernableHolds` | `PublishedWasApproved`, `ReleasedGovernable` | `ConfigurationProofs` |
| `SkillStaysActiveHolds`, `SkillVersionsKeptHolds` | `SkillStaysActive`, the action property `SkillVersionsKept` | `ConfigurationProofs` |

The arguments:

- `TaskRuntime`, invariant `IInv`, assuming `MaxClock \in Nat`. A caller whose
  version is still current read the current status, and its stamp is later than
  every status event, so a commit appends the last event (`CurrentHolder`);
  stamps lie in the past and those of status events are unique; the latest status
  event tells the stored status; a caller about to write an audit record has its
  event in the log. Without `CurrentHolder` a commit could write a status that
  does not follow from the log. `TableEventsRoundTrip` shows that the transition
  table and the checker's separate list agree on every row.
- `Coordinator`, invariant `CInv`, for any sets of runs, approvers and tools,
  finite or not. Step numbers are given out by `IncrementStep` alone and are not
  beyond the run's count (`StepsCounted`), so two goroutines on one run have
  different ones. A run counts as started by its status, by its event or by a
  goroutine that drives it, and there is at most one because no command leads a
  task back to created (`OneStarted`, `ApplyFacts`). An executed call whose key was
  derived has its result saved, or no goroutine is in its step but the one about to
  save it (`PlainExecuted`): this is what makes `ExecutedOnce` inductive, since a
  repetition under a derived key needs the same step. A row found under a supplied
  key is of a call that gave it (`SavedGiven`), so it is never taken for one of
  these.
  An approval is in an approver's hands or spent on at most one execution
  (`ApprovalsCover`), and a call is counted before it is made (`CallsCounted`).
- `ToolInvoke`, invariant `InvokeInv`, for any requests, tools, keys and approvals,
  assuming that "no tool" and "no approval" name none. An approval marked used is
  held by one request, which named its tool (`HeldOnce`), or was spent on one
  execution (`SpentOnce`), never both, whichever call is stored under the key; what
  a request has seen stays stored (`SeenOK`).
- `PolicyRelease`, invariant `PolicyInv`. A row that is canary or stable, and a
  row a handler is about to write as such, has passed or is `crossed`
  (`RowsCleared`, `HandlerOK`). An evaluation vouches for the body its version had
  when it ran, not for the one its mark writes back, unless they are the same
  (`Vouched`). It assumes that the tables of the initial state
  are sound in the same way (`SoundTables`).
- `Plan`, invariant `PInv`. What an actor has checked may not hold when it writes,
  but `done` only grows, so the invariant is about the history of the earlier
  steps, also for the step an actor is about to write.
- `Handoff`, invariant `HandoffInv`, assuming that there are finitely many task
  ids. The chain above an existing task never changes, because tasks keep their
  agent and parent, so the check made before a creation still holds at it; the
  depth is the cardinality of the chain. `WorkerOK` is what a call may rely on
  between two of its writes, `CreatedOnce` that a child being created is no other
  call's, `RecordsOpen` who closes a delegation record.
- `GovernanceProcess`, invariant `GovInv`, for any callers, gates, reviews and
  conflicts. A request decides on a gate and on reviews it read earlier: what a
  gate asks for is fixed with its run, reviews are only added, conflicts keep
  their gate (`GovGrows`), so what it read still covers what it writes
  (`CallerOK`). `ConsensusPasses` shows for every gate and list that a consensus
  that passes has the reviews and approvals the gate asks for. A status
  "completed" that waits to be written was computed when every gate was decided.
- `PackageRelease`, invariant `RelInv`. An approval that can still be used has let
  nothing pass, and what an evaluation leaves in the map or the store was passed
  by it, so a restart, which forgets the map, loses nothing `MarkStable` needs.
- `Admission`, invariant `IInv`: types, exact counters, counters within limits. It
  assumes finitely many requests and limits that are natural numbers.
- `SchemaMigration`, invariant `MigrationInv`. The files an operator has looked at
  are executed as its directory has them, and the records it has read are still
  there. It assumes that directories only append: with a directory that lacks an
  earlier version of another one, two operators can build a schema no directory
  describes.
- `Hooks`, invariant `HookInv`, for any administrators, phases and versions,
  assuming finitely many hook and approval ids and initial tables that earlier
  requests can have left (`SoundHooks`). The gate spends an approval in one call
  and the binding is stored in a later one, so the approvals used cover the
  bindings stored together with those about to be stored (`ApprovalsCover`), and
  a binding that got past the gate without an approval asks for none itself
  (`AdminOK`; a manifest may have begun to ask for one meanwhile, which the code
  does not notice). The sync of a plugin writes bindings without touching either
  side of that count, and `bindingWriter` tells its bindings from the others. A run holds, after each check it made, that what it found
  enabled was seen enabled since the invocation began (`HookRunOK`).
- `ServiceConnection` under the catalog (`CatalogSpec`), invariant
  `ConnectionInv`, for any clients, rows, failing calls and restarts, assuming
  that a row found at the start has health unknown. The property is about requests
  that have not overlapped, and so is the invariant: at most one request is about
  the connection (`OneRequest`), and the row it read before its probe or its second
  read still fits the stored one (`RequestFits`), so a row whose health is kept has
  the scope and network settings that were probed, and resources are cleared in the
  same write as their scope changes. A stop may leave a request at any of its steps.
- `ToolCatalog`, invariant `CatalogInv`, for any clients, tools, catalogs, failing
  calls and restarts, assuming that tools are not named as the other rows are and
  that an operation found at the start has its adapter. While requests do not
  overlap, memory is the database but for the one write in progress (`OneByOne`).
  While none has failed either, a tool that no request has yet to apply is
  installed as memory says (`RegistryFollows`), because the list a request works
  through and the decision it has taken on the tool in hand are of this moment
  (`QueueFits`). Nobody deletes a connection while someone who needs it is on the
  way to the database (`DependentsFit`).
- `AgentDraft`, invariant `DraftInv`, for any servers, requests, drafts and edits,
  assuming that sources, edits and drafts found at the start list their denied
  tools and strategies. A request looks at the proposal's status once and then
  releases the draft without looking again, so the invariant says that an approval
  was written, in what the request carries as well as in rows and memories
  (`ApprovalSeen`, `ProposalsOK`). A released definition is the compilation of the
  source in its own row, and compiled (`ReleasesOK`), however the draft was edited
  between validation and release. `OpFits` excludes combinations of step and
  operation that no request reaches.
- `AgentResources`, invariant `ResourceInv`, for any servers, requests and
  versions, assuming that at most one version is active at the start. A transaction
  that gets to its commit has its own version active among its writes, whatever
  the others have done (`TransactionFits`), so the skill never loses its last
  active version. While no two of them overlap, a statement has found every row it
  is about and nothing changes under it (`UndisturbedFits`), so there is only one.
  `SkillVersionsKept` rests on `TransactionFits` as well: the only row a transaction
  ever deletes is the one it is about to insert, and it does not get to its commit
  without having inserted it.
- `Sharing`, invariant `SharingInv`, for any servers, requests, policies and
  documents, assuming that a search in another group names that group. Before a
  search reads the share policies its history has every permission and policy in
  force (`CrossFits`), and after that the policies it keeps (`SearchFits`): what is
  withdrawn or added later changes neither. Copies of a base in rows, memories,
  requests and snapshots may differ in everything but the owner (`OneOwner`), which
  is what visibility depends on between the two reads of a snapshot. A document's
  name is one request's until its row is written (`OwnNames`), so no row of a
  document is overwritten. `AllowedIsExplicit` shows that the first policy that
  matches exists and is one that allows.

What the attempts showed about the model. `InForceWasEvaluated` was false beyond
the bounds of its run: a rollback that writes its row late, between the two reads
of another command, has the effect of a second publication (TLC finds it with six
requests). `crossed` now records this case, and section 2 says so. Choices whose
order matters in the code (the switch statements of handoff requests, release
actions, drafts and overlays) are chains of IF: as a CASE with overlapping guards
they would leave the choice open, which TLC resolves in order and the proofs
do not. `upsertSkillDefinition` replaces the first entry with the skill's id, as
the code does, and no longer every one.

Model-checked only:

- liveness (`ThreadsEnd`, `SlotsReturned`, `DeliveriesSettle`), which needs
  fairness and is outside the prover's reach;
- `ActiveRunnableAlone` and `RolledBackFinalAlone` of `package`: they hold for
  requests that do not overlap and at most one failing call, which only the
  instance says.

The type invariants are proved where they are listed above; elsewhere the types a
proof needs are part of its inductive invariant.

## 6. Not modelled

- Conversations and intake: the chat handlers upsert a conversation, its members
  and its messages with single unlocked calls (a message sent while the
  conversation is archived writes the old status back; a repeated message id is
  stored once but answered by another run), and no document promises more than
  the single calls give; a message starts a run, which `Coordinator` models.
  Intake policies are kept in memory behind one lock. Memory scopes have no
  caller outside their tests.
- Prompt, work view and context assembly, decision parsing: text processing
  without state; the coordinator takes every decision they can produce.
- Model client and HTTP transports: network I/O, modelled by the answers they
  can give where they are called.
- Evaluation and replay: reports over recorded runs; a verdict is a choice in
  `PackageRelease` and `PolicyRelease`.
- Observability: traces, metrics and audit records no decision reads (the audit
  log of the task runtime is modelled).
- Process wiring, configuration, read handlers, generated queries: no state that
  changes after the start, or queries only.
- Inside modelled components: in `PackageRelease`, the PATCH of an agent asset
  (`service.go:423-428`), which can make any version active, whatever its release
  (`AgentResources` models patching and deleting the asset), and the canary's share
  of requests; the views of an agent's resources and the summary of hook events,
  which are queries; the governance view of the catalog and what an
  executor does; evaluation of a policy, which is a function of the policy whose
  outcomes are choices elsewhere; driver registry and conformance; the tool
  runtime's checks, which are reasons to refuse; the migration file store.
