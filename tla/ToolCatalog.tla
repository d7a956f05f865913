----------------------------- MODULE ToolCatalog -----------------------------
(***************************************************************************)
(* The tool catalog of a tenant (internal/tool/catalog/catalog.go), its     *)
(* postgres store, the registry of installed tools                          *)
(* (internal/tool/registry/registry.go), the handlers of the API, and the   *)
(* service connection the catalog's tools use (ServiceConnection).          *)
(*                                                                          *)
(* The catalog is kept twice, in the database and in memory.  A request     *)
(* writes the database, then memory, then installs or removes the tools it  *)
(* affects, one by one; only the writes to memory are under a lock.  On     *)
(* start the catalog is restored from the database.                         *)
(*                                                                          *)
(* There is one provider of each kind: a tool host or MCP server, whose     *)
(* tools it lists itself, and the managed adapter, whose tools are          *)
(* published operations.                                                    *)
(***************************************************************************)
EXTENDS ServiceConnection

CONSTANTS
  HostTools,        \* tools of the tool host
  AdapterTool,      \* the tool of the adapter's operation
  OperationNeedsResource, \* the operation is a database query on a discovered resource
  InitialCatalogs,  \* contents of the database when the process starts
  Boot,             \* the start of the process, among the clients
  MaxStops          \* stops of the process (bound, model checking only)

Tools == HostTools \cup {AdapterTool}

\* Rows of the catalog, "absent" where there is none.  Draft is treated as disabled is.
CatalogStatuses == {"enabled", "disabled"}
RowStatuses     == CatalogStatuses \cup {"absent"}
ProviderRows    == [status : RowStatuses, health : {"unknown", "healthy", "unhealthy"}]
Catalogs        == [host : ProviderRows, adapter : ProviderRows, operation : RowStatuses, group : RowStatuses,
                    tool : [Tools -> RowStatuses]]

ASSUME CatalogAssumption ==
  /\ AdapterTool \notin HostTools /\ OperationNeedsResource \in BOOLEAN
  /\ Boot \in Clients /\ MaxStops \in Nat
  /\ Tools \cap {"host", "adapter", "operation", "group"} = {}
  /\ InitialCatalogs \subseteq Catalogs
  /\ \A cat \in InitialCatalogs : cat.operation # "absent" => cat.adapter.status # "absent"

VARIABLES
  up,        \* the process runs
  stored,    \* the catalog in the database
  memory,    \* the catalog in memory
  registry,  \* registry[t]: the scope the installed executor has captured, 0 = not installed
  cache,     \* cache[t]: the tool_runtime_cache row
  stops,
  tangled,   \* history: since the process started, requests have overlapped or failed
  usable     \* history: usable[t]: the connection was usable when t was last applied

catalogVars == <<up, stored, memory, registry, cache, stops, tangled, usable>>

NoProvider == [status |-> "absent", health |-> "unknown"]
Empty == [host |-> NoProvider, adapter |-> NoProvider, operation |-> "absent", group |-> "absent",
          tool |-> [t \in Tools |-> "absent"]]

CatalogInit ==
  /\ ConnectionInit
  /\ up = FALSE
  /\ stored \in InitialCatalogs
  /\ stored.host.status # "absent" \/ stored.operation # "absent" => GetConnection
  /\ memory   = Empty
  /\ registry = [t \in Tools |-> 0]
  /\ cache    = [t \in Tools |-> "absent"]
  /\ stops    = 0
  /\ tangled  = FALSE
  /\ usable   = [t \in Tools |-> FALSE]

-----------------------------------------------------------------------------
(* When a tool may be installed and called.                                *)

providerConnectionRef == GetConnection
providerConnection    == GetConnection /\ connection.status = "enabled"

validateDatabaseOperationResource(required) == OperationNeedsResource /\ required => resources # 0

validateAdapterOperation(status, requireEnabled) ==
  /\ IF requireEnabled THEN providerConnection ELSE providerConnectionRef
  /\ validateDatabaseOperationResource(requireEnabled \/ status = "enabled")

ConnectionAllows(t) ==
  IF t \in HostTools THEN providerConnection ELSE validateAdapterOperation("enabled", TRUE)

groupAllowsInstall(cat) == cat.group \in {"absent", "enabled"}

\* The part of providerAllowsInstall that is about the catalog itself.
providerAllows(cat, t) ==
  IF t \in HostTools THEN cat.host.status = "enabled" /\ cat.host.health # "unhealthy"
                     ELSE cat.adapter.status = "enabled" /\ cat.operation = "enabled"

providerAllowsInstall(t) == providerAllows(memory, t) /\ ConnectionAllows(t)

\* The status is the one the manifest had when the list of manifests was made.
manifestAllowsInstall(t, status) ==
  status = "enabled" /\ groupAllowsInstall(memory) /\ providerAllowsInstall(t)

\* Mutant: the connection was looked at when the tool was installed.
AvailabilityOfCatalog(t) ==
  memory.tool[t] # "absent" =>
    memory.tool[t] = "enabled" /\ groupAllowsInstall(memory) /\ providerAllows(memory, t)

\* Asked before every call; a tool without a manifest is not the catalog's.
CheckToolAvailability(t) ==
  memory.tool[t] # "absent" => manifestAllowsInstall(t, memory.tool[t])

\* Providers, operations and tools that refer to the connection.
ServiceConnectionImpact ==
  \/ memory.host.status # "absent" \/ memory.operation # "absent"

-----------------------------------------------------------------------------
(* Writing the catalog: what is written is <<field, value>>.                *)

UpsertProviderRow(cat, kind, value) == [cat EXCEPT ![kind] = value]
UpsertOperationRow(cat, value)      == [cat EXCEPT !.operation = value]
UpsertGroupRow(cat, value)          == [cat EXCEPT !.group = value]
UpsertManifestRow(cat, t, value)    == [cat EXCEPT !.tool[t] = value]

With(cat, w) ==
  CASE w[1] \in {"host", "adapter"} -> UpsertProviderRow(cat, w[1], w[2])
    [] w[1] = "operation"           -> UpsertOperationRow(cat, w[2])
    [] w[1] = "group"               -> UpsertGroupRow(cat, w[2])
    [] OTHER                        -> UpsertManifestRow(cat, w[1], w[2])

\* The tools a write is about.
storeProviderLocked(kind) == IF kind = "host" THEN HostTools ELSE {AdapterTool}
storeOperationLocked      == {AdapterTool}
storeGroupLocked          == Tools

Affected(w) ==
  CASE w[1] \in {"host", "adapter"} -> storeProviderLocked(w[1])
    [] w[1] = "operation"           -> storeOperationLocked
    [] w[1] = "group"               -> storeGroupLocked
    [] OTHER                        -> {w[1]}

\* The list of manifests to apply, each with its status of this moment.
Manifests(cat, ts) == {<<t, cat.tool[t]>> : t \in {u \in ts : cat.tool[u] # "absent"}}

Serving == up /\ ReqAt(Boot, "idle")
CatalogOK == UNCHANGED <<connFailures, tangled>>
CatalogFails == Breaks /\ tangled' = TRUE
ConnectionSame == UNCHANGED <<connection, resources, rotations, healthEvents, probed>>

\* A request ends, or goes on to the next manifest it has to write.
Next1(c, todo) ==
  IF todo = {} THEN Answer(c)
  ELSE \E t \in todo :
         Continue(c, [pc |-> "save", w |-> <<t, "enabled">>, todo |-> todo \ {t}])

\* First the database ...
Save(c) ==
  /\ ReqAt(c, "save")
  /\ \/ stored' = With(stored, request[c].w) /\ CatalogOK
        /\ Continue(c, [request[c] EXCEPT !.pc = "memory"])
     \/ UNCHANGED stored /\ CatalogFails /\ Answer(c)
  /\ UNCHANGED <<up, memory, registry, cache, stops, usable, requests, overlap>> /\ ConnectionSame

\* ... then memory, and the list of the manifests to apply.
Store(c) ==
  /\ ReqAt(c, "memory")
  /\ memory' = With(memory, request[c].w)
  /\ Continue(c, [pc |-> "apply", todo |-> request[c].todo,
                  queue |-> Manifests(memory', Affected(request[c].w))])
  /\ UNCHANGED <<up, stored, registry, cache, stops, usable, requests, overlap, connFailures, tangled>>
  /\ ConnectionSame

\* applyManifests, one manifest: is it to be installed?
Decide(c) ==
  /\ ReqAt(c, "apply")
  /\ IF request[c].queue = {} THEN Next1(c, request[c].todo) /\ UNCHANGED usable
     ELSE \E q \in request[c].queue :
            /\ usable' = [usable EXCEPT ![q[1]] = ConnectionAllows(q[1])]
            /\ Continue(c, [pc |-> "install", todo |-> request[c].todo, t |-> q[1],
                            queue |-> request[c].queue \ {q},
                            install |-> manifestAllowsInstall(q[1], q[2])])
  /\ UNCHANGED <<up, stored, memory, registry, cache, stops, requests, overlap, connFailures, tangled>>
  /\ ConnectionSame

\* What executorFor checks again before it captures the connection.
executorFor(t) == providerAllowsInstall(t)

\* applyManifests, one manifest: the registry, then the runtime cache.  An error ends
\* the request; the rest of the list is not applied, and a process that starts does not.
applyManifests(c) ==
  LET t == request[c].t
  IN  /\ ReqAt(c, "install")
      /\ IF request[c].install /\ ~executorFor(t)
           THEN /\ UNCHANGED <<registry, cache, connFailures>>
                /\ tangled' = TRUE /\ up' = (c # Boot) /\ Answer(c)
           ELSE /\ registry' = [registry EXCEPT ![t] = IF request[c].install THEN connection.scope
                                                                             ELSE 0]
                /\ \/ /\ cache' = [cache EXCEPT ![t] = IF request[c].install THEN "enabled"
                                                                            ELSE "disabled"]
                      /\ CatalogOK /\ UNCHANGED up
                      /\ Continue(c, [pc |-> "apply", todo |-> request[c].todo,
                                      queue |-> request[c].queue])
                   \/ UNCHANGED cache /\ CatalogFails /\ up' = (c # Boot) /\ Answer(c)
      /\ UNCHANGED <<stored, memory, stops, usable, requests, overlap>> /\ ConnectionSame

-----------------------------------------------------------------------------
(* Requests.                                                               *)

BeginCatalog(c, r) ==
  /\ Serving /\ c # Boot
  /\ Begin(c, r)
  /\ tangled' = (tangled \/ \E d \in Clients : ~ReqAt(d, "idle"))
  /\ UNCHANGED <<up, stored, memory, registry, cache, stops, usable, connFailures>> /\ ConnectionSame

Write(c, field, value) ==
  BeginCatalog(c, [pc |-> "save", w |-> <<field, value>>, todo |-> {}])

\* Health is kept while type and connection of the provider stay.
normalizeProviderForUpsert(status, same) ==
  [status |-> status, health |-> IF same THEN memory.host.health ELSE "unknown"]

\* POST, PUT, PATCH and DELETE, which disables.
UpsertProvider(c, status, same) ==
  /\ providerConnectionRef
  /\ Write(c, "host", normalizeProviderForUpsert(status, same))

UpsertGroup(c, status) == Write(c, "group", status)

\* manifestWithConnectionProfile reads the connection of the provider, if there is one.
UpsertManifest(c, t, status) ==
  /\ t \in HostTools
  /\ memory.host.status # "absent" => providerConnectionRef
  /\ Write(c, t, status)

\* The adapter's own provider is created when it is first needed, and not by a request
\* of its own; then the operation is validated.
UpsertAdapterOperation(c, status) ==
  /\ memory.adapter.status # "disabled"
  /\ BeginCatalog(c, [pc |-> IF memory.adapter.status = "absent" THEN "ensure" ELSE "operation", status |-> status])

\* The operation is written for a resource that has been discovered.
findConnectionResource == GetConnection /\ resources # 0
UpsertAdapterOperationFromResource(c, status) ==
  findConnectionResource /\ UpsertAdapterOperation(c, status)

\* The row of the adapter, first in the database, then in memory.  No manifest is applied.
ManagedAdapter == <<"adapter", [status |-> "enabled", health |-> "healthy"]>>

SaveManagedAdapter(c) ==
  /\ ReqAt(c, "ensure")
  /\ \/ stored' = With(stored, ManagedAdapter) /\ CatalogOK
        /\ Continue(c, [pc |-> "ensured", status |-> request[c].status])
     \/ UNCHANGED stored /\ CatalogFails /\ Answer(c)
  /\ UNCHANGED <<up, memory, registry, cache, stops, usable, requests, overlap>> /\ ConnectionSame

StoreManagedAdapter(c) ==
  /\ ReqAt(c, "ensured")
  /\ memory' = With(memory, ManagedAdapter)
  /\ Continue(c, [pc |-> "operation", status |-> request[c].status])
  /\ UNCHANGED <<up, stored, registry, cache, stops, usable, requests, overlap, connFailures, tangled>>
  /\ ConnectionSame

ensureManagedAdapterProvider(c) == SaveManagedAdapter(c) \/ StoreManagedAdapter(c)

\* An operation that is not valid ends the request: the adapter's row stays.
OperationValidated(c) ==
  /\ ReqAt(c, "operation")
  /\ IF validateAdapterOperation(request[c].status, FALSE)
     THEN Continue(c, [pc |-> "save", w |-> <<"operation", request[c].status>>, todo |-> {}]) ELSE Answer(c)
  /\ UNCHANGED <<up, stored, memory, registry, cache, stops, usable, requests, overlap, connFailures, tangled>>
  /\ ConnectionSame

\* Publishing writes the manifest of an enabled operation.
PublishAdapterOperation(c) ==
  /\ memory.operation = "enabled"
  /\ validateAdapterOperation(memory.operation, TRUE)
  /\ Write(c, AdapterTool, "enabled")

\* The lists a tool host or an MCP server can answer with; a host must list something.
fetchCatalog    == (SUBSET HostTools) \ {{}}
fetchMCPCatalog == SUBSET HostTools

\* The tools the host lists are written one after the other; tools it no longer lists stay.
SyncProviderCatalog(c, ts) ==
  /\ memory.host.status = "enabled" /\ memory.host.health # "unhealthy"
  /\ providerConnection
  /\ BeginCatalog(c, [pc |-> "apply", todo |-> ts, queue |-> {}])

SyncManagedAdapter(c) ==
  /\ memory.adapter.status = "enabled" /\ memory.operation = "enabled"
  /\ BeginCatalog(c, [pc |-> "apply", todo |-> {AdapterTool}, queue |-> {}])

\* The provider is read, probed without a lock, and written back as it was read.
CheckProviderHealth(c, kind) ==
  /\ memory[kind].status # "absent"
  /\ BeginCatalog(c, [pc |-> "probe", field |-> kind, value |-> memory[kind]])

probeProviderHealth(c, answers) ==
  LET healthy == IF request[c].field = "host" THEN answers /\ providerConnection
                 ELSE memory.operation = "enabled" => validateAdapterOperation("enabled", TRUE)
  IN  /\ ReqAt(c, "probe")
      /\ Continue(c, [pc |-> "save", todo |-> {},
                      w |-> <<request[c].field,
                              [request[c].value EXCEPT !.health =
                                 IF healthy THEN "healthy" ELSE "unhealthy"]>>])
      /\ UNCHANGED <<up, stored, memory, registry, cache, stops, usable, requests, overlap,
                     connFailures, tangled>>
      /\ ConnectionSame

-----------------------------------------------------------------------------
(* Stop and start.                                                         *)

\* What the queries of the store return.
ListCatalog == stored

\* The process loads the catalog and applies all of it before it serves requests.
Restore ==
  /\ ~up /\ up' = TRUE
  /\ memory' = ListCatalog
  /\ Continue(Boot, [pc |-> "apply", todo |-> {}, queue |-> Manifests(ListCatalog, Tools)])
  /\ UNCHANGED <<stored, registry, cache, stops, usable, tangled, requests, overlap, connFailures>>
  /\ ConnectionSame

\* The process stops at any moment; requests in progress end where they are.
Stop ==
  /\ stops < MaxStops /\ stops' = stops + 1
  /\ up'       = FALSE
  /\ memory'   = Empty
  /\ registry' = [t \in Tools |-> 0]
  /\ request'  = [c \in Clients |-> Waiting]
  /\ tangled'  = FALSE
  /\ UNCHANGED <<stored, cache, usable, requests, overlap, connFailures>> /\ ConnectionSame

-----------------------------------------------------------------------------
CatalogStep(c) ==
  \/ Save(c) \/ Store(c) \/ Decide(c) \/ applyManifests(c) \/ ensureManagedAdapterProvider(c) \/ OperationValidated(c)
  \/ \E answers \in BOOLEAN : probeProviderHealth(c, answers)

handleToolProviderResource(c) ==
  \/ \E status \in CatalogStatuses, same \in BOOLEAN : UpsertProvider(c, status, same)
  \/ \E ts \in fetchCatalog \cup fetchMCPCatalog : SyncProviderCatalog(c, ts)
  \/ SyncManagedAdapter(c)
  \/ \E kind \in {"host", "adapter"} : CheckProviderHealth(c, kind)

handleToolProviderOperations(c) ==
  \/ \E status \in CatalogStatuses :
       UpsertAdapterOperation(c, status) \/ UpsertAdapterOperationFromResource(c, status)
  \/ PublishAdapterOperation(c)

handleToolGroupResource(c) == \E status \in CatalogStatuses : UpsertGroup(c, status)

handleToolManifestResource(c) ==
  \E status \in CatalogStatuses, t \in HostTools : UpsertManifest(c, t, status)

CatalogRequest(c) ==
  \/ handleToolProviderResource(c) \/ handleToolProviderOperations(c)
  \/ handleToolGroupResource(c) \/ handleToolManifestResource(c)

\* A request about the connection also counts as one that overlaps.
ConnectionMoves ==
  /\ UNCHANGED <<up, stored, memory, registry, cache, stops, usable>>
  /\ \/ \E c \in Clients : ConnectionStep(c) /\ UNCHANGED tangled
     \/ \E c \in Clients \ {Boot} :
          /\ Serving /\ ConnectionRequest(c, ServiceConnectionImpact)
          /\ tangled' = (tangled \/ \E d \in Clients : ~ReqAt(d, "idle"))

CatalogNext ==
  \/ ConnectionMoves \/ Restore \/ Stop
  \/ \E c \in Clients : CatalogStep(c) \/ CatalogRequest(c)

CatalogSpec == CatalogInit /\ [][CatalogNext]_<<connectionVars, catalogVars>>

-----------------------------------------------------------------------------
(* Properties.  Quiet: requests have neither overlapped nor failed since    *)
(* the process was started, and none is in progress.                        *)

Quiet == ~tangled /\ Serving /\ \A c \in Clients : ReqAt(c, "idle")

\* Memory and database agree, and the installed tools are exactly the ones that manifest,
\* group, provider, operation and (when they were last applied) connection allow: each
\* write applies all the tools it affects again, and a start repairs what overlapping or
\* interrupted requests have left.
RegistryAgrees ==
  Quiet =>
    /\ memory = stored
    /\ \A t \in Tools :
         registry[t] # 0 <=> /\ stored.tool[t] = "enabled"
                             /\ groupAllowsInstall(stored) /\ providerAllows(stored, t)
                             /\ usable[t]

\* A tool of the catalog that is installed and passes the check before a call is enabled,
\* with its group, provider, operation and connection, in the database: disabling any of
\* them takes effect with the request, although a connection's tools are not removed.
CallableEnabled ==
  Quiet =>
    \A t \in Tools :
      registry[t] # 0 /\ CheckToolAvailability(t) =>
        /\ stored.tool[t] = "enabled" /\ groupAllowsInstall(stored) /\ providerAllows(stored, t)
        /\ connection.status = "enabled"

\* A connection that a provider or an operation refers to is not deleted.
DependentsHaveConnection ==
  ~overlap => (stored.host.status # "absent" \/ stored.operation # "absent" => GetConnection)

\* The tools that can be called are the ones the catalog in the database and the service
\* connection allow: after every request, and again after a restart that follows a failure or overlap
\* (applyManifest, Restore, CheckToolAvailability).
CatalogConsistent == RegistryAgrees /\ CallableEnabled /\ DependentsHaveConnection

=============================================================================
