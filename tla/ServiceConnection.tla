-------------------------- MODULE ServiceConnection --------------------------
(***************************************************************************)
(* One service connection of a tenant: the service                          *)
(* (internal/serviceconnection/service.go), its postgres store and the      *)
(* handlers of the API.  A request reads the row, may probe the remote      *)
(* service, and writes the whole row back; nothing compares versions.       *)
(*                                                                          *)
(* A row's scope stands for its type, address, credentials and metadata     *)
(* (what discovered resources depend on), its net for the network scope,    *)
(* timeout and retries (what, besides, its health depends on).              *)
(***************************************************************************)
EXTENDS Naturals, FiniteSets

CONSTANTS
  Clients,         \* requests handled at the same time
  Scopes,          \* values of scope, positive numbers
  Nets,            \* values of net, positive numbers
  InitialConnections, \* rows the database may hold at first
  MaxRequests,     \* requests handled in all (bound, model checking only)
  MaxConnFailures  \* store calls that fail (bound, model checking only)

VARIABLES
  connection,   \* the service_connections row
  resources,    \* the scope under which the resource catalog was discovered, 0 = empty
  rotations,    \* the credentials recorded in service_connection_secret_rotations
  healthEvents, \* the health in the newest service_connection_health_events row
  request,      \* request[c]: where the request is, and its locals
  requests,     \* requests received so far
  connFailures,
  overlap,      \* history: two requests have been in progress at the same time
  probed        \* history: the row the last completed test has probed and stored

connectionVars ==
  <<connection, resources, rotations, healthEvents, request, requests, connFailures, overlap, probed>>

Statuses     == {"draft", "enabled", "disabled"}
NoConnection == [status |-> "absent", scope |-> 0, net |-> 0, health |-> "unknown"]
Rows         == [status : Statuses, scope : Scopes, net : Nets, health : {"unknown"}]
Waiting      == [pc |-> "idle"]

ASSUME ConnectionAssumption ==
  /\ Scopes \subseteq Nat \ {0} /\ Nets \subseteq Nat \ {0}
  /\ MaxRequests \in Nat /\ MaxConnFailures \in Nat
  /\ InitialConnections \subseteq {NoConnection} \cup Rows

ConnectionInit ==
  /\ connection \in InitialConnections
  /\ resources \in {0, connection.scope}
  /\ rotations    = {}
  /\ healthEvents = "none"
  /\ request      = [c \in Clients |-> Waiting]
  /\ requests     = 0
  /\ connFailures = 0
  /\ overlap      = FALSE
  /\ probed       = NoConnection

-----------------------------------------------------------------------------
(* The store.                                                              *)

Answers == UNCHANGED connFailures
Breaks  == connFailures < MaxConnFailures /\ connFailures' = connFailures + 1

GetConnection == connection.status # "absent"

UpsertConnection(row) == connection' = row /\ UNCHANGED resources
UpsertConnectionAndReplaceResources(row) == connection' = row /\ resources' = 0
ReplaceResources(scope) == resources' = scope /\ UNCHANGED connection

\* The row with all that hangs on it, in one transaction.
DeleteConnection ==
  connection' = NoConnection /\ rotations' = {} /\ healthEvents' = "none" /\ resources' = 0

-----------------------------------------------------------------------------
(* Requests.                                                               *)

ReqAt(c, pc)   == request[c].pc = pc
Continue(c, r) == request' = [request EXCEPT ![c] = r]
Answer(c)      == Continue(c, Waiting)

Begin(c, r) ==
  /\ ReqAt(c, "idle") /\ requests < MaxRequests
  /\ requests' = requests + 1
  /\ overlap' = (overlap \/ \E d \in Clients : ~ReqAt(d, "idle"))
  /\ Continue(c, r)

\* POST and PUT carry a whole row.
PutConnection(c, row) ==
  /\ Begin(c, [pc |-> "upsert", row |-> row, rotate |-> FALSE])
  /\ UNCHANGED <<connection, resources, rotations, healthEvents, connFailures, probed>>

\* PATCH, Enable and Disable read the row and change some of it.
mergeServiceConnectionPatch(c, status, scope, net) ==
  /\ GetConnection
  /\ Begin(c, [pc |-> "upsert", rotate |-> FALSE,
               row |-> [connection EXCEPT !.status = status, !.scope = scope, !.net = net]])
  /\ UNCHANGED <<connection, resources, rotations, healthEvents, connFailures, probed>>

Enable(c)  == mergeServiceConnectionPatch(c, "enabled", connection.scope, connection.net)
Disable(c) == mergeServiceConnectionPatch(c, "disabled", connection.scope, connection.net)
Patch(c, scope, net) == mergeServiceConnectionPatch(c, connection.status, scope, net)

\* A new credential, different from the present one, is a new scope.
RotateSecret(c, scope) ==
  /\ GetConnection /\ scope # connection.scope
  /\ Begin(c, [pc |-> "upsert", rotate |-> TRUE,
               row |-> [connection EXCEPT !.scope = scope, !.health = "unknown"]])
  /\ UNCHANGED <<connection, resources, rotations, healthEvents, connFailures, probed>>

connectionResourceScopeMatches(next) == connection.scope = next.scope

\* Mutant: health survives a change of the network scope.
HealthScopeWithoutNet(next) == connection.scope = next.scope

connectionHealthScopeMatches(next) ==
  connection.scope = next.scope /\ connection.net = next.net

\* Upsert reads the stored row again to decide on health and resources.
normalizeConnectionForUpsert(c) ==
  LET row == request[c].row
  IN  /\ ReqAt(c, "upsert")
      /\ Continue(c, [pc |-> "store_row", rotate |-> request[c].rotate,
                      clear |-> GetConnection /\ ~connectionResourceScopeMatches(row),
                      row |-> [row EXCEPT !.health =
                                 IF GetConnection /\ connectionHealthScopeMatches(row)
                                   THEN connection.health ELSE "unknown"]])
      /\ UNCHANGED <<connection, resources, rotations, healthEvents, requests, connFailures, overlap, probed>>

Upsert(c) ==
  /\ ReqAt(c, "store_row")
  /\ \/ /\ IF request[c].clear THEN UpsertConnectionAndReplaceResources(request[c].row)
                               ELSE UpsertConnection(request[c].row)
        /\ Answers
        /\ IF request[c].rotate
             THEN Continue(c, [pc |-> "rotation", row |-> request[c].row]) ELSE Answer(c)
     \/ Breaks /\ Answer(c) /\ UNCHANGED <<connection, resources>>
  /\ UNCHANGED <<rotations, healthEvents, requests, overlap, probed>>

\* The record follows the row; if it fails the rotation has happened without one.
AppendSecretRotation(c) ==
  /\ ReqAt(c, "rotation")
  /\ \/ rotations' = rotations \cup {request[c].row.scope} /\ Answers
     \/ UNCHANGED rotations /\ Breaks
  /\ Answer(c)
  /\ UNCHANGED <<connection, resources, healthEvents, requests, overlap, probed>>

-----------------------------------------------------------------------------
(* Testing a connection.                                                   *)

Test(c) ==
  /\ GetConnection
  /\ Begin(c, [pc |-> "test", row |-> connection])
  /\ UNCHANGED <<connection, resources, rotations, healthEvents, connFailures, probed>>

\* What a probe can find: the health, and what becomes of the resource catalog.
Unhealthy == [health |-> "unhealthy", found |-> "no"]

\* Only the health is asked for.
probeHTTP == {Unhealthy, [health |-> "healthy", found |-> "no"]}

\* A healthy HTTP API is asked for its operations; without a document to ask for it has none.
discoverHTTPAPIResources ==
  {Unhealthy} \cup [health : {"healthy"}, found : {"empty", "some"}]

\* A database that answers lists its tables.
probeDatabaseAndDiscover == {Unhealthy} \cup [health : {"healthy"}, found : {"empty", "some"}]

\* Other types have no test, and the health is unknown.
Outcomes == probeHTTP \cup discoverHTTPAPIResources \cup probeDatabaseAndDiscover
              \cup {[health |-> "unknown", found |-> "no"]}

Probe(c, outcome) ==
  /\ ReqAt(c, "test")
  /\ Continue(c, [pc    |-> IF outcome.found = "no" THEN "health" ELSE "resources",
                  found |-> outcome.found = "some",
                  row   |-> [request[c].row EXCEPT !.health = outcome.health]])
  /\ UNCHANGED <<connection, resources, rotations, healthEvents, requests, connFailures, overlap, probed>>

\* What discovery has found replaces the catalog.
StoreResources(c) ==
  /\ ReqAt(c, "resources")
  /\ \/ ReplaceResources(IF request[c].found THEN request[c].row.scope ELSE 0) /\ Answers
        /\ Continue(c, [request[c] EXCEPT !.pc = "health"])
     \/ UNCHANGED <<connection, resources>> /\ Breaks /\ Answer(c)
  /\ UNCHANGED <<rotations, healthEvents, requests, overlap, probed>>

\* The whole row read before the probe is written, also over a newer one or one that has
\* been deleted.
storeConnectionHealth(c) ==
  /\ ReqAt(c, "health")
  /\ \/ /\ UpsertConnection(request[c].row) /\ Answers /\ probed' = request[c].row
        /\ Continue(c, [pc |-> "event", health |-> request[c].row.health])
     \/ UNCHANGED <<connection, resources, probed>> /\ Breaks /\ Answer(c)
  /\ UNCHANGED <<rotations, healthEvents, requests, overlap>>

AppendHealthEvent(c) ==
  /\ ReqAt(c, "event")
  /\ \/ healthEvents' = request[c].health /\ Answers
     \/ UNCHANGED healthEvents /\ Breaks
  /\ Answer(c)
  /\ UNCHANGED <<connection, resources, rotations, requests, overlap, probed>>

-----------------------------------------------------------------------------
(* Deleting: the handler asks the tool catalog first.                      *)

DeleteRequest(c, hasDependencies) ==
  /\ ~hasDependencies
  /\ Begin(c, [pc |-> "delete"])
  /\ UNCHANGED <<connection, resources, rotations, healthEvents, connFailures, probed>>

Delete(c) ==
  /\ ReqAt(c, "delete")
  /\ \/ DeleteConnection /\ Answers
     \/ UNCHANGED <<connection, resources, rotations, healthEvents>> /\ Breaks
  /\ Answer(c)
  /\ UNCHANGED <<requests, overlap, probed>>

-----------------------------------------------------------------------------
ConnectionStep(c) ==
  \/ normalizeConnectionForUpsert(c) \/ Upsert(c) \/ AppendSecretRotation(c)
  \/ \E outcome \in Outcomes : Probe(c, outcome)
  \/ StoreResources(c) \/ storeConnectionHealth(c) \/ AppendHealthEvent(c) \/ Delete(c)

handleServiceConnections(c) == \E row \in Rows : PutConnection(c, row)

handleServiceConnectionByID(c, hasDependencies) ==
  \/ \E scope \in Scopes, net \in Nets : Patch(c, scope, net)
  \/ DeleteRequest(c, hasDependencies)

handleServiceConnectionResource(c) == Enable(c) \/ Disable(c) \/ Test(c)

handleServiceConnectionSecretRotations(c) == \E scope \in Scopes : RotateSecret(c, scope)

ConnectionRequest(c, hasDependencies) ==
  \/ handleServiceConnections(c) \/ handleServiceConnectionByID(c, hasDependencies)
  \/ handleServiceConnectionResource(c) \/ handleServiceConnectionSecretRotations(c)

-----------------------------------------------------------------------------
(* Properties.  Requests that overlap can overwrite each other; what is     *)
(* stated is for requests that come one after the other, with failing store *)
(* calls in between.                                                        *)

\* The discovered resources belong to the address and credentials the connection has
\* now: a change clears them, with the row, and so does deleting it.
ResourcesCurrent ==
  ~overlap /\ resources # 0 => GetConnection /\ resources = connection.scope

\* A health status other than unknown comes from a probe of what the row says now.
HealthCurrent ==
  ~overlap /\ connection.health # "unknown" =>
    [probed EXCEPT !.status = connection.status] = connection

\* What is on record about a connection was found out about the connection as it is now
\* (Upsert, Test, DeleteConnection), with failing store calls in between.
ConnectionCurrent == ResourcesCurrent /\ HealthCurrent

=============================================================================
