------------------------------ MODULE Admission ------------------------------
(***************************************************************************)
(* internal/runtime/admission (Limiter) and the agent.run case of          *)
(* internal/server/server.go dispatchCommand, which takes a slot of it and *)
(* must give it back on every way out: three early errors, the end of a    *)
(* synchronous run, and the end of the goroutine of an asynchronous one.   *)
(*                                                                         *)
(* A slot counts against three limits at once: the process, the tenant and *)
(* the tenant's agent.  A limit of 0 is no limit.                          *)
(***************************************************************************)
EXTENDS Naturals, FiniteSets

CONSTANTS
  Requests, Tenants, Agents,
  MaxRunningRuns, TenantMaxRunningRuns, AgentMaxRunningRuns

ASSUME AdmissionAssumption ==
  /\ IsFiniteSet(Requests)
  /\ MaxRunningRuns \in Nat
  /\ TenantMaxRunningRuns \in Nat
  /\ AgentMaxRunningRuns \in Nat

AgentKeys == Tenants \X Agents

VARIABLES
  globalRunning, tenantRunning, agentRunning,  \* the limiter's counters
  rejectedTotal,
  mode,      \* EffectiveAgentRunExecutionMode, fixed at start-up
  request    \* request[q]: how far the handler, or its goroutine, is

vars == <<globalRunning, tenantRunning, agentRunning, rejectedTotal, mode, request>>
counters == <<globalRunning, tenantRunning, agentRunning, rejectedTotal>>

\* Between AcquireRun and the release; "background" is the goroutine of an
\* asynchronous run, whose response has been sent.
HoldingPCs == {"resolve", "prepare", "execute", "background", "release"}

NoKey == <<>>

Init ==
  /\ globalRunning = 0
  /\ tenantRunning = [t \in Tenants |-> 0]
  /\ agentRunning  = [k \in AgentKeys |-> 0]
  /\ rejectedTotal = 0
  /\ mode \in {"sync", "async"}
  /\ request = [q \in Requests |-> [pc |-> "idle", key |-> NoKey]]

\* Mutant: the limit may be passed by one.
ReachedLate(limit, running) == limit > 0 /\ running > limit

Reached(limit, running) == limit > 0 /\ running >= limit

\* The check AcquireRun makes: global, tenant, agent.
Full(k) ==
  \/ Reached(MaxRunningRuns, globalRunning)
  \/ Reached(TenantMaxRunningRuns, tenantRunning[k[1]])
  \/ Reached(AgentMaxRunningRuns, agentRunning[k])

\* AcquireRun: all three counters or none, under one lock.
AcquireRun(q, k) ==
  /\ request[q].pc = "idle"
  /\ ~Full(k)
  /\ globalRunning' = globalRunning + 1
  /\ tenantRunning' = [tenantRunning EXCEPT ![k[1]] = @ + 1]
  /\ agentRunning'  = [agentRunning EXCEPT ![k] = @ + 1]
  /\ request' = [request EXCEPT ![q] = [pc |-> "resolve", key |-> k]]
  /\ UNCHANGED <<rejectedTotal, mode>>

Rejected(q, k) ==
  /\ request[q].pc = "idle"
  /\ Full(k)
  /\ rejectedTotal' = rejectedTotal + 1
  /\ request' = [request EXCEPT ![q] = [pc |-> "rejected", key |-> k]]
  /\ UNCHANGED <<globalRunning, tenantRunning, agentRunning, mode>>

Goto(q, pc) ==
  /\ request' = [request EXCEPT ![q].pc = pc]
  /\ UNCHANGED <<counters, mode>>

\* resolveRunnableAgentTarget, driverForRoute and, when asynchronous, the test
\* for a PreparedDriver: an error releases at once.
Resolve(q) ==
  /\ request[q].pc = "resolve"
  /\ \E pc \in {"prepare", "release"} : Goto(q, pc)

\* PrepareRun: an error releases; else the run is executed here, or handed with
\* the release function to a goroutine.
PrepareRun(q) ==
  /\ request[q].pc = "prepare"
  /\ \E pc \in {"release", IF mode = "async" THEN "background" ELSE "execute"} : Goto(q, pc)

\* Mutant: the goroutine does not release when it ends.
ExecuteRunLeaks(q) ==
  \/ request[q].pc = "execute" /\ Goto(q, "release")
  \/ request[q].pc = "background" /\ Goto(q, "background")

\* ExecutePreparedRun returns, with or without an error.
ExecuteRun(q) ==
  /\ request[q].pc \in {"execute", "background"}
  /\ Goto(q, "release")

Decrement(n) == IF n > 0 THEN n - 1 ELSE n

\* Mutant: the agent's slot is not given back.
ReleaseRunPartly(q) ==
  /\ request[q].pc = "release"
  /\ globalRunning' = Decrement(globalRunning)
  /\ tenantRunning' = [tenantRunning EXCEPT ![request[q].key[1]] = Decrement(@)]
  /\ request' = [request EXCEPT ![q] = [pc |-> "done", key |-> NoKey]]
  /\ UNCHANGED <<agentRunning, rejectedTotal, mode>>

\* releaseRun, behind sync.Once: every way out calls the closure once.  An
\* entry that reaches zero is deleted, which reads as zero again.
ReleaseRun(q) ==
  /\ request[q].pc = "release"
  /\ globalRunning' = Decrement(globalRunning)
  /\ tenantRunning' = [tenantRunning EXCEPT ![request[q].key[1]] = Decrement(@)]
  /\ agentRunning'  = [agentRunning EXCEPT ![request[q].key] = Decrement(@)]
  /\ request' = [request EXCEPT ![q] = [pc |-> "done", key |-> NoKey]]
  /\ UNCHANGED <<rejectedTotal, mode>>

\* What a request does once it has its slot.
Serve(q) == Resolve(q) \/ PrepareRun(q) \/ ExecuteRun(q) \/ ReleaseRun(q)

Next ==
  \/ \E q \in Requests, k \in AgentKeys : AcquireRun(q, k)
  \/ \E q \in Requests, k \in AgentKeys : Rejected(q, k)
  \/ \E q \in Requests : Serve(q)

Spec == Init /\ [][Next]_vars

-----------------------------------------------------------------------------
(***************************************************************************)
(* Types of the counters and of the requests.                              *)
(***************************************************************************)
TypeOK ==
  /\ globalRunning \in Nat
  /\ tenantRunning \in [Tenants -> Nat]
  /\ agentRunning  \in [AgentKeys -> Nat]
  /\ rejectedTotal \in Nat
  /\ mode \in {"sync", "async"}
  /\ request \in [Requests ->
       [pc : HoldingPCs \cup {"rejected"}, key : AgentKeys] \cup [pc : {"idle", "done"}, key : {NoKey}]]

Holders == { q \in Requests : request[q].pc \in HoldingPCs }
TenantHolders(t) == { q \in Holders : request[q].key[1] = t }
AgentHolders(k) == { q \in Holders : request[q].key = k }

(***************************************************************************)
(* Every counter is the number of requests that hold a slot in its scope:  *)
(* no path out of agent.run loses a slot or returns it twice               *)
(* (limiter.go AcquireRun and releaseRun, server.go agent.run).            *)
(***************************************************************************)
CountersExact ==
  /\ globalRunning = Cardinality(Holders)
  /\ \A t \in Tenants : tenantRunning[t] = Cardinality(TenantHolders(t))
  /\ \A k \in AgentKeys : agentRunning[k] = Cardinality(AgentHolders(k))

(***************************************************************************)
(* The runs in flight, those in the background included, never exceed a    *)
(* limit that is set (limiter.go AcquireRun).                              *)
(***************************************************************************)
LimitsHold ==
  /\ MaxRunningRuns > 0 => Cardinality(Holders) <= MaxRunningRuns
  /\ TenantMaxRunningRuns > 0 =>
       \A t \in Tenants : Cardinality(TenantHolders(t)) <= TenantMaxRunningRuns
  /\ AgentMaxRunningRuns > 0 =>
       \A k \in AgentKeys : Cardinality(AgentHolders(k)) <= AgentMaxRunningRuns

(***************************************************************************)
(* A request is turned away only while as many runs are really in flight   *)
(* as some limit that applies to it allows: capacity is never lost.        *)
(***************************************************************************)
RejectsOnlyWhenFull ==
  [][\A q \in Requests : request[q].pc = "idle" /\ request'[q].pc = "rejected" =>
       LET k == request'[q].key IN
       \/ Reached(MaxRunningRuns, Cardinality(Holders))
       \/ Reached(TenantMaxRunningRuns, Cardinality(TenantHolders(k[1])))
       \/ Reached(AgentMaxRunningRuns, Cardinality(AgentHolders(k)))]_vars

(***************************************************************************)
(* Every slot taken is given back in the end.                              *)
(***************************************************************************)
SlotsReturned == \A q \in Requests : request[q].pc \in HoldingPCs ~> request[q].pc = "done"
=============================================================================
