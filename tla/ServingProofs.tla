---------------------------- MODULE ServingProofs ----------------------------
(***************************************************************************)
(* Proofs about Admission, for any requests, tenants, agents and limits,   *)
(* and about SchemaMigration, for any operators and directories.           *)
(*                                                                         *)
(* CountersExact is inductive with the types: the counters are compared    *)
(* with the requests that hold a slot, and each step moves at most one     *)
(* request in or out of the holders.  That the counters respect the limits *)
(* needs no more; the limits on the real number of runs then follow.       *)
(*                                                                         *)
(* MigrationsAccounted needs what an operator relies on between two calls: *)
(* the files it has looked at are the ones that were executed, and the     *)
(* records it has read are still there.                                    *)
(***************************************************************************)
EXTENDS Admission, SchemaMigration, OrderFacts, FiniteSetTheorems, TLAPS

CountersWithinLimits ==
  /\ MaxRunningRuns > 0 => globalRunning <= MaxRunningRuns
  /\ TenantMaxRunningRuns > 0 => \A t \in Tenants : tenantRunning[t] <= TenantMaxRunningRuns
  /\ AgentMaxRunningRuns > 0 => \A k \in AgentKeys : agentRunning[k] <= AgentMaxRunningRuns

IInv == TypeOK /\ CountersExact /\ CountersWithinLimits

-----------------------------------------------------------------------------
(***************************************************************************)
(* One request more, or one less, changes a count by one.                  *)
(***************************************************************************)
LEMMA CountOne ==
  ASSUME NEW S \in SUBSET Requests, NEW q \in Requests
  PROVE  /\ Cardinality(S) \in Nat
         /\ q \notin S => Cardinality(S \cup {q}) = Cardinality(S) + 1
         /\ q \in S => /\ Cardinality(S) > 0
                       /\ Cardinality(S \ {q}) = Cardinality(S) - 1
<1>1. IsFiniteSet(S)
  BY FS_Subset, AdmissionAssumption
<1>2. Cardinality(S) \in Nat
  BY <1>1, FS_CardinalityType
<1>3. q \notin S => Cardinality(S \cup {q}) = Cardinality(S) + 1
  BY <1>1, FS_AddElement
<1>4. q \in S => Cardinality(S \ {q}) = Cardinality(S) - 1
  BY <1>1, FS_RemoveElement
<1>5. q \in S => Cardinality(S) > 0
  BY <1>1, <1>2, FS_EmptySet
<1> QED BY <1>2, <1>3, <1>4, <1>5

(***************************************************************************)
(* A request that holds a slot has a key.                                  *)
(***************************************************************************)
LEMMA HolderKeys ==
  ASSUME TypeOK
  PROVE  \A q \in Requests : request[q].pc \in HoldingPCs \cup {"rejected"} =>
           request[q].key \in AgentKeys /\ request[q].key[1] \in Tenants
BY DEF TypeOK, HoldingPCs, AgentKeys

(***************************************************************************)
(* A step that neither takes nor returns a slot keeps the counts.          *)
(***************************************************************************)
LEMMA SameHolders ==
  ASSUME IInv, TypeOK', NEW q \in Requests, NEW x,
         request' = [request EXCEPT ![q] = x],
         request[q].pc \in HoldingPCs <=> x.pc \in HoldingPCs,
         x.pc \in HoldingPCs => x.key = request[q].key,
         UNCHANGED <<globalRunning, tenantRunning, agentRunning>>
  PROVE  IInv'
<1>1. \A p \in Requests : request'[p] = IF p = q THEN x ELSE request[p]
  BY DEF IInv, TypeOK
<1>2. Holders' = Holders
  BY <1>1 DEF Holders
<1>3. \A t \in Tenants : TenantHolders(t)' = TenantHolders(t)
  BY <1>1, <1>2 DEF TenantHolders, Holders
<1>4. \A k \in AgentKeys : AgentHolders(k)' = AgentHolders(k)
  BY <1>1, <1>2 DEF AgentHolders, Holders
<1>5. CountersExact'
  BY <1>2, <1>3, <1>4 DEF IInv, CountersExact
<1>6. CountersWithinLimits'
  BY DEF IInv, CountersWithinLimits
<1> QED BY <1>5, <1>6 DEF IInv

(***************************************************************************)
(* AcquireRun keeps the counters exact and within their limits.            *)
(***************************************************************************)
LEMMA AcquireStep ==
  ASSUME IInv, NEW q \in Requests, NEW k \in AgentKeys, AcquireRun(q, k)
  PROVE  IInv'
<1>1. k[1] \in Tenants
  BY DEF AgentKeys
<1>2. TypeOK'
  BY <1>1 DEF IInv, TypeOK, AcquireRun, HoldingPCs
<1>3. /\ \A p \in Requests : p # q => request'[p] = request[p]
      /\ request'[q].pc \in HoldingPCs
      /\ request'[q].key = k
      /\ request[q].pc \notin HoldingPCs
  BY DEF IInv, TypeOK, AcquireRun, HoldingPCs
<1>4. Holders' = Holders \cup {q} /\ q \notin Holders
  BY <1>3 DEF Holders
<1>5. /\ TenantHolders(k[1])' = TenantHolders(k[1]) \cup {q}
      /\ q \notin TenantHolders(k[1])
      /\ \A t \in Tenants \ {k[1]} : TenantHolders(t)' = TenantHolders(t)
  BY <1>3, <1>4 DEF TenantHolders, Holders
<1>6. /\ AgentHolders(k)' = AgentHolders(k) \cup {q}
      /\ q \notin AgentHolders(k)
      /\ \A j \in AgentKeys \ {k} : AgentHolders(j)' = AgentHolders(j)
  BY <1>3, <1>4 DEF AgentHolders, Holders
<1>7. /\ Holders \in SUBSET Requests
      /\ TenantHolders(k[1]) \in SUBSET Requests
      /\ AgentHolders(k) \in SUBSET Requests
  BY DEF Holders, TenantHolders, AgentHolders
<1>8. CountersExact'
  <2>1. globalRunning' = Cardinality(Holders')
    BY <1>4, <1>7, CountOne DEF IInv, CountersExact, AcquireRun
  <2>2. ASSUME NEW t \in Tenants PROVE tenantRunning'[t] = Cardinality(TenantHolders(t)')
    <3>1. CASE t = k[1]
      BY <3>1, <1>1, <1>5, <1>7, CountOne DEF IInv, TypeOK, CountersExact, AcquireRun
    <3>2. CASE t # k[1]
      BY <3>2, <1>1, <1>5 DEF IInv, TypeOK, CountersExact, AcquireRun
    <3> QED BY <3>1, <3>2
  <2>3. ASSUME NEW j \in AgentKeys PROVE agentRunning'[j] = Cardinality(AgentHolders(j)')
    <3>1. CASE j = k
      BY <3>1, <1>6, <1>7, CountOne DEF IInv, TypeOK, CountersExact, AcquireRun
    <3>2. CASE j # k
      BY <3>2, <1>6 DEF IInv, TypeOK, CountersExact, AcquireRun
    <3> QED BY <3>1, <3>2
  <2> QED BY <2>1, <2>2, <2>3 DEF CountersExact
<1>9. CountersWithinLimits'
  <2>1. /\ globalRunning \in Nat
        /\ \A t \in Tenants : tenantRunning[t] \in Nat
        /\ \A j \in AgentKeys : agentRunning[j] \in Nat
    BY DEF IInv, TypeOK
  <2>2. /\ MaxRunningRuns > 0 => globalRunning < MaxRunningRuns
        /\ TenantMaxRunningRuns > 0 => tenantRunning[k[1]] < TenantMaxRunningRuns
        /\ AgentMaxRunningRuns > 0 => agentRunning[k] < AgentMaxRunningRuns
    BY <2>1, <1>1, AdmissionAssumption DEF AcquireRun, Full, Reached
  <2>3. MaxRunningRuns > 0 => globalRunning' <= MaxRunningRuns
    BY <2>1, <2>2, AdmissionAssumption DEF AcquireRun
  <2>4. TenantMaxRunningRuns > 0 => \A t \in Tenants : tenantRunning'[t] <= TenantMaxRunningRuns
    BY <2>1, <2>2, <1>1, AdmissionAssumption DEF AcquireRun, IInv, TypeOK, CountersWithinLimits
  <2>5. AgentMaxRunningRuns > 0 => \A j \in AgentKeys : agentRunning'[j] <= AgentMaxRunningRuns
    BY <2>1, <2>2, AdmissionAssumption DEF AcquireRun, IInv, TypeOK, CountersWithinLimits
  <2> QED BY <2>3, <2>4, <2>5 DEF CountersWithinLimits
<1> QED BY <1>2, <1>8, <1>9 DEF IInv

(***************************************************************************)
(* releaseRun keeps the counters exact: none is at zero, so its guards     *)
(* against going below zero never act.                                     *)
(***************************************************************************)
LEMMA ReleaseStep ==
  ASSUME IInv, NEW q \in Requests, ReleaseRun(q)
  PROVE  IInv'
<1>0. PICK k \in AgentKeys : k = request[q].key
  BY HolderKeys DEF IInv, ReleaseRun, HoldingPCs
<1>1. k[1] \in Tenants
  BY DEF AgentKeys
<1>2. /\ globalRunning' = Decrement(globalRunning)
      /\ tenantRunning' = [tenantRunning EXCEPT ![k[1]] = Decrement(@)]
      /\ agentRunning'  = [agentRunning EXCEPT ![k] = Decrement(@)]
      /\ request' = [request EXCEPT ![q] = [pc |-> "done", key |-> NoKey]]
      /\ rejectedTotal' = rejectedTotal
      /\ mode' = mode
  BY <1>0 DEF ReleaseRun
<1>3. /\ \A p \in Requests : p # q => request'[p] = request[p]
      /\ request'[q].pc \notin HoldingPCs
      /\ request[q].pc \in HoldingPCs
  BY <1>2 DEF IInv, TypeOK, ReleaseRun, HoldingPCs
<1>4. Holders' = Holders \ {q} /\ q \in Holders
  BY <1>3 DEF Holders
<1>5. /\ TenantHolders(k[1])' = TenantHolders(k[1]) \ {q}
      /\ q \in TenantHolders(k[1])
      /\ \A t \in Tenants \ {k[1]} : TenantHolders(t)' = TenantHolders(t)
  BY <1>0, <1>3, <1>4 DEF TenantHolders, Holders
<1>6. /\ AgentHolders(k)' = AgentHolders(k) \ {q}
      /\ q \in AgentHolders(k)
      /\ \A j \in AgentKeys \ {k} : AgentHolders(j)' = AgentHolders(j)
  BY <1>0, <1>3, <1>4 DEF AgentHolders, Holders
<1>7. /\ Holders \in SUBSET Requests
      /\ TenantHolders(k[1]) \in SUBSET Requests
      /\ AgentHolders(k) \in SUBSET Requests
  BY DEF Holders, TenantHolders, AgentHolders
<1>8. /\ globalRunning \in Nat
      /\ tenantRunning \in [Tenants -> Nat]
      /\ agentRunning \in [AgentKeys -> Nat]
  BY DEF IInv, TypeOK
<1>9. \A n \in Nat : Decrement(n) \in Nat /\ Decrement(n) <= n /\ (n > 0 => Decrement(n) = n - 1)
  BY DEF Decrement
<1>10. TypeOK'
  <2>1. request' \in [Requests ->
          [pc : HoldingPCs \cup {"rejected"}, key : AgentKeys] \cup [pc : {"idle", "done"}, key : {NoKey}]]
    BY <1>2 DEF IInv, TypeOK
  <2>2. globalRunning' \in Nat /\ tenantRunning' \in [Tenants -> Nat]
    BY <1>1, <1>2, <1>8, <1>9
  <2>3. agentRunning' \in [AgentKeys -> Nat]
    BY <1>2, <1>8, <1>9
  <2> QED BY <2>1, <2>2, <2>3, <1>2 DEF IInv, TypeOK
<1>11. CountersExact'
  <2>1. globalRunning' = Cardinality(Holders')
    BY <1>2, <1>4, <1>7, <1>8, <1>9, CountOne DEF IInv, CountersExact
  <2>2. ASSUME NEW t \in Tenants PROVE tenantRunning'[t] = Cardinality(TenantHolders(t)')
    <3>1. CASE t = k[1]
      BY <3>1, <1>1, <1>2, <1>5, <1>7, <1>8, <1>9, CountOne DEF IInv, CountersExact
    <3>2. CASE t # k[1]
      BY <3>2, <1>1, <1>2, <1>5, <1>8 DEF IInv, CountersExact
    <3> QED BY <3>1, <3>2
  <2>3. ASSUME NEW j \in AgentKeys PROVE agentRunning'[j] = Cardinality(AgentHolders(j)')
    <3>1. CASE j = k
      BY <3>1, <1>2, <1>6, <1>7, <1>8, <1>9, CountOne DEF IInv, CountersExact
    <3>2. CASE j # k
      BY <3>2, <1>2, <1>6, <1>8 DEF IInv, CountersExact
    <3> QED BY <3>1, <3>2
  <2> QED BY <2>1, <2>2, <2>3 DEF CountersExact
<1>12. CountersWithinLimits'
  <2>1. /\ globalRunning' \in Nat /\ globalRunning' <= globalRunning
        /\ \A t \in Tenants : tenantRunning'[t] \in Nat /\ tenantRunning'[t] <= tenantRunning[t]
        /\ \A j \in AgentKeys : agentRunning'[j] \in Nat /\ agentRunning'[j] <= agentRunning[j]
    BY <1>1, <1>2, <1>8, <1>9
  <2> QED BY <2>1, <1>8, AdmissionAssumption DEF IInv, CountersWithinLimits
<1> QED BY <1>10, <1>11, <1>12 DEF IInv

(***************************************************************************)
(* The steps of a request that keeps its slot, and a rejection.            *)
(***************************************************************************)
LEMMA KeepStep ==
  ASSUME IInv, NEW q \in Requests,
         \/ \E k \in AgentKeys : Rejected(q, k)
         \/ Resolve(q) \/ PrepareRun(q) \/ ExecuteRun(q)
  PROVE  IInv'
<1>1. ASSUME NEW k \in AgentKeys, Rejected(q, k) PROVE IInv'
  <2>1. TypeOK'
    BY <1>1 DEF IInv, TypeOK, Rejected
  <2>2. PICK x : x = [pc |-> "rejected", key |-> k]
    OBVIOUS
  <2>3. /\ request[q].pc \notin HoldingPCs
        /\ x.pc \notin HoldingPCs
        /\ request' = [request EXCEPT ![q] = x]
        /\ UNCHANGED <<globalRunning, tenantRunning, agentRunning>>
    BY <1>1, <2>2 DEF Rejected, HoldingPCs
  <2> QED BY <2>1, <2>3, SameHolders
<1>2. ASSUME Resolve(q) \/ PrepareRun(q) \/ ExecuteRun(q) PROVE IInv'
  <2>1. PICK pc \in HoldingPCs : Goto(q, pc)
    BY <1>2 DEF Resolve, PrepareRun, ExecuteRun, HoldingPCs
  <2>2. request[q].pc \in HoldingPCs
    BY <1>2 DEF Resolve, PrepareRun, ExecuteRun, HoldingPCs
  <2>3. PICK x : x = [request[q] EXCEPT !.pc = pc]
    OBVIOUS
  <2>4. request[q] \in [pc : HoldingPCs \cup {"rejected"}, key : AgentKeys]
    BY <2>2 DEF IInv, TypeOK, HoldingPCs
  <2>5. /\ x \in [pc : HoldingPCs \cup {"rejected"}, key : AgentKeys]
        /\ x.pc = pc
        /\ x.key = request[q].key
    BY <2>3, <2>4
  <2>6. /\ request' = [request EXCEPT ![q] = x]
        /\ UNCHANGED <<globalRunning, tenantRunning, agentRunning, rejectedTotal, mode>>
    BY <2>1, <2>3 DEF Goto, counters
  <2>7. TypeOK'
    BY <2>5, <2>6 DEF IInv, TypeOK
  <2> QED BY <2>2, <2>5, <2>6, <2>7, SameHolders
<1> QED BY <1>1, <1>2

(***************************************************************************)
(* Every step preserves the inductive invariant.                           *)
(***************************************************************************)
LEMMA NextPreserves ==
  ASSUME IInv, [Next]_vars PROVE IInv'
<1>1. CASE \E q \in Requests, k \in AgentKeys : AcquireRun(q, k)
  BY <1>1, AcquireStep
<1>2. CASE \E q \in Requests, k \in AgentKeys : Rejected(q, k)
  BY <1>2, KeepStep
<1>3. CASE \E q \in Requests : Serve(q)
  BY <1>3, KeepStep, ReleaseStep DEF Serve
<1>4. CASE UNCHANGED vars
  BY <1>4 DEF vars, IInv, TypeOK, CountersExact, CountersWithinLimits,
     Holders, TenantHolders, AgentHolders
<1> QED BY <1>1, <1>2, <1>3, <1>4 DEF Next

(***************************************************************************)
(* The idle limiter satisfies the inductive invariant.                     *)
(***************************************************************************)
LEMMA InitHolds ==
  ASSUME Init PROVE IInv
<1>1. TypeOK
  BY DEF Init, TypeOK
<1>2. /\ Holders = {}
      /\ \A t \in Tenants : TenantHolders(t) = {}
      /\ \A k \in AgentKeys : AgentHolders(k) = {}
  BY DEF Init, Holders, TenantHolders, AgentHolders, HoldingPCs
<1>3. Cardinality({}) = 0
  BY FS_EmptySet
<1>4. CountersExact
  BY <1>2, <1>3 DEF Init, CountersExact
<1>5. CountersWithinLimits
  BY AdmissionAssumption DEF Init, CountersWithinLimits
<1> QED BY <1>1, <1>4, <1>5 DEF IInv

(***************************************************************************)
(* The inductive invariant holds in every reachable state.                 *)
(***************************************************************************)
THEOREM InductiveInvariant == Spec => []IInv
<1>1. Init => IInv
  BY InitHolds
<1>2. IInv /\ [Next]_vars => IInv'
  BY NextPreserves
<1> QED BY <1>1, <1>2, PTL DEF Spec

(***************************************************************************)
(* For any number of requests the limiter's counters are the numbers of    *)
(* runs in flight: no slot is lost or returned twice on any way out.       *)
(***************************************************************************)
THEOREM CountersAlwaysExact == Spec => []CountersExact
<1>1. IInv => CountersExact
  BY DEF IInv
<1> QED BY <1>1, InductiveInvariant, PTL

(***************************************************************************)
(* The runs in flight never exceed a limit that is set.                    *)
(***************************************************************************)
THEOREM LimitsAlwaysHold == Spec => []LimitsHold
<1>1. IInv => LimitsHold
  BY DEF IInv, CountersExact, CountersWithinLimits, LimitsHold
<1> QED BY <1>1, InductiveInvariant, PTL

(***************************************************************************)
(* A rejection always has as many runs in flight behind it as the limit    *)
(* that turned the request away.                                           *)
(***************************************************************************)
THEOREM NeverRejectsEarly == Spec => RejectsOnlyWhenFull
<1> DEFINE A(q) == request[q].pc = "idle" /\ request'[q].pc = "rejected" =>
             LET k == request'[q].key IN
             \/ Reached(MaxRunningRuns, Cardinality(Holders))
             \/ Reached(TenantMaxRunningRuns, Cardinality(TenantHolders(k[1])))
             \/ Reached(AgentMaxRunningRuns, Cardinality(AgentHolders(k)))
<1>1. IInv /\ [Next]_vars => [\A q \in Requests : A(q)]_vars
  <2> SUFFICES ASSUME IInv, Next, NEW q \in Requests,
                      request[q].pc = "idle", request'[q].pc = "rejected"
               PROVE  A(q)
    BY DEF vars
  <2>1. PICK p \in Requests, k \in AgentKeys : Rejected(p, k)
    <3>1. ASSUME NEW p \in Requests, NEW k \in AgentKeys, AcquireRun(p, k) PROVE FALSE
      BY <3>1 DEF AcquireRun, IInv, TypeOK
    <3>2. ASSUME NEW p \in Requests, NEW pc \in HoldingPCs, Goto(p, pc),
                 request[p].pc \in HoldingPCs
          PROVE  FALSE
      <4>1. request[p] \in [pc : HoldingPCs \cup {"rejected"}, key : AgentKeys]
        BY <3>2 DEF IInv, TypeOK, HoldingPCs
      <4> QED BY <4>1, <3>2 DEF Goto, IInv, TypeOK, HoldingPCs
    <3>3. ASSUME NEW p \in Requests, Resolve(p) \/ PrepareRun(p) \/ ExecuteRun(p) PROVE FALSE
      BY <3>2, <3>3 DEF Resolve, PrepareRun, ExecuteRun, HoldingPCs
    <3>4. ASSUME NEW p \in Requests, ReleaseRun(p) PROVE FALSE
      BY <3>4 DEF ReleaseRun, IInv, TypeOK
    <3> QED BY <3>1, <3>3, <3>4 DEF Next, Serve
  <2>2. p = q /\ request'[q].key = k
    BY <2>1 DEF Rejected, IInv, TypeOK
  <2>3. k[1] \in Tenants
    BY DEF AgentKeys
  <2> QED BY <2>1, <2>2, <2>3 DEF Rejected, Full, IInv, CountersExact
<1> QED BY <1>1, InductiveInvariant, PTL DEF Spec, RejectsOnlyWhenFull

-----------------------------------------------------------------------------
(* Migrations                                                              *)

MigrationPCs ==
  {"idle", "applied", "next", "mark", "tables", "indexes", "records", "ready", "not_ready"}

OperatorStates ==
  [pc : MigrationPCs, dir : Directories \cup {NoFiles}, last : Nat,
   applied : [MigrationVersions -> Checksums \cup {None}], missing : BOOLEAN]

\* What an operator has looked at is executed as its files say, what it has read of the
\* records is recorded, and what a report has not missed is there.
OperatorOK(r) ==
  /\ r.pc # "idle" => r.dir \in Directories
  /\ \A v \in DOMAIN r.dir.files : v <= r.last => schema[v] = r.dir.files[v]
  /\ \A v \in MigrationVersions : r.applied[v] # None => recorded[v] = r.applied[v]
  /\ r.pc = "mark" =>
       \E v \in DOMAIN r.dir.files :
         /\ v > r.last /\ schema[v] = r.dir.files[v]
         /\ \A u \in DOMAIN r.dir.files : u > r.last => v <= u
  /\ r.pc \in {"indexes", "records"} /\ ~r.missing => RequiredExecuted
  /\ r.pc = "ready" => RequiredExecuted /\ RecordsMatch(r.dir)

MigrationTables ==
  /\ schema \in [MigrationVersions -> Checksums \cup {None}]
  /\ recorded \in [MigrationVersions -> Checksums \cup {None}]

OperatorsOK ==
  /\ operator \in [Operators -> OperatorStates]
  /\ \A o \in Operators : OperatorOK(operator[o])

MigrationInv == MigrationTables /\ OperatorsOK /\ SchemaOfOneDirectory /\ RecordedWasExecuted

\* What is executed or recorded stays as it is.
MigrationsGrow ==
  \A v \in MigrationVersions :
    /\ schema[v] # None => schema'[v] = schema[v]
    /\ recorded[v] # None => recorded'[v] = recorded[v]

LEMMA DirectoryFacts ==
  ASSUME NEW d \in Directories \cup {NoFiles}, NEW v \in DOMAIN d.files
  PROVE  /\ d \in Directories /\ v \in MigrationVersions /\ v \in Nat
         /\ d.files[v] \in Checksums /\ d.files[v] # None
<1>1. d # NoFiles
  BY DEF NoFiles
<1>2. v \in MigrationVersions /\ d.files[v] \in Checksums
  BY <1>1 DEF MigrationVersions, Checksums
<1> QED BY <1>1, <1>2, MigrationAssumption

LEMMA OperatorKept ==
  ASSUME NEW r \in OperatorStates, OperatorOK(r), MigrationsGrow
  PROVE  OperatorOK(r)'
<1>1. r.dir \in Directories \cup {NoFiles}
  BY DEF OperatorStates
<1>2. ASSUME NEW v \in DOMAIN r.dir.files
      PROVE  /\ schema[v] = r.dir.files[v] => schema'[v] = r.dir.files[v]
             /\ recorded[v] = r.dir.files[v] => recorded'[v] = r.dir.files[v]
  BY <1>1, DirectoryFacts DEF MigrationsGrow
<1>3. RequiredExecuted => RequiredExecuted'
  BY MigrationAssumption DEF RequiredExecuted, MigrationsGrow
<1>4. RecordsMatch(r.dir) => RecordsMatch(r.dir)'
  BY <1>2 DEF RecordsMatch
<1>5. \A v \in MigrationVersions : r.applied[v] # None => recorded'[v] = r.applied[v]
  BY DEF OperatorOK, MigrationsGrow
<1>6. \A v \in DOMAIN r.dir.files : v <= r.last => schema'[v] = r.dir.files[v]
  BY <1>2 DEF OperatorOK
<1>7. r.pc = "mark" =>
        \E v \in DOMAIN r.dir.files :
          /\ v > r.last /\ schema'[v] = r.dir.files[v]
          /\ \A u \in DOMAIN r.dir.files : u > r.last => v <= u
  BY <1>2 DEF OperatorOK
<1> QED BY <1>3, <1>4, <1>5, <1>6, <1>7 DEF OperatorOK

LEMMA OperatorFacts ==
  ASSUME MigrationInv, NEW o \in Operators
  PROVE  /\ operator[o] \in OperatorStates /\ OperatorOK(operator[o])
         /\ operator[o].dir \in Directories \cup {NoFiles}
         /\ operator[o].last \in Nat
<1>1. operator[o] \in OperatorStates /\ OperatorOK(operator[o])
  BY DEF MigrationInv, OperatorsOK
<1> QED BY <1>1 DEF OperatorStates

LEMMA OperatorsKept ==
  ASSUME MigrationInv, MigrationsGrow, NEW o \in Operators, NEW r \in OperatorStates,
         operator' = [operator EXCEPT ![o] = r], OperatorOK(r)'
  PROVE  OperatorsOK'
<1>1. /\ operator' \in [Operators -> OperatorStates]
      /\ \A p \in Operators : operator'[p] = IF p = o THEN r ELSE operator[p]
  BY DEF MigrationInv, OperatorsOK
<1>2. ASSUME NEW p \in Operators PROVE OperatorOK(operator[p])'
  <2>1. CASE p = o
    BY <1>1, <2>1 DEF OperatorOK
  <2>2. CASE p # o
    <3>1. PICK u : u = operator[p]
      OBVIOUS
    <3>2. OperatorOK(u)'
      BY <3>1, OperatorFacts, OperatorKept
    <3> QED BY <1>1, <2>2, <3>1, <3>2 DEF OperatorOK
  <2> QED BY <2>1, <2>2
<1> QED BY <1>1, <1>2 DEF OperatorsOK

LEMMA NotRunningFacts ==
  NotRunning \in OperatorStates /\ OperatorOK(NotRunning)'
<1>1. PICK r : r = NotRunning
  OBVIOUS
<1>2. /\ r.pc = "idle" /\ r.dir = NoFiles /\ r.last = 0 /\ r.applied = NoVersions /\ r.missing = FALSE
  BY <1>1 DEF NotRunning, Running
<1>3. r \in OperatorStates
  BY <1>1 DEF NotRunning, Running, OperatorStates, NoVersions, MigrationPCs
<1>4. \A v \in MigrationVersions : r.applied[v] = None
  BY <1>2 DEF NoVersions
<1>5. \A v \in DOMAIN r.dir.files : FALSE
  BY <1>2 DEF NoFiles
<1> QED BY <1>1, <1>2, <1>3, <1>4, <1>5 DEF OperatorOK

\* A step that executes and records nothing.
LEMMA QuietMigration ==
  ASSUME MigrationInv, UNCHANGED <<schema, recorded>>, NEW o \in Operators, NEW r \in OperatorStates,
         operator' = [operator EXCEPT ![o] = r], OperatorOK(r)
  PROVE  MigrationInv'
<1>1. MigrationsGrow
  BY DEF MigrationsGrow
<1>2. OperatorOK(r)'
  BY <1>1, OperatorKept
<1>3. MigrationTables' /\ SchemaOfOneDirectory' /\ RecordedWasExecuted'
  BY DEF MigrationInv, MigrationTables, SchemaOfOneDirectory, RecordedWasExecuted
<1> QED BY <1>1, <1>2, <1>3, OperatorsKept DEF MigrationInv

LEMMA EndsStep ==
  ASSUME MigrationInv, UNCHANGED <<schema, recorded>>, NEW o \in Operators, Ends(o)
  PROVE  MigrationInv'
<1>1. MigrationsGrow
  BY DEF MigrationsGrow
<1>2. MigrationTables' /\ SchemaOfOneDirectory' /\ RecordedWasExecuted'
  BY DEF MigrationInv, MigrationTables, SchemaOfOneDirectory, RecordedWasExecuted
<1> QED BY <1>1, <1>2, NotRunningFacts, OperatorsKept DEF MigrationInv, Ends

LEMMA MigrationInitInv == MigrationInit => MigrationInv
<1> SUFFICES ASSUME MigrationInit PROVE MigrationInv
  OBVIOUS
<1>1. MigrationTables
  BY DEF MigrationInit, MigrationTables, NoVersions
<1>2. \A v \in MigrationVersions : schema[v] = None /\ recorded[v] = None
  BY DEF MigrationInit, NoVersions
<1>3. SchemaOfOneDirectory /\ RecordedWasExecuted
  BY <1>2, MigrationAssumption DEF SchemaOfOneDirectory, RecordedWasExecuted
<1>4. PICK r : r = NotRunning
  OBVIOUS
<1>5. /\ r.pc = "idle" /\ r.dir = NoFiles /\ r.applied = NoVersions
  BY <1>4 DEF NotRunning, Running
<1>6. /\ \A v \in MigrationVersions : r.applied[v] = None
      /\ \A v \in DOMAIN r.dir.files : FALSE
  BY <1>5 DEF NoVersions, NoFiles
<1>7. OperatorOK(r)
  BY <1>5, <1>6 DEF OperatorOK
<1>8. OperatorsOK
  BY <1>4, <1>7, NotRunningFacts DEF MigrationInit, OperatorsOK
<1> QED BY <1>1, <1>3, <1>8 DEF MigrationInv

LEMMA BeginStep ==
  ASSUME MigrationInv, NEW o \in Operators, NEW d \in Directories,
         Begin(o, "applied", d) \/ Begin(o, "tables", d)
  PROVE  MigrationInv'
<1>1. PICK pc \in {"applied", "tables"} : Begin(o, pc, d)
  OBVIOUS
<1>2. PICK r : r = Running(pc, d)
  OBVIOUS
<1>3. /\ r.pc = pc /\ r.dir = d /\ r.last = 0 /\ r.applied = NoVersions
  BY <1>2 DEF Running
<1>4. r \in OperatorStates
  BY <1>2 DEF Running, OperatorStates, NoVersions, MigrationPCs
<1>5. \A v \in MigrationVersions : r.applied[v] = None
  BY <1>3 DEF NoVersions
<1>6. \A v \in DOMAIN r.dir.files : ~(v <= r.last)
  <2>1. \A v \in DOMAIN d.files : v \in MigrationVersions
    BY DirectoryFacts
  <2>2. \A v \in DOMAIN d.files : v \in Nat /\ v # 0
    BY <2>1, MigrationAssumption
  <2> QED BY <1>3, <2>2
<1>7. OperatorOK(r)
  BY <1>1, <1>3, <1>5, <1>6 DEF OperatorOK
<1> QED BY <1>1, <1>2, <1>4, <1>7, QuietMigration DEF Begin

\* The file a command looks at next.
LEMMA CurrentFacts ==
  ASSUME MigrationInv, NEW o \in Operators, Remaining(o) # {}
  PROVE  /\ Current(o) \in DOMAIN operator[o].dir.files
         /\ Current(o) \in Nat /\ Current(o) > operator[o].last
         /\ \A u \in DOMAIN operator[o].dir.files : u > operator[o].last => Current(o) <= u
<1>1. \A v \in DOMAIN operator[o].dir.files : v \in Nat
  BY OperatorFacts, DirectoryFacts
<1>2. Remaining(o) \in SUBSET Nat
  BY <1>1 DEF Remaining
<1>3. \E x \in Remaining(o) : \A y \in Remaining(o) : x <= y
  BY <1>2, LeastElement
<1>4. Current(o) \in Remaining(o) /\ \A y \in Remaining(o) : Current(o) <= y
  BY <1>3 DEF Current, Min
<1> QED BY <1>1, <1>4 DEF Remaining

\* Once the file it looks at is executed, the command may go on to the next.
LEMMA LastMoves ==
  ASSUME MigrationInv, NEW o \in Operators, Remaining(o) # {}, schema[Current(o)] = checksum(o)
  PROVE  \A v \in DOMAIN operator[o].dir.files :
           v <= Current(o) => schema[v] = operator[o].dir.files[v]
<1> SUFFICES ASSUME NEW v \in DOMAIN operator[o].dir.files, v <= Current(o)
             PROVE  schema[v] = operator[o].dir.files[v]
  OBVIOUS
<1>1. v \in Nat /\ operator[o].last \in Nat /\ Current(o) \in Nat
  BY OperatorFacts, DirectoryFacts, CurrentFacts
<1>2. CASE v <= operator[o].last
  BY <1>2, OperatorFacts DEF OperatorOK
<1>3. CASE v > operator[o].last
  <2>1. v = Current(o)
    BY <1>1, <1>3, CurrentFacts
  <2> QED BY <2>1 DEF checksum
<1> QED BY <1>1, <1>2, <1>3

LEMMA AppliedStep ==
  ASSUME MigrationInv, NEW o \in Operators, Applied(o)
  PROVE  MigrationInv'
<1>1. PICK r0 : r0 = operator[o]
  OBVIOUS
<1>2. PICK r : r = [r0 EXCEPT !.pc = "next", !.applied = recorded]
  OBVIOUS
<1>3. r0 \in OperatorStates /\ OperatorOK(r0) /\ r0.pc = "applied"
  BY <1>1, OperatorFacts DEF Applied, OperatorAt
<1>4. r \in OperatorStates
  BY <1>2, <1>3 DEF OperatorStates, MigrationPCs, MigrationInv, MigrationTables
<1>5. /\ r.pc = "next" /\ r.dir = r0.dir /\ r.last = r0.last /\ r.applied = recorded
  BY <1>2, <1>3 DEF OperatorStates
<1>6. OperatorOK(r)
  BY <1>3, <1>5 DEF OperatorOK
<1>7. operator' = [operator EXCEPT ![o] = r] /\ UNCHANGED <<schema, recorded>>
  BY <1>1, <1>2 DEF Applied
<1> QED BY <1>4, <1>6, <1>7, QuietMigration

LEMMA SkipStep ==
  ASSUME MigrationInv, NEW o \in Operators, Skip(o)
  PROVE  MigrationInv'
<1>1. CASE Ends(o)
  BY <1>1, EndsStep DEF Skip
<1>2. CASE /\ operator[o].applied[Current(o)] = checksum(o)
           /\ operator' = [operator EXCEPT ![o].last = Current(o)]
  <2>1. PICK r0 : r0 = operator[o]
    OBVIOUS
  <2>2. PICK r : r = [r0 EXCEPT !.last = Current(o)]
    OBVIOUS
  <2>3. r0 \in OperatorStates /\ OperatorOK(r0) /\ r0.pc = "next"
    BY <2>1, OperatorFacts DEF Skip, OperatorAt
  <2>4. Remaining(o) # {} /\ Current(o) \in Nat /\ Current(o) \in MigrationVersions
    BY CurrentFacts, OperatorFacts, DirectoryFacts DEF Skip
  <2>5. r \in OperatorStates
    BY <2>2, <2>3, <2>4 DEF OperatorStates
  <2>6. /\ r.pc = "next" /\ r.dir = r0.dir /\ r.last = Current(o) /\ r.applied = r0.applied
    BY <2>2, <2>3 DEF OperatorStates
  <2>7. operator[o].applied[Current(o)] # None
    BY DEF Skip
  <2>8. recorded[Current(o)] = operator[o].applied[Current(o)]
    BY <2>4, <2>7, OperatorFacts DEF OperatorOK
  <2>9. schema[Current(o)] = checksum(o)
    BY <1>2, <2>4, <2>7, <2>8 DEF MigrationInv, RecordedWasExecuted
  <2>10. OperatorOK(r)
    BY <2>1, <2>3, <2>4, <2>6, <2>9, LastMoves DEF OperatorOK
  <2>11. operator' = [operator EXCEPT ![o] = r] /\ UNCHANGED <<schema, recorded>>
    BY <1>2, <2>1, <2>2 DEF Skip
  <2> QED BY <2>5, <2>10, <2>11, QuietMigration
<1> QED BY <1>1, <1>2 DEF Skip

\* Files are appended, so the schema with the file executed is the command's directory's.
LEMMA ExecutedSchema ==
  ASSUME MigrationInv, NEW o \in Operators, OperatorAt(o, "next"), Remaining(o) # {},
         schema[Current(o)] = None, schema' = [schema EXCEPT ![Current(o)] = checksum(o)]
  PROVE  SchemaOfOneDirectory'
<1>1. PICK d : d = operator[o].dir
  OBVIOUS
<1>2. PICK c : c = Current(o)
  OBVIOUS
<1>3. d \in Directories
  BY <1>1, OperatorFacts DEF OperatorAt, OperatorOK
<1>4. c \in DOMAIN d.files /\ c \in Nat /\ c \in MigrationVersions
  BY <1>1, <1>2, <1>3, CurrentFacts, DirectoryFacts
<1>5. schema' = [schema EXCEPT ![c] = d.files[c]] /\ schema[c] = None
  BY <1>1, <1>2 DEF checksum
<1>6. /\ schema'[c] = d.files[c]
      /\ \A v \in MigrationVersions : v # c => schema'[v] = schema[v]
  BY <1>4, <1>5 DEF MigrationInv, MigrationTables
<1>7. ASSUME NEW u \in DOMAIN d.files, u <= c PROVE schema'[u] = d.files[u]
  <2>1. u \in Nat /\ u \in MigrationVersions /\ operator[o].last \in Nat
    BY <1>3, DirectoryFacts, OperatorFacts
  <2>2. CASE u = c
    BY <1>6, <2>2
  <2>3. CASE u < c
    <3>1. u <= operator[o].last
      BY <1>1, <1>2, <1>4, <2>1, <2>3, CurrentFacts
    <3>2. schema[u] = d.files[u]
      BY <1>1, <3>1, OperatorFacts DEF OperatorOK
    <3> QED BY <1>4, <1>6, <2>1, <2>3, <3>2
  <2> QED BY <1>4, <1>7, <2>1, <2>2, <2>3
<1>8. ASSUME NEW v \in MigrationVersions, schema'[v] # None
      PROVE  v \in DOMAIN d.files /\ v <= c
  <2>1. CASE v = c
    BY <1>4, <2>1
  <2>2. CASE v # c
    <3>1. PICK e \in Directories :
            \A w \in MigrationVersions : schema[w] # None =>
              /\ w \in DOMAIN e.files
              /\ \A u \in DOMAIN e.files : u <= w => schema[u] = e.files[u]
      BY DEF MigrationInv, SchemaOfOneDirectory
    <3>2. v \in DOMAIN e.files /\ \A u \in DOMAIN e.files : u <= v => schema[u] = e.files[u]
      BY <1>6, <1>8, <2>2, <3>1
    <3>3. v \in Nat
      BY <3>2, DirectoryFacts
    <3>4. ~(c < v)
      <4> SUFFICES ASSUME c < v PROVE FALSE
        OBVIOUS
      <4>1. c \in DOMAIN e.files
        BY <1>3, <1>4, <3>2, MigrationAssumption
      <4>2. schema[c] = e.files[c]
        BY <1>4, <3>2, <3>3, <4>1
      <4>3. e.files[c] # None
        BY <4>1, DirectoryFacts
      <4> QED BY <1>5, <4>2, <4>3
    <3>5. v < c
      BY <1>4, <2>2, <3>3, <3>4
    <3>6. v \in DOMAIN d.files
      BY <1>3, <1>4, <3>2, <3>5, MigrationAssumption
    <3> QED BY <1>4, <3>3, <3>5, <3>6
  <2> QED BY <2>1, <2>2
<1>9. ASSUME NEW v \in MigrationVersions, schema'[v] # None, NEW u \in DOMAIN d.files, u <= v
      PROVE  schema'[u] = d.files[u]
  <2>1. u \in Nat /\ v \in Nat
    BY <1>3, <1>8, <1>9, DirectoryFacts
  <2> QED BY <1>4, <1>7, <1>8, <1>9, <2>1
<1> QED BY <1>3, <1>8, <1>9 DEF SchemaOfOneDirectory

LEMMA ExecStep ==
  ASSUME MigrationInv, NEW o \in Operators, Exec(o)
  PROVE  MigrationInv'
<1>1. CASE schema[Current(o)] # None
  BY <1>1, EndsStep DEF Exec
<1>2. CASE schema[Current(o)] = None
  <2>1. PICK c, d : c = Current(o) /\ d = operator[o].dir
    OBVIOUS
  <2>2. /\ OperatorAt(o, "next") /\ Remaining(o) # {}
        /\ schema' = [schema EXCEPT ![Current(o)] = checksum(o)]
        /\ UNCHANGED recorded
    BY <1>2 DEF Exec
  <2>3. d \in Directories
    BY <2>1, <2>2, OperatorFacts DEF OperatorAt, OperatorOK
  <2>4. c \in DOMAIN d.files /\ c \in MigrationVersions /\ d.files[c] \in Checksums
    BY <2>1, <2>2, <2>3, CurrentFacts, DirectoryFacts
  <2>5. schema' = [schema EXCEPT ![c] = d.files[c]] /\ schema[c] = None
    BY <1>2, <2>1, <2>2 DEF checksum
  <2>6. /\ schema'[c] = d.files[c]
        /\ \A v \in MigrationVersions : v # c => schema'[v] = schema[v]
    BY <2>4, <2>5 DEF MigrationInv, MigrationTables
  <2>7. MigrationTables'
    BY <2>2, <2>4, <2>5 DEF MigrationInv, MigrationTables
  <2>8. MigrationsGrow
    BY <2>2, <2>5, <2>6 DEF MigrationsGrow
  <2>9. RecordedWasExecuted'
    BY <2>2, <2>5, <2>6 DEF MigrationInv, RecordedWasExecuted
  <2>10. OperatorsOK'
    <3>1. CASE Ends(o)
      BY <2>8, <3>1, NotRunningFacts, OperatorsKept DEF Ends
    <3>2. CASE operator' = [operator EXCEPT ![o].pc = "mark"]
      <4>1. PICK r0 : r0 = operator[o]
        OBVIOUS
      <4>2. PICK r : r = [r0 EXCEPT !.pc = "mark"]
        OBVIOUS
      <4>3. r0 \in OperatorStates /\ OperatorOK(r0)
        BY <4>1, OperatorFacts
      <4>4. r \in OperatorStates
        BY <4>2, <4>3 DEF OperatorStates, MigrationPCs
      <4>5. /\ r.pc = "mark" /\ r.dir = r0.dir /\ r.last = r0.last /\ r.applied = r0.applied
        BY <4>2, <4>3 DEF OperatorStates
      <4>6. OperatorOK(r0)'
        BY <2>8, <4>3, OperatorKept
      <4>7. /\ c > r.last /\ schema'[c] = r.dir.files[c]
            /\ \A u \in DOMAIN r.dir.files : u > r.last => c <= u
        BY <2>1, <2>2, <2>6, <4>1, <4>5, CurrentFacts
      <4>8. OperatorOK(r)'
        BY <2>1, <2>3, <2>4, <4>1, <4>5, <4>6, <4>7 DEF OperatorOK
      <4>9. operator' = [operator EXCEPT ![o] = r]
        BY <3>2, <4>1, <4>2
      <4> QED BY <2>8, <4>4, <4>8, <4>9, OperatorsKept
    <3> QED BY <1>2, <3>1, <3>2 DEF Exec
  <2> QED BY <1>2, <2>2, <2>7, <2>9, <2>10, ExecutedSchema DEF MigrationInv
<1> QED BY <1>1, <1>2

LEMMA MarkAppliedStep ==
  ASSUME MigrationInv, NEW o \in Operators, MarkApplied(o)
  PROVE  MigrationInv'
<1>1. PICK r0, c : r0 = operator[o] /\ c = Current(o)
  OBVIOUS
<1>2. r0 \in OperatorStates /\ OperatorOK(r0) /\ r0.pc = "mark"
  BY <1>1, OperatorFacts DEF MarkApplied, OperatorAt
<1>3. PICK w \in DOMAIN r0.dir.files :
        /\ w > r0.last /\ schema[w] = r0.dir.files[w]
        /\ \A u \in DOMAIN r0.dir.files : u > r0.last => w <= u
  BY <1>2 DEF OperatorOK
<1>4. Remaining(o) # {}
  BY <1>1, <1>3 DEF Remaining
<1>5. /\ c \in DOMAIN r0.dir.files /\ c \in Nat /\ c \in MigrationVersions /\ w \in Nat
      /\ r0.dir.files[c] \in Checksums /\ r0.dir.files[c] # None
  BY <1>1, <1>4, CurrentFacts, OperatorFacts, DirectoryFacts
<1>6. c = w
  BY <1>1, <1>3, <1>4, <1>5, CurrentFacts
<1>7. schema[c] = r0.dir.files[c]
  BY <1>3, <1>6
<1>8. recorded' = [recorded EXCEPT ![c] = r0.dir.files[c]] /\ UNCHANGED schema
  BY <1>1 DEF MarkApplied, checksum
<1>9. /\ recorded'[c] = schema[c]
      /\ \A v \in MigrationVersions : v # c => recorded'[v] = recorded[v]
  BY <1>5, <1>7, <1>8 DEF MigrationInv, MigrationTables
<1>10. MigrationTables'
  BY <1>5, <1>8 DEF MigrationInv, MigrationTables
<1>11. MigrationsGrow
  BY <1>8, <1>9 DEF MigrationsGrow, MigrationInv, RecordedWasExecuted
<1>12. SchemaOfOneDirectory' /\ RecordedWasExecuted'
  BY <1>8, <1>9 DEF MigrationInv, RecordedWasExecuted, SchemaOfOneDirectory
<1>13. OperatorsOK'
  <2>1. CASE Ends(o)
    BY <1>11, <2>1, NotRunningFacts, OperatorsKept DEF Ends
  <2>2. CASE operator' = [operator EXCEPT ![o].pc = "next", ![o].last = Current(o)]
    <3>1. PICK r : r = [r0 EXCEPT !.pc = "next", !.last = c]
      OBVIOUS
    <3>2. r \in OperatorStates
      BY <1>2, <1>5, <3>1 DEF OperatorStates, MigrationPCs
    <3>3. /\ r.pc = "next" /\ r.dir = r0.dir /\ r.last = c /\ r.applied = r0.applied
      BY <1>2, <3>1 DEF OperatorStates
    <3>4. schema[Current(o)] = checksum(o)
      BY <1>1, <1>7 DEF checksum
    <3>5. \A v \in DOMAIN r0.dir.files : v <= c => schema[v] = r0.dir.files[v]
      BY <1>1, <1>4, <3>4, LastMoves
    <3>6. OperatorOK(r)
      BY <1>2, <3>3, <3>5 DEF OperatorOK
    <3>7. OperatorOK(r)'
      BY <1>11, <3>2, <3>6, OperatorKept
    <3>8. operator' = [operator EXCEPT ![o] = r]
      BY <1>1, <2>2, <3>1
    <3> QED BY <1>11, <3>2, <3>7, <3>8, OperatorsKept
  <2> QED BY <2>1, <2>2 DEF MarkApplied
<1> QED BY <1>10, <1>12, <1>13 DEF MigrationInv

\* What a report finds executed is still there when it reads on.
LEMMA ReportStep ==
  ASSUME MigrationInv, NEW o \in Operators,
         \/ ReadObjects(o, "tables", "indexes")
         \/ ReadObjects(o, "indexes", "records")
         \/ ReadRecords(o)
  PROVE  MigrationInv'
<1>1. PICK r0 : r0 = operator[o]
  OBVIOUS
<1>2. r0 \in OperatorStates /\ OperatorOK(r0)
  BY <1>1, OperatorFacts
<1>3. ASSUME NEW pc \in MigrationPCs, NEW missing \in BOOLEAN, r0.pc # "idle", pc \notin {"idle", "mark"},
             pc \in {"indexes", "records"} /\ ~missing => RequiredExecuted,
             pc = "ready" => RequiredExecuted /\ RecordsMatch(r0.dir),
             operator' = [operator EXCEPT ![o] = [r0 EXCEPT !.pc = pc, !.missing = missing]],
             UNCHANGED <<schema, recorded>>
      PROVE  MigrationInv'
  <2>1. PICK r : r = [r0 EXCEPT !.pc = pc, !.missing = missing]
    OBVIOUS
  <2>2. r \in OperatorStates
    BY <1>2, <2>1 DEF OperatorStates
  <2>3. /\ r.pc = pc /\ r.dir = r0.dir /\ r.last = r0.last /\ r.applied = r0.applied
        /\ r.missing = missing
    BY <1>2, <2>1 DEF OperatorStates
  <2>4. OperatorOK(r)
    BY <1>2, <1>3, <2>3 DEF OperatorOK
  <2> QED BY <1>3, <2>1, <2>2, <2>4, QuietMigration
<1>4. ASSUME NEW pc \in {"tables", "indexes"}, NEW next \in {"indexes", "records"},
             ReadObjects(o, pc, next)
      PROVE  MigrationInv'
  <2>1. PICK missing : missing = (r0.missing \/ ~RequiredExecuted)
    OBVIOUS
  <2>2. missing \in BOOLEAN /\ (~missing => RequiredExecuted) /\ r0.pc = pc
    BY <1>1, <1>4, <2>1 DEF ReadObjects, OperatorAt
  <2>3. operator' = [operator EXCEPT ![o] = [r0 EXCEPT !.pc = next, !.missing = missing]]
    BY <1>1, <1>4, <2>1 DEF ReadObjects
  <2>4. UNCHANGED <<schema, recorded>> /\ next \in MigrationPCs
    BY <1>4 DEF ReadObjects, MigrationPCs
  <2> QED BY <1>3, <2>2, <2>3, <2>4
<1>5. ASSUME ReadRecords(o) PROVE MigrationInv'
  <2>1. PICK pc : pc = IF ~r0.missing /\ RecordsMatch(r0.dir) THEN "ready" ELSE "not_ready"
    OBVIOUS
  <2>2. pc \in MigrationPCs /\ pc \in {"ready", "not_ready"} /\ r0.pc = "records"
    BY <1>1, <1>5, <2>1 DEF ReadRecords, OperatorAt, MigrationPCs
  <2>3. pc = "ready" => RequiredExecuted /\ RecordsMatch(r0.dir)
    BY <1>2, <2>1, <2>2 DEF OperatorOK
  <2>4. r0.missing \in BOOLEAN
    BY <1>2 DEF OperatorStates
  <2>5. operator' = [operator EXCEPT ![o] = [r0 EXCEPT !.pc = pc, !.missing = r0.missing]]
    <3>1. operator' = [operator EXCEPT ![o] = [r0 EXCEPT !.pc = pc]]
      BY <1>1, <1>5, <2>1 DEF ReadRecords
    <3>2. [r0 EXCEPT !.pc = pc] = [r0 EXCEPT !.pc = pc, !.missing = r0.missing]
      BY <1>2 DEF OperatorStates
    <3> QED BY <3>1, <3>2
  <2>6. UNCHANGED <<schema, recorded>>
    BY <1>5 DEF ReadRecords
  <2> QED BY <1>3, <2>2, <2>3, <2>4, <2>5, <2>6
<1> QED BY <1>4, <1>5

LEMMA MigrationStep == MigrationInv /\ [MigrationNext]_migrationVars => MigrationInv'
<1>1. ASSUME MigrationInv, MigrationNext PROVE MigrationInv'
  <2>1. PICK o \in Operators :
          \/ \E d \in Directories : runMigrationCommand(o, d) \/ ValidateLiveSchema(o, d)
          \/ Applied(o) \/ Skip(o) \/ Exec(o) \/ MarkApplied(o) \/ UpDone(o)
          \/ ReadObjects(o, "tables", "indexes") \/ ReadObjects(o, "indexes", "records")
          \/ ReadRecords(o) \/ UpInterrupted(o)
    BY <1>1 DEF MigrationNext
  <2>2. CASE \E d \in Directories : runMigrationCommand(o, d) \/ ValidateLiveSchema(o, d)
    BY <1>1, <2>2, BeginStep DEF runMigrationCommand, ValidateLiveSchema
  <2>3. CASE Applied(o)
    BY <1>1, <2>3, AppliedStep
  <2>4. CASE Skip(o)
    BY <1>1, <2>4, SkipStep
  <2>5. CASE Exec(o)
    BY <1>1, <2>5, ExecStep
  <2>6. CASE MarkApplied(o)
    BY <1>1, <2>6, MarkAppliedStep
  <2>7. CASE UpDone(o) \/ UpInterrupted(o)
    BY <1>1, <2>7, EndsStep DEF UpDone, UpInterrupted
  <2>8. CASE \/ ReadObjects(o, "tables", "indexes") \/ ReadObjects(o, "indexes", "records")
             \/ ReadRecords(o)
    BY <1>1, <2>8, ReportStep
  <2> QED BY <2>1, <2>2, <2>3, <2>4, <2>5, <2>6, <2>7, <2>8
<1>2. ASSUME MigrationInv, UNCHANGED migrationVars PROVE MigrationInv'
  <2>1. MigrationTables' /\ SchemaOfOneDirectory' /\ RecordedWasExecuted'
    BY <1>2 DEF migrationVars, MigrationInv, MigrationTables, SchemaOfOneDirectory, RecordedWasExecuted
  <2>2. OperatorsOK'
    <3>1. MigrationsGrow /\ operator' = operator
      BY <1>2 DEF MigrationsGrow, migrationVars
    <3>2. ASSUME NEW p \in Operators PROVE OperatorOK(operator[p])'
      <4>1. PICK u : u = operator[p]
        OBVIOUS
      <4>2. OperatorOK(u)'
        BY <1>2, <3>1, <4>1, OperatorFacts, OperatorKept
      <4> QED BY <3>1, <4>1, <4>2 DEF OperatorOK
    <3> QED BY <1>2, <3>1, <3>2 DEF MigrationInv, OperatorsOK
  <2> QED BY <2>1, <2>2 DEF MigrationInv
<1> QED BY <1>1, <1>2

(***************************************************************************)
(* For any number of operators with any append-only directories, however   *)
(* their calls overlap and wherever they are interrupted: the schema is of *)
(* one directory, a record is of what was executed, and a report that says *)
(* ready is right.                                                         *)
(***************************************************************************)
THEOREM MigrationsAccountedHolds == MigrationSpec => []MigrationsAccounted
<1>1. MigrationInv => MigrationsAccounted
  <2>1. ASSUME MigrationInv, NEW o \in Operators, OperatorAt(o, "ready")
        PROVE  RequiredExecuted /\ RecordsMatch(operator[o].dir)
    BY <2>1, OperatorFacts DEF OperatorAt, OperatorOK
  <2> QED BY <2>1 DEF MigrationInv, MigrationsAccounted, ReadyIsMigrated
<1> QED BY <1>1, MigrationInitInv, MigrationStep, PTL DEF MigrationSpec
=============================================================================
