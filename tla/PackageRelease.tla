--------------------------- MODULE PackageRelease ---------------------------
(***************************************************************************)
(* The versions of one agent of one tenant between publication and          *)
(* rollback: the release operations of internal/agentdef/package            *)
(* (service.go), the commands that drive them                               *)
(* (internal/server/commands_agent_package.go, commands_eval.go, the        *)
(* activate and restore resources), the release approvals, the agent        *)
(* registry (internal/agentdef/loader) and the route of a new run           *)
(* (internal/server/agent_routing.go).                                      *)
(*                                                                          *)
(* The service keeps its releases in a map and in a store: a method reads   *)
(* the map first, writes the map first, and a store call may fail.  The map *)
(* is empty after a restart.  The service's mutex covers one method, never  *)
(* a command, and is released while a release is read from the store.       *)
(***************************************************************************)
EXTENDS Naturals, Sequences, FiniteSetsExt

CONSTANTS
  Versions,        \* versions of the agent, one package version each
  Handlers,        \* requests handled at the same time
  Approvals,       \* approvals that can be requested (bound, model checking only)
  None,            \* no version, no approval
  ReleasePolicies, \* release policies the tenant may have
  MaxFailures,     \* store calls that fail (bound, model checking only)
  MaxRestarts      \* restarts (bound, model checking only)

ASSUME PackageReleaseAssumption ==
  /\ None \notin Versions \cup Approvals
  /\ ReleasePolicies \subseteq [windows : BOOLEAN, canary : BOOLEAN, approval : BOOLEAN]
  /\ MaxFailures \in Nat /\ MaxRestarts \in Nat

VARIABLES
  release,     \* release[v]: status in the service's map, "absent" if not there
  stored,      \* stored[v]: status in the store
  evalPass,    \* versions whose last evaluation passed, in the service's map
  published,   \* versions by published_at
  asset,       \* active and default version of the agent asset in the map
  storedAsset, \* the same in the store
  registered,  \* versions with a definition in the registry
  default,     \* the registry's default version
  approvals,   \* approvals[a]: what it is for and its status
  handler,     \* handler[h]: locals of the request handler h runs
  releasePolicy, \* AllowedWindowsUTC is not empty, RequireCanaryBeforeStable,
                 \* RequireApprovalForStable
  failures, restarts,
  verdict,     \* history: what the evaluations of a version have said
  gate,        \* history: verdicts but "passed" on which versions became stable
  spent        \* history: commands an approval has let pass

store   == <<stored, published, storedAsset>>
memory  == <<release, evalPass, asset, registered, default>>
history == <<verdict, gate, spent>>
vars    == <<memory, store, approvals, handler, releasePolicy, failures, restarts, history>>

Statuses == {"published", "evaluated", "canary", "stable", "rolled_back"}
Commands == {"canary", "stable", "rollback"}

\* A handler's locals: where it is, the command, its version and approval, whether an
\* evaluation passed, the status it has read, the fallback of an active version.
Request(pc, command, v) ==
  [pc |-> pc, command |-> command, v |-> v, approval |-> None, passed |-> FALSE,
   read |-> "absent", fallback |-> None]
Idle   == Request("idle", "none", None)

\* An approval that has not been requested, or can no longer be used: what it was for
\* is not looked at again.
Closed(status) == [status |-> status, command |-> "none", v |-> None]
Unsent == Closed("unsent")

Init ==
  /\ release     = [v \in Versions |-> "absent"]
  /\ stored      = [v \in Versions |-> "absent"]
  /\ evalPass    = {}
  /\ published   = <<>>
  /\ asset       = None
  /\ storedAsset = None
  /\ registered  = {}
  /\ default     = None
  /\ approvals   = [a \in Approvals |-> Unsent]
  /\ handler     = [h \in Handlers |-> Idle]
  /\ releasePolicy \in ReleasePolicies
  /\ failures    = 0
  /\ restarts    = 0
  /\ verdict     = [v \in Versions |-> "never"]
  /\ gate        = {}
  /\ spent       = [a \in Approvals |-> 0]

-----------------------------------------------------------------------------
(* Reads and rules shared by the operations.                               *)

\* Mutant: a rolled back release may go to canary again.
ReleaseTransitionRevives(current, next) ==
  CASE next = "canary"      -> current \in {"published", "evaluated", "rolled_back"}
    [] next = "evaluated"   -> current \in {"published", "canary", "evaluated"}
    [] next = "stable"      -> current \in {"evaluated", "canary"}
    [] next = "rolled_back" -> current # "rolled_back"

\* The status "reviewed", also accepted by the code, is a draft's only.
validateReleaseTransition(current, next) ==
  CASE next = "canary"      -> current \in {"published", "evaluated"}
    [] next = "evaluated"   -> current \in {"published", "canary", "evaluated"}
    [] next = "stable"      -> current \in {"evaluated", "canary"}
    [] next = "rolled_back" -> current # "rolled_back"

\* The map shadows the store.
GetRelease(v) == IF release[v] # "absent" THEN release[v] ELSE stored[v]
GetAgentAsset == IF asset # None THEN asset ELSE storedAsset

\* The store's releases, or the map's if the store cannot be read.
ListReleases(ok) == IF ok THEN stored ELSE release

\* Mutant: the version being rolled back is a candidate.
FallbackIncludesItself(v, releases) ==
  LET stable == {i \in DOMAIN published : releases[published[i]] = "stable"}
  IN  IF stable = {} THEN None ELSE published[Max(stable)]

\* The latest published stable version other than v.
fallbackStableVersion(v, releases) ==
  LET stable == {i \in DOMAIN published :
                   published[i] # v /\ releases[published[i]] = "stable"}
  IN  IF stable = {} THEN None ELSE published[Max(stable)]

isActiveAgentVersion(v) == GetAgentAsset = v \/ default = v

\* The verdict of the release policy.  closed: outside the deployment windows;
\* large: the canary percent is above what is free of approval.
EvaluateReleaseAction(command, status, approved, closed, large) ==
  IF ~approved /\ ((releasePolicy.windows /\ closed) \/ (command = "canary" /\ large)) THEN "ask"
  ELSE IF command = "stable" /\ releasePolicy.canary /\ status # "canary" THEN "deny"
  ELSE IF command = "stable" /\ releasePolicy.approval /\ ~approved THEN "ask"
  ELSE "allow"

\* The version a run without an explicit version is sent to, before canary routing.
Routed ==
  IF GetAgentAsset # None THEN GetAgentAsset
  ELSE IF default # None THEN default ELSE fallbackStableVersion(None, stored)

\* The approval service's check of an approval for a command on a version.
Valid(a, command, v) == approvals[a] = [status |-> "approved", command |-> command, v |-> v]

-----------------------------------------------------------------------------
(* A handler's steps.  StoreCall: the call succeeds, or it fails.          *)

Goto(h, pc) == handler' = [handler EXCEPT ![h].pc = pc]
Return(h)   == handler' = [handler EXCEPT ![h] = Idle]

StoreCall(ok) ==
  IF ok THEN UNCHANGED failures
        ELSE failures < MaxFailures /\ failures' = failures + 1

Arrive(h, locals) ==
  /\ handler[h] = Idle
  /\ handler' = [handler EXCEPT ![h] = locals]

\* agent.package.publish of a validated draft: the duplicate check, the map, the
\* store: the release with its definition (saved), then the draft (ok).
PublishDraft(h, v) ==
  /\ GetRelease(v) = "absent"
  /\ release' = [release EXCEPT ![v] = "published"]
  /\ published' = Append(published, v)
  /\ \E ok, saved \in BOOLEAN :
       /\ ok => saved
       /\ StoreCall(ok)
       /\ stored' = IF saved THEN [stored EXCEPT ![v] = "published"] ELSE stored
       /\ Arrive(h, IF ok THEN Request("register", "publish", v) ELSE Idle)
  /\ UNCHANGED <<evalPass, asset, registered, default, storedAsset, approvals, restarts,
                 verdict, gate, spent>>

\* The definition is put into the registry; the default is left alone.
releaseAndRegisterDraft(h) ==
  /\ handler[h].pc = "register"
  /\ registered' = registered \cup {handler[h].v}
  /\ Return(h)
  /\ UNCHANGED <<release, evalPass, asset, default, store, approvals, failures, restarts,
                 history>>

\* agent.package.canary, stable or rollback arrives, with the id of an approval or
\* without; the release is read for the policy.
packageReleaseAction(h, command, v, a) ==
  /\ GetRelease(v) # "absent"
  /\ a # None => approvals[a] # Unsent
  /\ Arrive(h, [Request("check", command, v) EXCEPT !.approval = a, !.read = GetRelease(v)])
  /\ UNCHANGED <<memory, store, approvals, failures, restarts, history>>

\* activate or restore of a version listed as stable.
activateStableAgentVersion(h, v) ==
  /\ \E ok \in BOOLEAN : StoreCall(ok) /\ ListReleases(ok)[v] = "stable"
  /\ Arrive(h, Request("asset", "activate", v))
  /\ UNCHANGED <<memory, store, approvals, restarts, history>>

\* An evaluation of a version has ended.
evalRun(h, v, passed) ==
  /\ GetRelease(v) # "absent"
  /\ Arrive(h, [Request("mark", "eval", v) EXCEPT !.passed = passed])
  /\ UNCHANGED <<memory, store, approvals, failures, restarts, history>>

\* The command itself begins; approval and policy are done with.
Perform(h) ==
  LET r == handler[h]
      pc == CASE r.command = "canary"   -> "mark"
              [] r.command = "stable"   -> "passed"
              [] r.command = "rollback" -> "active"
  IN handler' = [handler EXCEPT ![h] = Request(pc, r.command, r.v)]

\* The approval is validated, then the policy is asked; it may want an approval.
Check(h) ==
  LET r == handler[h]
      approved == r.approval # None
      valid == approved => Valid(r.approval, r.command, r.v)
  IN
  /\ r.pc = "check"
  /\ \E closed, large \in BOOLEAN :
       LET answer == EvaluateReleaseAction(r.command, r.read, approved, closed, large)
       IN \/ /\ ~valid \/ answer = "deny"
             /\ Return(h) /\ UNCHANGED approvals
          \/ /\ valid /\ answer = "ask"
             /\ \E a \in Approvals :
                  /\ approvals[a] = Unsent
                  /\ approvals' = [approvals EXCEPT ![a] =
                                     [status |-> "pending", command |-> r.command, v |-> r.v]]
             /\ Return(h)
          \/ /\ valid /\ answer = "allow"
             /\ IF approved THEN Goto(h, "consume") ELSE Perform(h)
             /\ UNCHANGED approvals
  /\ UNCHANGED <<memory, store, failures, restarts, history>>

\* A request turned down (percent out of range, no reason for a rollback, a plugin's
\* provider not connected) or ended by a read that fails; the asset is read from the
\* store only when it is not in the map.
Refuse(h) ==
  /\ handler[h].pc \in {"check", "passedStore", "active", "fallback", "asset"}
  /\ handler[h].pc \in {"active", "asset"} => asset = None
  /\ Return(h)
  /\ UNCHANGED <<memory, store, approvals, failures, restarts, history>>

\* Mutant: the approval is not validated again when it is consumed.
ConsumeUnchecked(h) ==
  LET r == handler[h] IN
  /\ r.pc = "consume"
  /\ approvals' = [approvals EXCEPT ![r.approval] = Closed("used")]
  /\ spent' = [spent EXCEPT ![r.approval] = @ + 1]
  /\ Perform(h)
  /\ UNCHANGED <<memory, store, failures, restarts, verdict, gate>>

\* consumeReleaseApproval: validated again and marked used under one lock.
Consume(h) ==
  LET r == handler[h] IN
  /\ r.pc = "consume"
  /\ IF Valid(r.approval, r.command, r.v)
       THEN /\ approvals' = [approvals EXCEPT ![r.approval] = Closed("used")]
            /\ spent' = [spent EXCEPT ![r.approval] = @ + 1]
            /\ Perform(h)
       ELSE Return(h) /\ UNCHANGED <<approvals, spent>>
  /\ UNCHANGED <<memory, store, failures, restarts, verdict, gate>>

\* approval.approve and approval.reject.
Resolve(a, status) ==
  /\ approvals[a].status = "pending"
  /\ approvals' = [approvals EXCEPT ![a] =
                     IF status = "approved" THEN [@ EXCEPT !.status = status]
                     ELSE Closed(status)]
  /\ UNCHANGED <<memory, store, handler, failures, restarts, history>>

-----------------------------------------------------------------------------
(* MarkStable's own check, then markRelease.                               *)

\* Mutant: the evaluation is not looked at.
PassedUnchecked(h) ==
  /\ handler[h].pc = "passed"
  /\ Goto(h, "mark")
  /\ UNCHANGED <<memory, store, approvals, failures, restarts, history>>

\* MarkStable looks for a passed evaluation in the map ...
Passed(h) ==
  /\ handler[h].pc = "passed"
  /\ Goto(h, IF handler[h].v \in evalPass THEN "mark" ELSE "passedStore")
  /\ UNCHANGED <<memory, store, approvals, failures, restarts, history>>

\* ... and failing that for the status "evaluated" in the store.
PassedInStore(h) ==
  /\ handler[h].pc = "passedStore"
  /\ IF stored[handler[h].v] = "evaluated" THEN Goto(h, "mark") ELSE Return(h)
  /\ UNCHANGED <<memory, store, approvals, failures, restarts, history>>

\* A rollback that cannot be marked puts the version it has replaced back.
NotMarked(h) == IF handler[h].fallback # None THEN Goto(h, "undoAsset") ELSE Return(h)

\* markRelease and MarkEvalResult take the release from the map; if it is not there
\* they let go of the lock and read it from the store.
ReadRelease(h) ==
  LET v == handler[h].v IN
  /\ handler[h].pc = "mark"
  /\ release[v] = "absent"
  /\ \E ok \in BOOLEAN :
       /\ StoreCall(ok)
       /\ IF ok /\ stored[v] # "absent"
            THEN handler' = [handler EXCEPT ![h].pc = "relocked", ![h].read = stored[v]]
            ELSE NotMarked(h)
  /\ UNCHANGED <<memory, store, approvals, restarts, history>>

\* The lock is held and the release is at hand: from the map, or as it was read.
Holds(h) ==
  \/ handler[h].pc = "mark" /\ release[handler[h].v] # "absent"
  \/ handler[h].pc = "relocked"

Current(h) == IF handler[h].pc = "mark" THEN release[handler[h].v] ELSE handler[h].read

Target(command) ==
  CASE command = "canary"   -> "canary"
    [] command = "stable"   -> "stable"
    [] command = "rollback" -> "rolled_back"

\* The rest of the command once the release is marked.
Marked(h) ==
  CASE handler[h].command = "canary"   -> Goto(h, "rule")
    [] handler[h].command = "stable"   -> Goto(h, "asset")
    [] handler[h].command = "rollback" -> Return(h)

\* validateReleaseTransition, the map, the store; all under the lock.
markRelease(h) ==
  LET v == handler[h].v
      next == Target(handler[h].command)
  IN
  /\ handler[h].command \in Commands
  /\ Holds(h)
  /\ \/ /\ ~validateReleaseTransition(Current(h), next)
        /\ NotMarked(h)
        /\ UNCHANGED <<release, stored, gate, failures>>
     \/ /\ validateReleaseTransition(Current(h), next)
        /\ release' = [release EXCEPT ![v] = next]
        /\ gate' = IF next = "stable" THEN gate \cup ({verdict[v]} \ {"passed"}) ELSE gate
        /\ \/ /\ stored[v] # "absent"
              /\ stored' = [stored EXCEPT ![v] = next]
              /\ Marked(h)
              /\ UNCHANGED failures
           \/ /\ stored[v] # "absent" => failures < MaxFailures
              /\ failures' = IF stored[v] # "absent" THEN failures + 1 ELSE failures
              /\ NotMarked(h)
              /\ UNCHANGED stored
  /\ UNCHANGED <<evalPass, asset, registered, default, published, storedAsset, approvals,
                 restarts, verdict, spent>>

\* MarkEvalResult: a stable release keeps its status, a failed evaluation changes
\* none.  The result and the status are written to the store one after the other;
\* only the status is read again.
MarkEvalResult(h) ==
  LET v == handler[h].v
      passed == handler[h].passed
      changes == passed /\ Current(h) # "stable"
  IN
  /\ handler[h].command = "eval"
  /\ Holds(h)
  /\ Return(h)
  /\ \/ /\ changes /\ ~validateReleaseTransition(Current(h), "evaluated")
        /\ UNCHANGED <<release, stored, evalPass, verdict, failures>>
     \/ /\ changes => validateReleaseTransition(Current(h), "evaluated")
        /\ release' = IF changes THEN [release EXCEPT ![v] = "evaluated"] ELSE release
        /\ evalPass' = IF passed THEN evalPass \cup {v} ELSE evalPass \ {v}
        /\ verdict' = [verdict EXCEPT ![v] =
                         IF passed THEN "passed" ELSE IF @ = "never" THEN @ ELSE "stale"]
        /\ \E ok \in BOOLEAN :
             /\ StoreCall(ok)
             /\ stored' = IF ok /\ changes /\ stored[v] # "absent"
                            THEN [stored EXCEPT ![v] = "evaluated"] ELSE stored
  /\ UNCHANGED <<asset, registered, default, published, storedAsset, approvals, restarts,
                 gate, spent>>

\* MarkCanaryWithRule writes the release it got from markRelease again, with the
\* percent and the scope: to the map under the lock ...
MarkCanaryWithRule(h) ==
  /\ handler[h].pc = "rule"
  /\ release' = [release EXCEPT ![handler[h].v] = "canary"]
  /\ Goto(h, "ruleStore")
  /\ UNCHANGED <<evalPass, asset, registered, default, store, approvals, failures,
                 restarts, history>>

\* ... and to the store after it.
UpdateReleaseCanary(h) ==
  /\ handler[h].pc = "ruleStore"
  /\ Return(h)
  /\ \E ok \in BOOLEAN :
       /\ StoreCall(ok)
       /\ stored' = IF ok THEN [stored EXCEPT ![handler[h].v] = "canary"] ELSE stored
  /\ UNCHANGED <<memory, published, storedAsset, approvals, restarts, history>>

-----------------------------------------------------------------------------
(* The active version: agent asset and registry.                           *)

\* Is the version that is to be rolled back the active one?
RollbackActive(h) ==
  /\ handler[h].pc = "active"
  /\ Goto(h, IF isActiveAgentVersion(handler[h].v) THEN "fallback" ELSE "mark")
  /\ UNCHANGED <<memory, store, approvals, failures, restarts, history>>

\* If so another stable version that can be loaded takes its place, or the command
\* fails.
Fallback(h) ==
  /\ handler[h].pc = "fallback"
  /\ \E ok \in BOOLEAN :
       LET fallback == fallbackStableVersion(handler[h].v, ListReleases(ok)) IN
       /\ StoreCall(ok)
       /\ IF fallback # None /\ fallback \in registered
            THEN handler' = [handler EXCEPT ![h].pc = "asset", ![h].fallback = fallback]
            ELSE Return(h)
  /\ UNCHANGED <<memory, store, approvals, restarts, history>>

\* The version a command makes active.
Activated(r) == IF r.pc \in {"asset", "assetStore", "default"} /\ r.command = "rollback"
                  THEN r.fallback ELSE r.v

\* EnsureAgentAssetVersionForTenant saves the asset, created if need be, in the map ...
EnsureAgentAssetVersion(h) ==
  /\ handler[h].pc \in {"asset", "undoAsset"}
  /\ asset' = Activated(handler[h])
  /\ Goto(h, IF handler[h].pc = "asset" THEN "assetStore" ELSE "undoAssetStore")
  /\ UNCHANGED <<release, evalPass, registered, default, store, approvals, failures,
                 restarts, history>>

\* ... and in the store.  An error ends the command, except while it undoes.
SaveAgentAsset(h) ==
  /\ handler[h].pc \in {"assetStore", "undoAssetStore"}
  /\ \E ok \in BOOLEAN :
       /\ StoreCall(ok)
       /\ storedAsset' = IF ok THEN Activated(handler[h]) ELSE storedAsset
       /\ IF handler[h].pc = "undoAssetStore" THEN Goto(h, "undoDefault")
          ELSE IF ok THEN Goto(h, "default") ELSE Return(h)
  /\ UNCHANGED <<memory, stored, published, approvals, restarts, history>>

\* SetDefaultForTenant fails for a version without a definition; a rollback's fallback
\* has one, and the rollback goes on to mark the release.
SetDefault(h) ==
  LET v == Activated(handler[h]) IN
  /\ handler[h].pc \in {"default", "undoDefault"}
  /\ default' = IF v \in registered THEN v ELSE default
  /\ IF handler[h].pc = "default" /\ handler[h].command = "rollback"
       THEN Goto(h, "mark") ELSE Return(h)
  /\ UNCHANGED <<release, evalPass, asset, registered, store, approvals, failures,
                 restarts, history>>

\* The process ends, at any point, and starts again: maps and approvals are empty,
\* the registry is filled from the stored definitions and assets.
Restart ==
  /\ restarts < MaxRestarts
  /\ restarts'   = restarts + 1
  /\ release'    = [v \in Versions |-> "absent"]
  /\ evalPass'   = {}
  /\ asset'      = None
  /\ registered' = {v \in Versions : stored[v] # "absent"}
  /\ default'    = IF storedAsset \in registered' THEN storedAsset ELSE None
  /\ approvals'  = [a \in Approvals |->
                      IF approvals[a] = Unsent THEN Unsent
                      ELSE Closed("lost")]
  /\ handler'    = [h \in Handlers |-> Idle]
  /\ UNCHANGED <<store, failures, history>>

Step(h) ==
  \/ releaseAndRegisterDraft(h) \/ Check(h) \/ Refuse(h) \/ Consume(h)
  \/ Passed(h) \/ PassedInStore(h) \/ ReadRelease(h) \/ markRelease(h) \/ MarkEvalResult(h)
  \/ MarkCanaryWithRule(h) \/ UpdateReleaseCanary(h)
  \/ RollbackActive(h) \/ Fallback(h)
  \/ EnsureAgentAssetVersion(h) \/ SaveAgentAsset(h) \/ SetDefault(h)

Next ==
  \/ \E h \in Handlers, v \in Versions :
       \/ PublishDraft(h, v)
       \/ activateStableAgentVersion(h, v)
       \/ \E passed \in BOOLEAN : evalRun(h, v, passed)
       \/ \E command \in Commands, a \in Approvals \cup {None} :
            packageReleaseAction(h, command, v, a)
  \/ \E h \in Handlers : Step(h)
  \/ \E a \in Approvals, status \in {"approved", "rejected"} : Resolve(a, status)
  \/ Restart

Spec == Init /\ [][Next /\ UNCHANGED releasePolicy]_vars

-----------------------------------------------------------------------------
ApprovalRows ==
  [status : {"unsent", "pending", "approved", "rejected", "used", "lost"},
   command : Commands \cup {"none"}, v : Versions \cup {None}]

HandlerPCs ==
  {"idle", "register", "check", "consume", "passed", "passedStore", "mark", "relocked", "rule",
   "ruleStore", "active", "fallback", "asset", "assetStore", "default", "undoAsset",
   "undoAssetStore", "undoDefault"}

HandlerStates ==
  [pc : HandlerPCs, command : Commands \cup {"none", "publish", "activate", "eval"},
   v : Versions \cup {None}, approval : Approvals \cup {None}, passed : BOOLEAN,
   read : Statuses \cup {"absent"}, fallback : Versions \cup {None}]

\* Types of all variables.
TypeOK ==
  /\ release \in [Versions -> Statuses \cup {"absent"}]
  /\ stored \in [Versions -> Statuses \cup {"absent"}]
  /\ evalPass \subseteq Versions
  /\ published \in Seq(Versions)
  /\ {asset, storedAsset, default} \subseteq Versions \cup {None}
  /\ registered \subseteq Versions
  /\ approvals \in [Approvals -> ApprovalRows]
  /\ handler \in [Handlers -> HandlerStates]
  /\ releasePolicy \in ReleasePolicies
  /\ failures \in 0..MaxFailures
  /\ restarts \in 0..MaxRestarts
  /\ verdict \in [Versions -> {"never", "passed", "stale"}]
  /\ gate \subseteq {"never", "stale"}
  /\ spent \in [Approvals -> Nat]

\* An approval lets one release command pass, whatever requests present it at once:
\* consumeReleaseApproval validates it again under the lock that marks it used.
OneCommandPerApproval == \A a \in Approvals : spent[a] <= 1

\* A version becomes stable only if an evaluation of it has passed, also when the
\* process was restarted in between and the map of results is lost (MarkStable).
StableWasEvaluated == "never" \notin gate

\* A version becomes stable only if its latest evaluation passed.
EvalGatesStable == gate = {}

\* New runs of the agent are sent to a version ensureRunnableAgentVersion lets run,
\* at every point of a stable, rollback or activate command, after its failure in the
\* store and after a restart.
ActiveRunnable == Routed # None => stored[Routed] \in {"canary", "stable"}
=============================================================================
