--------------------------- MODULE PolicyRelease ---------------------------
(***************************************************************************)
(* The policy set of one tenant from draft to rollback: the policy manager *)
(* (internal/policy/engine/engine.go), the commands that drive it          *)
(* (internal/server/commands_policy.go, commands_eval.go) over the policy  *)
(* tables (internal/storage/postgres), and the policy a run is pinned to   *)
(* (internal/runtime/kernel/coordinator.go versionSnapshot).               *)
(*                                                                         *)
(* A draft and a version are read, checked and written back in separate    *)
(* store calls, without a version number or a lock.  A version row belongs *)
(* to a version name: publishing another draft of the same name overwrites *)
(* it and keeps its id, so the name stands for the id.                     *)
(***************************************************************************)
EXTENDS Naturals, FiniteSets

CONSTANTS
  PolicyCallers,     \* requests handled at the same time
  PolicyDrafts,      \* ids of drafts, in the order of their creation
  PolicyVersions,    \* version names: v1, v2, ...
  PolicyBodies,      \* what a policy says, with its release rules
  PolicyApprovals,   \* approvals that can be requested (bound, model checking only)
  PolicyRuns,        \* runs that start (bound, model checking only)
  InitialPolicies,   \* tables found at the start
  MaxPolicyRequests, \* requests (bound, model checking only)
  MaxPolicyFaults    \* failing store calls (bound, model checking only)

NoPolicy == [status |-> "absent"]

PolicyDraftRows == [status : {"draft", "validated", "evaluated", "reviewed", "published"},
                    version : PolicyVersions, body : PolicyBodies]

PolicyRows == [status : {"published", "evaluated", "canary", "stable", "deprecated", "rolled_back"},
               body : PolicyBodies, age : Nat]

\* The statuses a version has only after an evaluation.
ClearedStatuses == {"evaluated", "canary", "stable", "deprecated"}

\* Tables that earlier commands have left.
SoundTables(t) ==
  /\ t.drafts \in [PolicyDrafts -> {NoPolicy} \cup PolicyDraftRows]
  /\ t.rows \in [PolicyVersions -> {NoPolicy} \cup PolicyRows]
  /\ \A v \in PolicyVersions :
       t.rows[v].status \in ClearedStatuses => <<v, t.rows[v].body>> \in t.passed
  /\ t.inForce # NoPolicy => <<t.inForce.version, t.inForce.body>> \in t.passed

ASSUME PolicyReleaseAssumption ==
  /\ PolicyDrafts \subseteq Nat /\ PolicyVersions \subseteq Nat
  /\ \A b \in PolicyBodies : {b.windows, b.canary, b.approval, b.reason} \subseteq BOOLEAN
  /\ MaxPolicyRequests \in Nat /\ MaxPolicyFaults \in Nat
  /\ \A t \in InitialPolicies : SoundTables(t)

VARIABLES
  policyDraft,    \* policyDraft[d]: status, version, body
  policyRow,      \* policyRow[v]: status, body and age of the version
  inForce,        \* the row of policy_sets: version and body
  policyApproval, \* policyApproval[a]: status, and the command and version it is for
  policyCaller,   \* policyCaller[c]: locals of the request c handles
  policyRun,      \* policyRun[r]: the version a run is pinned to and what it said then
  policyRequests, policyFaults,
  passed,         \* history: versions and bodies an evaluation has passed
  crossed         \* history: versions and bodies written inside a command on them

policyTables == <<policyDraft, policyRow, inForce>>
policyVars == <<policyTables, policyApproval, policyCaller, policyRun, policyRequests,
                policyFaults, passed, crossed>>

\* DefaultPolicySet under the tenant's name: a rollback needs a reason, nothing else is
\* asked for.  Its version is v1.
FallbackPolicySet ==
  [version |-> 1,
   body |-> [name |-> "default", windows |-> FALSE, canary |-> FALSE, approval |-> FALSE, reason |-> TRUE]]

PolicyIdle == [pc |-> "idle"]

PolicyInit ==
  /\ \E tables \in InitialPolicies :
       /\ policyDraft = tables.drafts
       /\ policyRow   = tables.rows
       /\ inForce     = tables.inForce
       /\ passed      = tables.passed
  /\ policyApproval = [a \in PolicyApprovals |-> NoPolicy]
  /\ policyCaller   = [c \in PolicyCallers |-> PolicyIdle]
  /\ policyRun      = [r \in PolicyRuns |-> NoPolicy]
  /\ policyRequests = 0
  /\ policyFaults   = 0
  /\ crossed        = {}

-----------------------------------------------------------------------------
(* Store calls.                                                            *)

PolicyGoto(c, locals) == policyCaller' = [policyCaller EXCEPT ![c] = locals]
PolicyReturn(c)       == PolicyGoto(c, PolicyIdle)

\* A request arrives.
PolicyArrive(c, locals) ==
  /\ policyCaller[c] = PolicyIdle
  /\ policyRequests < MaxPolicyRequests
  /\ policyRequests' = policyRequests + 1
  /\ PolicyGoto(c, locals)

PolicyFault == policyFaults < MaxPolicyFaults /\ policyFaults' = policyFaults + 1

\* LoadPolicySet and the coordinator's policySet, when the row can be read.
LoadPolicySet == IF inForce = NoPolicy THEN FallbackPolicySet ELSE inForce

Put(v, body) == inForce' = [version |-> v, body |-> body]

\* Mutant: a version that is published again keeps the status it had.
UpsertKeepsStatus(v, row) ==
  IF policyRow[v] = NoPolicy THEN row
  ELSE [row EXCEPT !.age = policyRow[v].age,
                   !.status = IF row.status = "published" THEN policyRow[v].status ELSE @]

\* The upsert of SaveVersion: status and body are replaced, created_at is kept.
Upsert(v, row) ==
  IF policyRow[v] = NoPolicy THEN row ELSE [row EXCEPT !.age = policyRow[v].age]

StableBut(v) == {w \in PolicyVersions \ {v} : policyRow[w].status = "stable"}

\* The rows of SaveVersion(stable): the other versions it has found stable are deprecated
\* unless they have changed meanwhile.
Promoted(v, row, found) ==
  [w \in PolicyVersions |->
     IF w = v THEN Upsert(v, row)
     ELSE IF w \in found /\ policyRow[w].status = "stable"
     THEN [policyRow[w] EXCEPT !.status = "deprecated"]
     ELSE policyRow[w]]

-----------------------------------------------------------------------------
(* Drafts.                                                                 *)

\* A name for a draft that comes without one: the rows are counted, v1 if they cannot be.
nextPolicyVersion(ok) ==
  IF ok THEN Cardinality({v \in PolicyVersions : policyRow[v] # NoPolicy}) + 1 ELSE 1

\* policy.draft.create.  given: the version of the request, 0 without one.
CreateDraft(c, d, body) ==
  /\ policyDraft[d] = NoPolicy
  /\ \A e \in PolicyDrafts : e < d => policyDraft[e] # NoPolicy
  /\ PolicyArrive(c, PolicyIdle)
  /\ \E given \in PolicyVersions \cup {0}, ok \in BOOLEAN :
       LET v == IF given # 0 THEN given ELSE nextPolicyVersion(ok) IN
       /\ v \in PolicyVersions
       /\ IF ok THEN UNCHANGED policyFaults ELSE given = 0 /\ PolicyFault
       /\ policyDraft' = [policyDraft EXCEPT ![d] = [status |-> "draft", version |-> v, body |-> body]]
  /\ UNCHANGED <<policyRow, inForce, policyApproval, policyRun, passed, crossed>>

DraftRequest(pc, d, draft) == [pc |-> pc, d |-> d, draft |-> draft]

\* policy.update: the draft is read; body and version are replaced and it is a draft
\* again, whatever it was.
UpdateDraft(c, d, body) ==
  /\ policyDraft[d] # NoPolicy
  /\ \E v \in {policyDraft[d].version} \cup PolicyVersions :
       PolicyArrive(c, DraftRequest("saveDraft", d,
                                    [status |-> "draft", version |-> v, body |-> body]))
  /\ UNCHANGED <<policyTables, policyApproval, policyRun, policyFaults, passed, crossed>>

\* policy.draft.validate reads the draft and writes it back; policy.review reads it,
\* looks at its status, and reads it again (patchDraft).
ValidateDraft(c, d) ==
  /\ policyDraft[d] # NoPolicy
  /\ PolicyArrive(c, DraftRequest("saveDraft", d, [policyDraft[d] EXCEPT !.status = "validated"]))
  /\ UNCHANGED <<policyTables, policyApproval, policyRun, policyFaults, passed, crossed>>

MarkReviewed(c, d) ==
  /\ policyDraft[d].status \in {"validated", "evaluated"}
  /\ PolicyArrive(c, DraftRequest("patchDraft", d, NoPolicy))
  /\ UNCHANGED <<policyTables, policyApproval, policyRun, policyFaults, passed, crossed>>

patchDraft(c) ==
  LET d == policyCaller[c].d IN
  /\ policyCaller[c].pc = "patchDraft"
  /\ PolicyGoto(c, DraftRequest("saveDraft", d, [policyDraft[d] EXCEPT !.status = "reviewed"]))
  /\ UNCHANGED <<policyTables, policyApproval, policyRun, policyRequests, policyFaults, passed, crossed>>

SaveDraft(c) ==
  LET r == policyCaller[c] IN
  /\ r.pc = "saveDraft"
  /\ policyDraft' = [policyDraft EXCEPT ![r.d] = r.draft]
  /\ PolicyReturn(c)
  /\ UNCHANGED <<policyRow, inForce, policyApproval, policyRun, policyRequests, policyFaults,
                 passed, crossed>>

\* policy.publish: the draft is read, saved as a version, and saved as published.
PublishDraft(c, d) ==
  /\ policyDraft[d].status \in {"validated", "evaluated", "reviewed"}
  /\ PolicyArrive(c, DraftRequest("publish", d, policyDraft[d]))
  /\ UNCHANGED <<policyTables, policyApproval, policyRun, policyFaults, passed, crossed>>

\* A command between what it goes by, a status it has checked or an evaluation, and the
\* read of the row it will write.
BetweenReads(v) ==
  \E c \in PolicyCallers :
    \/ policyCaller[c].pc = "mark" /\ policyCaller[c].v = v /\ policyCaller[c].command = "canary"
    \/ policyCaller[c].pc \in {"get", "markEval"} /\ policyCaller[c].v = v

\* The body written to the row of v, if a command on v will read it and not look at it.
Crossing(v, body) == IF BetweenReads(v) THEN {<<v, body>>} ELSE {}

SavePublished(c) ==
  LET r == policyCaller[c]
      v == r.draft.version
  IN
  /\ r.pc = "publish"
  /\ policyRow' = [policyRow EXCEPT ![v] =
                     Upsert(v, [status |-> "published", body |-> r.draft.body, age |-> r.d])]
  /\ crossed' = crossed \cup Crossing(v, r.draft.body)
  /\ PolicyGoto(c, [r EXCEPT !.pc = "saveDraft", !.draft.status = "published"])
  /\ UNCHANGED <<policyDraft, inForce, policyApproval, policyRun, policyRequests, policyFaults, passed>>

-----------------------------------------------------------------------------
(* Versions.  A handler's locals: the command, its version, approval and   *)
(* reason, the row it has read or is about to write, the stable versions   *)
(* found; and, for the properties only, the body the version had when it   *)
(* was evaluated.                                                          *)

VersionRequest(pc, command, v) ==
  [pc |-> pc, command |-> command, v |-> v, approval |-> "none", reason |-> TRUE,
   row |-> NoPolicy, found |-> {}, evaluated |-> NoPolicy]

Body(v) == IF policyRow[v] = NoPolicy THEN NoPolicy ELSE policyRow[v].body

\* eval.run or eval.suite.run for a version: the cases are run and their result is saved.
\* Nothing is read of the version, or asked of it, before.
EvalRun(c, v) ==
  /\ PolicyArrive(c, [VersionRequest("markEval", "eval", v) EXCEPT !.evaluated = Body(v)])
  /\ UNCHANGED <<policyTables, policyApproval, policyRun, policyFaults, passed, crossed>>

\* Its end: the version is read; a pass is written unless the version is stable, a
\* failure is not.
MarkEvalResult(c) ==
  LET r   == policyCaller[c]
      row == policyRow[r.v]
  IN
  /\ r.pc = "markEval"
  /\ \/ PolicyReturn(c)
     \/ /\ row # NoPolicy /\ row.status # "stable"
        /\ PolicyGoto(c, [r EXCEPT !.pc = "save", !.row = [row EXCEPT !.status = "evaluated"]])
  /\ UNCHANGED <<policyTables, policyApproval, policyRun, policyRequests, policyFaults, passed, crossed>>

\* policy.canary, stable or rollback: the version is read.
policyReleaseAction(c, command, v, a) ==
  /\ policyRow[v] # NoPolicy
  /\ a # "none" => policyApproval[a] # NoPolicy
  /\ \E reason \in BOOLEAN :
       /\ ~reason => command = "rollback"
       /\ PolicyArrive(c, [VersionRequest("check", command, v) EXCEPT
                             !.approval = a, !.reason = reason, !.row = policyRow[v]])
  /\ UNCHANGED <<policyTables, policyApproval, policyRun, policyFaults, passed, crossed>>

\* The verdict of the release rules in force.  closed: outside the deployment windows;
\* percent: the canary percent against the rules.
EvaluateReleaseAction(rules, command, status, approved, reason, closed, percent) ==
  IF rules.windows /\ closed /\ ~approved THEN "ask"
  ELSE IF \/ command = "canary" /\ percent = "outside"
          \/ command = "stable" /\ rules.canary /\ status # "canary"
          \/ command = "rollback" /\ rules.reason /\ ~reason
  THEN "deny"
  ELSE IF \/ command = "canary" /\ percent = "large" /\ ~approved
          \/ command = "stable" /\ rules.approval /\ ~approved
  THEN "ask"
  ELSE "allow"

ApprovedFor(a, command, v) == policyApproval[a] = [status |-> "approved", command |-> command, v |-> v]

\* The policy in force (the fallback if it cannot be read) and the approval decide; an
\* approval is requested when one is missing.
Evaluate(c) ==
  LET r == policyCaller[c]
      verdict(rules, closed, percent) ==
        EvaluateReleaseAction(rules, r.command, r.row.status, r.approval # "none", r.reason,
                              closed, percent)
  IN
  /\ r.pc = "check"
  /\ \E rules \in {LoadPolicySet.body}
                    \cup (IF policyFaults < MaxPolicyFaults THEN {FallbackPolicySet.body} ELSE {}),
        closed \in BOOLEAN, percent \in {"free", "large", "outside"} :
       /\ IF rules = LoadPolicySet.body THEN UNCHANGED policyFaults ELSE PolicyFault
       /\ IF r.approval # "none" /\ ~ApprovedFor(r.approval, r.command, r.v)
          THEN PolicyReturn(c) /\ UNCHANGED policyApproval
          ELSE \/ /\ verdict(rules, closed, percent) = "deny"
                  /\ PolicyReturn(c) /\ UNCHANGED policyApproval
               \/ /\ verdict(rules, closed, percent) = "ask"
                  /\ \E a \in PolicyApprovals :
                       /\ policyApproval[a] = NoPolicy
                       /\ policyApproval' = [policyApproval EXCEPT ![a] =
                            [status |-> "pending", command |-> r.command, v |-> r.v]]
                  /\ PolicyReturn(c)
               \/ /\ verdict(rules, closed, percent) = "allow"
                  /\ PolicyGoto(c, [r EXCEPT !.pc = IF r.approval = "none" THEN "perform" ELSE "consume"])
                  /\ UNCHANGED policyApproval
  /\ UNCHANGED <<policyTables, policyRun, policyRequests, passed, crossed>>

\* approval.approve or reject.
ResolvePolicyApproval(a, status) ==
  /\ policyApproval[a].status = "pending"
  /\ policyApproval' = [policyApproval EXCEPT ![a].status = status]
  /\ UNCHANGED <<policyTables, policyCaller, policyRun, policyRequests, policyFaults, passed, crossed>>

\* consumeReleaseApproval: validated again and marked used.
ConsumePolicyApproval(c) ==
  LET r == policyCaller[c] IN
  /\ r.pc = "consume"
  /\ IF ApprovedFor(r.approval, r.command, r.v)
     THEN /\ policyApproval' = [policyApproval EXCEPT ![r.approval].status = "used"]
          /\ PolicyGoto(c, [r EXCEPT !.pc = "perform"])
     ELSE PolicyReturn(c) /\ UNCHANGED policyApproval
  /\ UNCHANGED <<policyTables, policyRun, policyRequests, policyFaults, passed, crossed>>

\* MarkCanary and MarkStable look at the status again, Rollback at its reason.
\* MarkStable writes the row it has read, the others read it once more.
Perform(c) ==
  LET r   == policyCaller[c]
      row == policyRow[r.v]
  IN
  /\ r.pc = "perform"
  /\ CASE r.command = "canary" /\ row.status = "evaluated" -> PolicyGoto(c, [r EXCEPT !.pc = "mark"])
       [] r.command = "stable" /\ row.status \in {"evaluated", "canary"} ->
            PolicyGoto(c, [r EXCEPT !.pc = "save", !.row = [row EXCEPT !.status = "stable"]])
       [] r.command = "rollback" /\ r.reason -> PolicyGoto(c, [r EXCEPT !.pc = "mark"])
       [] OTHER -> PolicyReturn(c)
  /\ UNCHANGED <<policyTables, policyApproval, policyRun, policyRequests, policyFaults, passed, crossed>>

markVersion(c) ==
  LET r == policyCaller[c] IN
  /\ r.pc = "mark"
  /\ PolicyGoto(c, [r EXCEPT !.pc = "save",
       !.row = [policyRow[r.v] EXCEPT !.status = IF r.command = "canary" THEN "canary" ELSE "rolled_back"]])
  /\ UNCHANGED <<policyTables, policyApproval, policyRun, policyRequests, policyFaults, passed, crossed>>

\* SaveVersion.  Its transaction finds the other stable versions before it commits.  A
\* rollback writes back what it has read, which may be older than what it overwrites.
SaveVersion(c) ==
  LET r == policyCaller[c] IN
  /\ r.pc = "save"
  /\ IF r.row.status = "stable"
     THEN /\ PolicyGoto(c, [r EXCEPT !.pc = "commit", !.found = StableBut(r.v)])
          /\ UNCHANGED <<policyRow, passed, crossed>>
     ELSE /\ policyRow' = [policyRow EXCEPT ![r.v] = Upsert(r.v, r.row)]
          /\ passed' = IF r.command = "eval" THEN passed \cup {<<r.v, r.evaluated>>} ELSE passed
          /\ IF r.command = "rollback"
             THEN /\ PolicyGoto(c, [r EXCEPT !.pc = "list", !.row = NoPolicy])
                  /\ crossed' = crossed \cup Crossing(r.v, r.row.body)
             ELSE PolicyReturn(c) /\ UNCHANGED crossed
  /\ UNCHANGED <<policyDraft, inForce, policyApproval, policyRun, policyRequests, policyFaults>>

\* The commit puts the policy in force; the caller puts it in force once more.
CommitStable(c) ==
  LET r == policyCaller[c] IN
  /\ r.pc = "commit"
  /\ policyRow' = Promoted(r.v, r.row, r.found)
  /\ Put(r.v, r.row.body)
  /\ PolicyGoto(c, [r EXCEPT !.pc = "put"])
  /\ UNCHANGED <<policyDraft, policyApproval, policyRun, policyRequests, policyFaults, passed, crossed>>

PutAgain(c) ==
  LET r == policyCaller[c] IN
  /\ r.pc = "put"
  /\ Put(r.v, r.row.body)
  /\ PolicyReturn(c)
  /\ UNCHANGED <<policyDraft, policyRow, policyApproval, policyRun, policyRequests, policyFaults,
                 passed, crossed>>

rollbackCandidateRank(status) ==
  CASE status = "stable" -> 3 [] status = "canary" -> 2 [] status = "evaluated" -> 1 [] OTHER -> 0

\* The candidates of the highest rank, the youngest of them.
Fallbacks(v) ==
  LET rank(w) == rollbackCandidateRank(policyRow[w].status)
      candidates == {w \in PolicyVersions \ {v} : rank(w) > 0}
      better(w, x) == rank(w) > rank(x) \/ (rank(w) = rank(x) /\ policyRow[w].age > policyRow[x].age)
  IN  {w \in candidates : \A x \in candidates : ~better(x, w)}

\* Rollback goes on: the versions are listed, the fallback is read and made stable.
rollbackFallback(c) ==
  LET r == policyCaller[c] IN
  /\ r.pc = "list"
  /\ IF Fallbacks(r.v) = {} THEN PolicyReturn(c)
     ELSE \E w \in Fallbacks(r.v) : PolicyGoto(c, [r EXCEPT !.pc = "get", !.v = w])
  /\ UNCHANGED <<policyTables, policyApproval, policyRun, policyRequests, policyFaults, passed, crossed>>

GetFallback(c) ==
  LET r == policyCaller[c] IN
  /\ r.pc = "get"
  /\ PolicyGoto(c, [r EXCEPT !.pc = "save", !.row = [policyRow[r.v] EXCEPT !.status = "stable"]])
  /\ UNCHANGED <<policyTables, policyApproval, policyRun, policyRequests, policyFaults, passed, crossed>>

\* A store call fails, or the request is cancelled: the handler returns.
PolicyCallFails(c) ==
  /\ policyCaller[c] # PolicyIdle
  /\ PolicyFault
  /\ PolicyReturn(c)
  /\ UNCHANGED <<policyTables, policyApproval, policyRun, policyRequests, passed, crossed>>

-----------------------------------------------------------------------------
(* Runs.                                                                   *)

\* versionSnapshot reads the policy in force; currentPolicyVersionID then looks for the
\* stable version of its name.
StartRun(r) ==
  /\ policyRun[r] = NoPolicy
  /\ policyRun' = [policyRun EXCEPT ![r] = [status |-> "started", version |-> LoadPolicySet.version]]
  /\ UNCHANGED <<policyTables, policyApproval, policyCaller, policyRequests, policyFaults, passed, crossed>>

currentPolicyVersionID(r) ==
  LET v == policyRun[r].version IN
  /\ policyRun[r].status = "started"
  /\ policyRun' = [policyRun EXCEPT ![r] =
       IF policyRow[v].status = "stable"
       THEN [status |-> "pinned", version |-> v, body |-> policyRow[v].body]
       ELSE [status |-> "unpinned"]]
  /\ UNCHANGED <<policyTables, policyApproval, policyCaller, policyRequests, policyFaults, passed, crossed>>

\* What the next step of a pinned run goes by.
policySetForRun(r) == policyRow[policyRun[r].version].body

-----------------------------------------------------------------------------
PolicyStep(c) ==
  \/ patchDraft(c) \/ SaveDraft(c) \/ SavePublished(c)
  \/ MarkEvalResult(c) \/ Evaluate(c) \/ ConsumePolicyApproval(c) \/ Perform(c) \/ markVersion(c)
  \/ SaveVersion(c) \/ CommitStable(c) \/ PutAgain(c) \/ rollbackFallback(c) \/ GetFallback(c)
  \/ PolicyCallFails(c)

PolicyNext ==
  \/ \E c \in PolicyCallers, d \in PolicyDrafts :
       \/ \E body \in PolicyBodies : CreateDraft(c, d, body) \/ UpdateDraft(c, d, body)
       \/ ValidateDraft(c, d) \/ MarkReviewed(c, d) \/ PublishDraft(c, d)
  \/ \E c \in PolicyCallers, v \in PolicyVersions :
       \/ EvalRun(c, v)
       \/ \E command \in {"canary", "stable", "rollback"}, a \in PolicyApprovals \cup {"none"} :
            policyReleaseAction(c, command, v, a)
  \/ \E c \in PolicyCallers : PolicyStep(c)
  \/ \E a \in PolicyApprovals, status \in {"approved", "rejected"} : ResolvePolicyApproval(a, status)
  \/ \E r \in PolicyRuns : StartRun(r) \/ currentPolicyVersionID(r)

PolicySpec == PolicyInit /\ [][PolicyNext]_policyVars

-----------------------------------------------------------------------------
(***************************************************************************)
(* The policy in force says what an evaluation has passed: no draft gets   *)
(* into force through a version name that is published again, a rollback,  *)
(* a late write or a failed one (engine.go MarkStable, Rollback).  The     *)
(* exception is a body that is published, or written back by a rollback,   *)
(* where a command on the version will read it without looking: between    *)
(* an evaluation and the read that marks the version evaluated, and        *)
(* between the two reads of a canary or rollback.                          *)
(***************************************************************************)
InForceWasEvaluated ==
  inForce # NoPolicy => <<inForce.version, inForce.body>> \in passed \cup crossed

(***************************************************************************)
(* A run goes on with the policy it was pinned to after a newer policy has *)
(* become stable (coordinator.go policySetForRun).                         *)
(***************************************************************************)
PinnedPolicyKept ==
  \A r \in PolicyRuns :
    policyRun[r].status = "pinned" /\ inForce.body # policyRun[r].body
      => policySetForRun(r) = policyRun[r].body
=============================================================================
