------------------------- MODULE GovernanceProcess -------------------------
(***************************************************************************)
(* Governance processes (internal/governance/process, its stores and the    *)
(* handlers of the API): a template of gates, one run made from it, the     *)
(* reviews of its gates, and the conflicts escalated from them.  No call    *)
(* holds a lock over a request, and no row carries a version: requests      *)
(* interleave between any two calls of the store, and write back what they  *)
(* read.                                                                    *)
(***************************************************************************)
EXTENDS Integers, FiniteSets, Sequences

CONSTANTS
  GovCallers,      \* requests handled at the same time
  GateDefinitions, \* lists of gate definitions that requests give
  InitialGates,    \* gate rows of the run that may exist at first, none decided
  ReviewInputs,    \* the reviews that callers submit
  Arbitrations,    \* the decisions that arbitrators give
  Conflicts,       \* ids of conflicts
  MaxGovRequests   \* requests in all (bound, model checking only)

VARIABLES
  govTemplate,   \* governance_process_templates: the gate lists on record
  govRun,        \* governance_process_runs: the status of the run
  gates,         \* governance_gate_runs of the run, by gate id
  reviews,       \* governance_reviews of the run, in the order they were saved
  conflicts,     \* governance_conflicts, by id
  govCaller,     \* govCaller[c]: where the request is, and its locals
  govRequests,   \* requests received so far
  wasTerminal    \* history: gates some row of which needed nothing more

govStore == <<govTemplate, govRun, gates, reviews, conflicts, wasTerminal>>
govVars  == <<govStore, govCaller, govRequests>>

Modes     == {"none", "single", "multi"}
Consensus == {"any", "majority", "all"}
Escalations == {"none", "orchestrator"}
Decisions == {"approve", "reject", "revise", "abstain"}
GateStatuses ==
  {"pending", "open", "passed", "rejected", "escalation_pending", "arbitrated", "skipped"}
GovIdle == [pc |-> "idle"]

\* A definition as requests give it: an id of 0, "" and 0 reviewers are left out.
Definitions == [id : Nat, mode : Modes \cup {"", "unknown"}, policy : Consensus \cup {""},
                escalation : Escalations \cup {""}, required : Nat, min : Nat]

GateRuns ==
  [id : Nat, status : GateStatuses, mode : Modes, policy : Consensus, escalation : Escalations,
   required : Nat, min : Nat, decision : Decisions \cup {""}]

ReviewRows ==
  [gate : Nat, reviewer : {input.reviewer : input \in ReviewInputs},
   type : {"agent"} \cup {input.type : input \in ReviewInputs}, decision : Decisions]

ASSUME GovernanceAssumption ==
  /\ GateDefinitions \subseteq Seq(Definitions)
  /\ \A list \in InitialGates :
       /\ list \in [DOMAIN list -> GateRuns]
       /\ \A g \in DOMAIN list : list[g].id = g /\ list[g].status \in {"pending", "open"}
  /\ \A input \in ReviewInputs : input.decision \in Decisions \cup {"unknown"}
  /\ Arbitrations \subseteq Decisions \cup {"unknown"}
  /\ MaxGovRequests \in Nat

-----------------------------------------------------------------------------
(* Gate definitions and consensus, without state.                          *)

validateReviewMode(mode) == mode \in Modes
validateReviewDecision(decision) == decision \in Decisions

defaultRequiredReviewers(mode) ==
  IF mode = "single" THEN 1 ELSE IF mode = "multi" THEN 2 ELSE 0

defaultMinApprovals(required, policy) ==
  IF required <= 0 THEN 0
  ELSE IF policy = "any" THEN 1
  ELSE IF policy = "all" THEN required ELSE required \div 2 + 1

normalizeGate(gate, i) ==
  LET mode     == IF gate.mode = "" THEN "none" ELSE gate.mode
      policy   == IF gate.policy # "" THEN gate.policy
                  ELSE IF mode = "single" THEN "any" ELSE "majority"
      asked    == IF gate.required <= 0 THEN defaultRequiredReviewers(mode) ELSE gate.required
      required == IF mode = "multi" /\ asked < 2 THEN 2 ELSE asked
  IN [id |-> IF gate.id = 0 THEN i ELSE gate.id, mode |-> mode, policy |-> policy,
      escalation |-> IF gate.escalation = "" THEN "none" ELSE gate.escalation,
      required |-> required,
      min |-> IF gate.min <= 0 THEN defaultMinApprovals(required, policy) ELSE gate.min]

normalizeGates(list) == [i \in DOMAIN list |-> normalizeGate(list[i], i)]

\* A list is refused when two gates have one id or a mode is unknown.
validGates(list) ==
  /\ \A i, j \in DOMAIN list : normalizeGates(list)[i].id = normalizeGates(list)[j].id => i = j
  /\ \A i \in DOMAIN list : validateReviewMode(normalizeGates(list)[i].mode)

\* Reviews are never changed: a list of them is the set of their places in the table.
Count(rows, decided) == Cardinality({i \in rows : reviews[i].decision \in decided})

\* Mutant: a reviewer who abstains does not object.
AbstentionsApprove(rows) ==
  [approvals |-> Count(rows, {"approve", "abstain"}), negatives |-> Count(rows, {"reject", "revise"}),
   abstentions |-> 0]

countReviews(rows) ==
  [approvals   |-> Count(rows, {"approve"}),
   negatives   |-> Count(rows, {"reject", "revise"}),
   abstentions |-> Count(rows, Decisions \ {"approve", "reject", "revise"})]

escalationOrRejected(gate) ==
  IF gate.escalation = "orchestrator" THEN "escalation_pending" ELSE "rejected"

required(gate) ==
  IF gate.required <= 0 THEN defaultRequiredReviewers(gate.mode) ELSE gate.required
minApprovals(gate) ==
  IF gate.min <= 0 THEN defaultMinApprovals(required(gate), gate.policy) ELSE gate.min

\* What a list of reviews makes of a gate.
consensusStatus(gate, rows) ==
  LET n == countReviews(rows)
  IN IF Cardinality(rows) < required(gate) THEN gate.status
     ELSE IF gate.policy = "any" THEN
            IF n.approvals > 0 THEN "passed"
            ELSE IF n.negatives > 0 THEN "rejected" ELSE gate.status
     ELSE IF gate.policy = "all" THEN
            IF n.approvals >= required(gate) /\ n.negatives = 0 /\ n.abstentions = 0
              THEN "passed" ELSE escalationOrRejected(gate)
     ELSE IF n.approvals >= minApprovals(gate) /\ n.approvals > n.negatives THEN "passed"
          ELSE IF n.negatives > n.approvals THEN "rejected" ELSE escalationOrRejected(gate)

blocking(gate) ==
  \/ gate.status = "rejected"
  \/ gate.status = "arbitrated" /\ gate.decision \in {"reject", "revise"}

terminal(gate) == gate.status \in {"rejected", "arbitrated", "passed", "skipped"}

-----------------------------------------------------------------------------
(* The store.                                                              *)

GovInit ==
  /\ govTemplate = {}
  /\ \/ govRun = "absent" /\ gates = <<>>
     \/ govRun = "active" /\ gates \in InitialGates
  /\ reviews     = <<>>
  /\ conflicts   = [k \in Conflicts |-> [status |-> "absent"]]
  /\ govCaller   = [c \in GovCallers |-> GovIdle]
  /\ govRequests = 0
  /\ wasTerminal = {}

GetRun         == govRun # "absent"
GetGate(g)     == g \in DOMAIN gates
ListReviewsByGate(g) == {i \in DOMAIN reviews : reviews[i].gate = g}
GetConflict(k) == conflicts[k].status # "absent"
ListGates      == gates

\* One transaction: the run and its gates, all pending.
CreateRun(list) ==
  /\ gates' = [g \in {list[i].id : i \in DOMAIN list} |->
       LET d == list[CHOOSE i \in DOMAIN list : list[i].id = g]
       IN [id |-> g, status |-> "pending", mode |-> d.mode, policy |-> d.policy,
           escalation |-> d.escalation, required |-> d.required, min |-> d.min, decision |-> ""]]
  /\ govRun' = IF list = <<>> THEN "completed" ELSE "active"

UpdateRun(status) == govRun' = status

UpdateGate(gate) ==
  /\ gates' = [gates EXCEPT ![gate.id] = gate]
  /\ wasTerminal' = wasTerminal \cup (IF gate.status \in {"rejected", "arbitrated", "passed", "skipped"}
                                      THEN {gate.id} ELSE {})

SaveReview(row)   == reviews' = Append(reviews, row)
SaveConflict(k, g) == conflicts' = [conflicts EXCEPT ![k] = [status |-> "open", gate |-> g]]
UpdateConflict(k, d) ==
  conflicts' = [conflicts EXCEPT ![k] = [status |-> "resolved", gate |-> @.gate, decision |-> d]]

-----------------------------------------------------------------------------
(* Requests.                                                               *)

GovAt(c, pc)    == govCaller[c].pc = pc
GovGoes(c, r)   == govCaller' = [govCaller EXCEPT ![c] = r]
GovAnswer(c)    == GovGoes(c, GovIdle)
GovBegin(c)     ==
  /\ GovAt(c, "idle") /\ govRequests < MaxGovRequests
  /\ govRequests' = govRequests + 1
GovContinue(c)  == govRequests' = govRequests

\* PUT /v1/governance/templates.
UpsertTemplate(c) ==
  /\ GovBegin(c)
  /\ \E list \in GateDefinitions :
       govTemplate' = IF validGates(list) THEN {normalizeGates(list)} ELSE govTemplate
  /\ GovAnswer(c)
  /\ UNCHANGED <<govRun, gates, reviews, conflicts, wasTerminal>>

\* POST /v1/governance/runs: the gates of the template, or those of the request.
StartRun(c) ==
  /\ GovBegin(c) /\ ~GetRun
  /\ \E list \in GateDefinitions \cup govTemplate :
       IF validGates(list)
         THEN GovGoes(c, [pc |-> "create_run", gates |-> normalizeGates(list)])
         ELSE GovAnswer(c)
  /\ UNCHANGED govStore

\* One run is followed: a second one has an id and gates of its own.
StartRunCreates(c) ==
  /\ GovAt(c, "create_run") /\ GovContinue(c)
  /\ \/ ~GetRun /\ CreateRun(govCaller[c].gates)
     \/ GetRun /\ UNCHANGED <<govRun, gates>>
  /\ GovAnswer(c)
  /\ UNCHANGED <<govTemplate, reviews, conflicts, wasTerminal>>

findGate(c, op, g) ==
  /\ GovBegin(c) /\ GetGate(g)
  /\ GovGoes(c, [pc |-> "get_run", op |-> op, gate |-> ListGates[g], run |-> "absent"])

\* POST /v1/governance/runs/{run_id}/gates/open.
OpenGate(c) ==
  /\ \E g \in DOMAIN gates :
       /\ ListGates[g].status \in {"pending", "open"}
       /\ findGate(c, "open", g)
  /\ UNCHANGED govStore

OpenGateWrites(c) ==
  /\ GovAt(c, "write_open") /\ GovContinue(c)
  /\ LET gate == govCaller[c].gate
     IN UpdateGate(IF gate.mode = "none"
                     THEN [gate EXCEPT !.status = "passed", !.decision = "approve"]
                     ELSE [gate EXCEPT !.status = "open"])
  /\ GovGoes(c, [govCaller[c] EXCEPT !.pc = "refresh"])
  /\ UNCHANGED <<govTemplate, govRun, reviews, conflicts>>

\* POST /v1/governance/gates/{gate_run_id}/reviews.
SubmitReview(c) ==
  /\ \E g \in DOMAIN gates, input \in ReviewInputs :
       /\ validateReviewDecision(input.decision)
       /\ ListGates[g].status = "open"
       /\ GovBegin(c)
       /\ GovGoes(c, [pc |-> "list_reviews", op |-> "review", gate |-> ListGates[g], review |-> input])
  /\ UNCHANGED govStore

\* A reviewer, by id and type, reviews a gate once; no type stands for "agent".
SubmitReviewLists(c) ==
  /\ GovAt(c, "list_reviews") /\ GovContinue(c)
  /\ LET rows  == ListReviewsByGate(govCaller[c].gate.id)
         input == govCaller[c].review
     IN IF \E i \in rows : reviews[i].reviewer = input.reviewer /\ reviews[i].type = input.type
          THEN GovAnswer(c)
          ELSE GovGoes(c, [pc |-> "get_run", op |-> "review", gate |-> govCaller[c].gate, run |-> "absent",
                           listed |-> rows,
                           review |-> [gate |-> govCaller[c].gate.id, reviewer |-> input.reviewer,
                                       type |-> IF input.type = "" THEN "agent" ELSE input.type,
                                       decision |-> input.decision]])
  /\ UNCHANGED govStore

SubmitReviewSaves(c) ==
  /\ GovAt(c, "write_review") /\ GovContinue(c)
  /\ SaveReview(govCaller[c].review)
  /\ GovGoes(c, [govCaller[c] EXCEPT !.pc = "consensus", !.listed = @ \cup {Len(reviews) + 1}])
  /\ UNCHANGED <<govTemplate, govRun, gates, conflicts, wasTerminal>>

\* The reviews listed before, with the caller's own, decide on the gate read before them.
applyConsensus(c) ==
  /\ GovAt(c, "consensus") /\ GovContinue(c)
  /\ LET gate   == govCaller[c].gate
         status == consensusStatus(gate, govCaller[c].listed)
     IN IF status = gate.status THEN UNCHANGED <<gates, wasTerminal>>
        ELSE UpdateGate([gate EXCEPT !.status = status,
                          !.decision = IF status = "passed" THEN "approve"
                                       ELSE IF status = "rejected" THEN "reject" ELSE @])
  /\ GovGoes(c, [govCaller[c] EXCEPT !.pc = "refresh"])
  /\ UNCHANGED <<govTemplate, govRun, reviews, conflicts>>

\* POST /v1/governance/gates/{gate_run_id}/escalate: whatever the gate's status.
Escalate(c) ==
  /\ \E g \in DOMAIN gates : findGate(c, "escalate", g)
  /\ UNCHANGED govStore

EscalateSaves(c) ==
  /\ GovAt(c, "write_escalate") /\ GovContinue(c)
  /\ \E k \in Conflicts :
       /\ ~GetConflict(k)
       /\ \A j \in Conflicts : ~GetConflict(j) => k <= j
       /\ SaveConflict(k, govCaller[c].gate.id)
  /\ GovGoes(c, [govCaller[c] EXCEPT !.pc = "escalate_gate"])
  /\ UNCHANGED <<govTemplate, govRun, gates, reviews, wasTerminal>>

EscalateWrites(c) ==
  /\ GovAt(c, "escalate_gate") /\ GovContinue(c)
  /\ UpdateGate([govCaller[c].gate EXCEPT !.status = "escalation_pending"])
  /\ GovAnswer(c)
  /\ UNCHANGED <<govTemplate, govRun, reviews, conflicts>>

\* POST /v1/governance/conflicts/{conflict_id}/arbitrate.
Arbitrate(c) ==
  /\ \E k \in Conflicts, decision \in Arbitrations :
       /\ validateReviewDecision(decision)
       /\ conflicts[k].status = "open"
       /\ GovBegin(c)
       /\ GovGoes(c, [pc |-> "get_gate", op |-> "arbitrate", conflict |-> k, decision |-> decision])
  /\ UNCHANGED govStore

ArbitrateReadsGate(c) ==
  /\ GovAt(c, "get_gate") /\ GovContinue(c)
  /\ LET g == conflicts[govCaller[c].conflict].gate
     IN GovGoes(c, [pc |-> "get_run", op |-> "arbitrate", gate |-> ListGates[g], run |-> "absent",
                    conflict |-> govCaller[c].conflict, decision |-> govCaller[c].decision])
  /\ UNCHANGED govStore

ArbitrateResolves(c) ==
  /\ GovAt(c, "write_arbitrate") /\ GovContinue(c)
  /\ UpdateConflict(govCaller[c].conflict, govCaller[c].decision)
  /\ GovGoes(c, [govCaller[c] EXCEPT !.pc = "arbitrate_gate"])
  /\ UNCHANGED <<govTemplate, govRun, gates, reviews, wasTerminal>>

ArbitrateWrites(c) ==
  /\ GovAt(c, "arbitrate_gate") /\ GovContinue(c)
  /\ UpdateGate([govCaller[c].gate EXCEPT !.status = "arbitrated", !.decision = govCaller[c].decision])
  /\ GovGoes(c, [govCaller[c] EXCEPT !.pc = "refresh"])
  /\ UNCHANGED <<govTemplate, govRun, reviews, conflicts>>

WritesAt(op) ==
  IF op = "open" THEN "write_open"
  ELSE IF op = "review" THEN "write_review"
  ELSE IF op = "escalate" THEN "write_escalate" ELSE "write_arbitrate"

\* Every request reads the run after the gate, and refreshes this copy of it at its end.
ReadRun(c) ==
  /\ GovAt(c, "get_run") /\ GovContinue(c) /\ GetRun
  /\ GovGoes(c, [govCaller[c] EXCEPT !.run = govRun, !.pc = WritesAt(govCaller[c].op)])
  /\ UNCHANGED govStore

\* A blocked run whose gates are all decided becomes completed: the second branch does
\* not look at the gates that block.
refreshedStatus(run) ==
  IF (\E g \in DOMAIN gates : blocking(ListGates[g])) /\ run # "blocked" THEN "blocked"
  ELSE IF (\A g \in DOMAIN gates : terminal(ListGates[g])) /\ run # "completed" THEN "completed"
  ELSE run

refreshRunStatus(c) ==
  /\ GovAt(c, "refresh") /\ GovContinue(c)
  /\ LET status == refreshedStatus(govCaller[c].run)
     IN IF status = govCaller[c].run THEN GovAnswer(c)
        ELSE GovGoes(c, [pc |-> "write_run", status |-> status])
  /\ UNCHANGED govStore

refreshWrites(c) ==
  /\ GovAt(c, "write_run") /\ GovContinue(c)
  /\ UpdateRun(govCaller[c].status)
  /\ GovAnswer(c)
  /\ UNCHANGED <<govTemplate, gates, reviews, conflicts, wasTerminal>>

\* The routes of the API: what a request may begin.
handleGovernanceTemplates(c)        == UpsertTemplate(c)
handleGovernanceRuns(c)             == StartRun(c)
handleGovernanceRunResource(c)      == OpenGate(c)
handleGovernanceGateResource(c)     == SubmitReview(c) \/ Escalate(c)
handleGovernanceConflictResource(c) == Arbitrate(c)

GovNext ==
  \E c \in GovCallers :
    \/ handleGovernanceTemplates(c) \/ handleGovernanceRuns(c) \/ StartRunCreates(c)
    \/ handleGovernanceRunResource(c) \/ OpenGateWrites(c)
    \/ handleGovernanceGateResource(c)
    \/ SubmitReviewLists(c) \/ SubmitReviewSaves(c) \/ applyConsensus(c)
    \/ EscalateSaves(c) \/ EscalateWrites(c)
    \/ handleGovernanceConflictResource(c)
    \/ ArbitrateReadsGate(c) \/ ArbitrateResolves(c) \/ ArbitrateWrites(c)
    \/ ReadRun(c) \/ refreshRunStatus(c) \/ refreshWrites(c)

GovSpec == GovInit /\ [][GovNext]_govVars

-----------------------------------------------------------------------------
(* Properties.                                                             *)

\* A reviewed gate that has passed has, among the reviews on record, as many as it asks
\* for and as many approvals as its policy asks for, however the requests interleave:
\* concurrent reviews decide on lists that miss each other, never on reviews that are not
\* saved.
PassedOnRecord ==
  \A g \in DOMAIN gates :
    (gates[g].status = "passed" /\ gates[g].mode # "none") =>
      LET rows == ListReviewsByGate(g)
          approvals == Cardinality({i \in rows : reviews[i].decision = "approve"})
      IN /\ Cardinality(rows) >= gates[g].required
         /\ gates[g].policy = "any" => approvals >= 1
         /\ gates[g].policy = "all" => approvals >= gates[g].required
         /\ gates[g].policy = "majority" => approvals >= gates[g].min

\* A completed run was decided gate by gate: each of its gates has at some time been
\* passed, rejected or arbitrated, also when it has been escalated again since.
CompletedGatesDecided ==
  govRun = "completed" => DOMAIN gates \subseteq wasTerminal

\* An arbitrated gate has a conflict of its own on record that is resolved: whoever sees the
\* verdict on the gate finds the conflict closed.
ArbitratedAfterConflict ==
  \A g \in DOMAIN gates :
    gates[g].status = "arbitrated" =>
      \E k \in Conflicts : conflicts[k].status = "resolved" /\ conflicts[k].gate = g

\* Gates pass, are arbitrated and let their run complete only on what is on record, however
\* reviews, escalations and arbitrations of one gate interleave (applyConsensus,
\* Arbitrate, refreshRunStatus).
DecidedOnRecord == PassedOnRecord /\ CompletedGatesDecided /\ ArbitratedAfterConflict

=============================================================================
