-------------------------------- MODULE Plan --------------------------------
(***************************************************************************)
(* The plans of one task: the plan service (internal/task/plan/service.go), *)
(* its postgres repository, the steps the run coordinator starts and ends   *)
(* around its tool calls (internal/runtime/kernel/coordinator.go) and the   *)
(* plan commands of the API (internal/server/commands_tasks.go).            *)
(*                                                                          *)
(* The service takes no lock: every actor is somewhere between a read and a *)
(* write of the repository, and what it writes is what it has read with     *)
(* another status.                                                          *)
(***************************************************************************)
EXTENDS Naturals, FiniteSetsExt

CONSTANTS
  Runs,            \* runs of the task
  Clients,         \* API requests handled at the same time (bound)
  MaxPlans,        \* plans created (bound, model checking only)
  MaxSteps,        \* steps of a plan
  MaxPlanFailures  \* repository calls that fail (bound, model checking only)

ASSUME PlanAssumption ==
  /\ Runs \cap Clients = {}
  /\ MaxPlans \in Nat /\ MaxSteps \in Nat \ {0} /\ MaxPlanFailures \in Nat

VARIABLES
  plan,      \* plan[p]: status of the p-th plan created
  step,      \* step[p][i]: status of its i-th step
  actor,     \* actor[a]: where the run or the request is, and its locals
  pFailures,
  done       \* history: the steps that have been completed

planVars == <<plan, step, actor, pFailures, done>>

Plans  == 1..MaxPlans
Steps  == 1..MaxSteps
Actors == Runs \cup Clients

Resting == [pc |-> "idle", p |-> 0, i |-> 0, to |-> "none"]

PlanInit ==
  /\ plan      = [p \in Plans |-> "absent"]
  /\ step      = [p \in Plans |-> [i \in Steps |-> "absent"]]
  /\ actor     = [a \in Actors |-> Resting]
  /\ pFailures = 0
  /\ done      = {}

-----------------------------------------------------------------------------
(* The repository.                                                         *)

Works == UNCHANGED pFailures
Fails == pFailures < MaxPlanFailures /\ pFailures' = pFailures + 1

\* The latest plan that is running; 0 if there is none.
ActivePlan == Max({p \in Plans : plan[p] = "running"} \cup {0})

\* Plan and steps in one transaction.
CreatePlan(p) ==
  /\ plan' = [plan EXCEPT ![p] = "running"]
  /\ step' = [step EXCEPT ![p] = [i \in Steps |-> "pending"]]

UpdatePlan(p, status)    == plan' = [plan EXCEPT ![p] = status]
UpdateStep(p, i, status) == step' = [step EXCEPT ![p][i] = status]

-----------------------------------------------------------------------------
(* The rules of the service.                                               *)

AtPlan(a, pc)  == actor[a].pc = pc
Move(a, pc)    == actor' = [actor EXCEPT ![a].pc = pc]
Rest(a)        == actor' = [actor EXCEPT ![a] = Resting]

\* The step under way in the active plan: the first running one, else the first pending.
CurrentSteps(p) ==
  LET running == {i \in Steps : step[p][i] = "running"}
      pending == {i \in Steps : step[p][i] = "pending"}
  IN  IF running # {} THEN {Min(running)} ELSE IF pending # {} THEN {Min(pending)} ELSE {}

\* Mutant: a failed step is as good as a completed one.
PreviousStepsOver(p, i) == \A j \in 1..(i - 1) : step[p][j] \in {"completed", "failed"}

ensurePreviousStepsDone(p, i) == \A j \in 1..(i - 1) : step[p][j] = "completed"

AllStepsDone(p) == \A i \in Steps : step[p][i] = "completed"

-----------------------------------------------------------------------------
(* A run around a tool call.                                               *)

\* Which step the call is for; without a plan the call has none.
currentPlanStep(r) ==
  /\ AtPlan(r, "idle") /\ ActivePlan # 0
  /\ \E i \in CurrentSteps(ActivePlan) :
       actor' = [actor EXCEPT ![r] =
         [Resting EXCEPT !.pc = IF step[ActivePlan][i] = "pending" THEN "start" ELSE "tool",
                         !.p = ActivePlan, !.i = i]]
  /\ UNCHANGED <<plan, step, pFailures, done>>

\* StartStep reads and checks: a refusal ends the run's step with an error ...
StartStep(r) ==
  /\ AtPlan(r, "start")
  /\ IF step[actor[r].p][actor[r].i] = "pending" /\ ensurePreviousStepsDone(actor[r].p, actor[r].i)
       THEN Move(r, "start_write") ELSE Rest(r)
  /\ UNCHANGED <<plan, step, pFailures, done>>

\* ... then writes the step and its event.
WriteStart(r) ==
  /\ AtPlan(r, "start_write")
  /\ \/ UpdateStep(actor[r].p, actor[r].i, "running") /\ Works /\ Move(r, "tool")
     \/ UpdateStep(actor[r].p, actor[r].i, "running") /\ Fails /\ Rest(r)
     \/ UNCHANGED step /\ Fails /\ Rest(r)
  /\ UNCHANGED <<plan, done>>

\* The result of the tool call is recorded on the step read before it; a call that waits
\* for an approval records nothing.
recordPlanStepResult(r, to) ==
  /\ AtPlan(r, "tool")
  /\ IF to = "none" THEN Rest(r)
     ELSE actor' = [actor EXCEPT ![r].pc = "finish", ![r].to = to]
  /\ UNCHANGED <<plan, step, pFailures, done>>

-----------------------------------------------------------------------------
(* CompleteStep and FailStep, for a run or a command.                      *)

\* The complete_step and fail_step commands name a step.
StepCommand(c, p, i, to) ==
  /\ AtPlan(c, "idle") /\ plan[p] # "absent"
  /\ actor' = [actor EXCEPT ![c] = [pc |-> "finish", p |-> p, i |-> i, to |-> to]]
  /\ UNCHANGED <<plan, step, pFailures, done>>

\* Only a running step is completed or failed.
FinishStep(a) ==
  /\ AtPlan(a, "finish")
  /\ IF step[actor[a].p][actor[a].i] = "running" THEN Move(a, "finish_write") ELSE Rest(a)
  /\ UNCHANGED <<plan, step, pFailures, done>>

WriteStep(a) ==
  LET s == actor[a]
  IN  /\ AtPlan(a, "finish_write")
      /\ \/ UNCHANGED <<step, done>> /\ Fails /\ Rest(a)
         \/ /\ UpdateStep(s.p, s.i, s.to)
            /\ done' = IF s.to = "completed" THEN done \cup {<<s.p, s.i>>} ELSE done
            /\ \/ Works /\ Move(a, "plan")
               \/ Fails /\ Rest(a)          \* the event is not appended
      /\ UNCHANGED plan

\* CompleteStep ends the plan if its steps are completed, FailStep fails it; neither
\* looks at the plan's status.
completePlanIfDone(a) ==
  /\ AtPlan(a, "plan")
  /\ IF actor[a].to = "failed" \/ AllStepsDone(actor[a].p) THEN Move(a, "plan_write") ELSE Rest(a)
  /\ UNCHANGED <<plan, step, pFailures, done>>

WritePlan(a) ==
  /\ AtPlan(a, "plan_write")
  /\ \/ UpdatePlan(actor[a].p, actor[a].to) /\ Works
     \/ UNCHANGED plan /\ Fails
  /\ Rest(a)
  /\ UNCHANGED <<step, done>>

-----------------------------------------------------------------------------
(* Plans.                                                                  *)

NewPlan == Cardinality({p \in Plans : plan[p] # "absent"}) + 1

\* The create_plan command, and the end of replan: an active plan is not looked for.
createPlan(c) ==
  /\ AtPlan(c, "idle") \/ AtPlan(c, "create")
  /\ NewPlan \in Plans
  /\ \/ CreatePlan(NewPlan) /\ Works
     \/ UNCHANGED <<plan, step>> /\ Fails
  /\ Rest(c)
  /\ UNCHANGED done

\* The replan command reads the active plan ...
Replan(c) ==
  /\ AtPlan(c, "idle") /\ NewPlan \in Plans
  /\ actor' = [actor EXCEPT ![c] = [Resting EXCEPT !.pc = IF ActivePlan = 0 THEN "create"
                                                           ELSE "supersede", !.p = ActivePlan]]
  /\ UNCHANGED <<plan, step, pFailures, done>>

\* ... and supersedes it before the new one exists.
Supersede(c) ==
  /\ AtPlan(c, "supersede")
  /\ \/ UpdatePlan(actor[c].p, "superseded") /\ Works /\ Move(c, "create")
     \/ UpdatePlan(actor[c].p, "superseded") /\ Fails /\ Rest(c)
     \/ UNCHANGED plan /\ Fails /\ Rest(c)
  /\ UNCHANGED <<step, done>>

-----------------------------------------------------------------------------
PlanNext ==
  \/ \E r \in Runs : currentPlanStep(r) \/ StartStep(r) \/ WriteStart(r)
  \/ \E r \in Runs, to \in {"completed", "failed", "none"} : recordPlanStepResult(r, to)
  \/ \E c \in Clients : createPlan(c) \/ Replan(c) \/ Supersede(c)
  \/ \E c \in Clients, p \in Plans, i \in Steps, to \in {"completed", "failed"} :
       StepCommand(c, p, i, to)
  \/ \E a \in Actors : FinishStep(a) \/ WriteStep(a) \/ completePlanIfDone(a) \/ WritePlan(a)

PlanSpec == PlanInit /\ [][PlanNext]_planVars

-----------------------------------------------------------------------------
(* Properties.                                                             *)

\* A step of a plan is started only after every step before it has been completed, and
\* only steps that were started are completed or failed: also when runs and commands
\* work on the plan at the same time, it is superseded, or repository calls fail.
StepsInOrder ==
  \A p \in Plans, i \in Steps :
    step[p][i] \in {"running", "completed", "failed"} =>
      \A j \in 1..(i - 1) : <<p, j>> \in done

\* A plan is completed only after each of its steps has been.
CompletedPlanDone ==
  \A p \in Plans : plan[p] = "completed" => \A i \in Steps : <<p, i>> \in done

\* Plans are worked off in order and completed when all is done (StartStep, CompleteStep,
\* completePlanIfDone).
PlanInOrder == StepsInOrder /\ CompletedPlanDone

=============================================================================
