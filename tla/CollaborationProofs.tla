------------------------ MODULE CollaborationProofs ------------------------
(***************************************************************************)
(* Proofs about Plan, for any runs, clients, plans and steps, about        *)
(* Handoff, for any agents, tasks, handoffs and calls, about               *)
(* GovernanceProcess, for any callers, gates, reviews and conflicts, and   *)
(* about Sharing, for any servers, requests, policies and documents.       *)
(*                                                                         *)
(* What an actor of a plan has checked may not hold any more when it       *)
(* writes, but `done` only grows: it is the history and not the present    *)
(* status of the earlier steps that the invariant speaks about             *)
(* (InOrderBefore), for the steps on record and for the steps an actor is  *)
(* about to write.                                                         *)
(*                                                                         *)
(* A delegation is checked before its task is created, while other calls   *)
(* create tasks.  The check still holds at the creation because a task     *)
(* never changes its agent or its parent: the chain above an existing task *)
(* is what it was (TasksKept).  The rest of the invariant is what a call   *)
(* may rely on between two of its writes (WorkerOK).                       *)
(*                                                                         *)
(* A governance request decides on a gate and a list of reviews that it    *)
(* read earlier.  What a gate asks for is fixed with its run, reviews are  *)
(* only added and conflicts keep their gate (GovGrows), so the reviews it  *)
(* listed are still on record when it writes (CallerOK).                   *)
(*                                                                         *)
(* A search in another group checks a permission, then reads the share     *)
(* policies, checks another permission and takes a snapshot in two reads.  *)
(* What it holds is in its history at each of these points, whatever has   *)
(* been withdrawn since (CrossFits, SearchFits).  Bases are held in rows,  *)
(* memories and requests that may differ, but not in the owner (OneOwner); *)
(* a document's name belongs to one request until it is saved (OwnNames).  *)
(***************************************************************************)
EXTENDS Plan, Handoff, GovernanceProcess, Sharing, OrderFacts, FiniteSetTheorems, TLAPS

StepStatuses == {"absent", "pending", "running", "completed", "failed"}

ActorStates ==
  [pc : {"idle", "start", "start_write", "tool", "finish", "finish_write", "plan",
         "plan_write", "create", "supersede"},
   p : Nat, i : Nat, to : {"none", "completed", "failed"}]

\* What an actor has read names a plan and a step.
ActorOK(s) ==
  /\ s \in ActorStates
  /\ s.pc \in {"start", "start_write", "tool", "finish", "finish_write", "plan", "plan_write"}
       => s.p \in Plans /\ s.i \in Steps
  /\ s.pc = "supersede" => s.p \in Plans
  /\ s.pc \in {"finish", "finish_write", "plan", "plan_write"} => s.to \in {"completed", "failed"}

PlanTypeOK ==
  /\ plan \in [Plans -> {"absent", "running", "completed", "failed", "superseded"}]
  /\ step \in [Plans -> [Steps -> StepStatuses]]
  /\ actor \in [Actors -> ActorStates]
  /\ \A a \in Actors : ActorOK(actor[a])
  /\ pFailures \in Nat
  /\ done \subseteq Plans \X Steps

\* The steps before step i of plan p have been completed at some time.
InOrderBefore(p, i) == \A j \in 1..(i - 1) : <<p, j>> \in done

\* A completed step has been completed.
CompletedIsDone ==
  \A p \in Plans, i \in Steps : step[p][i] = "completed" => <<p, i>> \in done

\* What the actors are about to write is in order.
WriteInOrder(s) ==
  /\ s.pc \in {"start_write", "finish_write"} => InOrderBefore(s.p, s.i)
  /\ s.pc = "plan_write" /\ s.to = "completed" => \A i \in Steps : <<s.p, i>> \in done

WritesInOrder == \A a \in Actors : WriteInOrder(actor[a])

PInv == PlanTypeOK /\ PlanInOrder /\ CompletedIsDone /\ WritesInOrder

-----------------------------------------------------------------------------
LEMMA ActivePlanType == ActivePlan \in Plans \cup {0}
<1> DEFINE S == {p \in Plans : plan[p] = "running"} \cup {0}
<1>1. S \in SUBSET Nat /\ S # {} /\ \A x \in S : x <= MaxPlans
  BY PlanAssumption DEF Plans
<1>2. \E x \in S : \A y \in S : x >= y
  BY <1>1, GreatestElement, PlanAssumption
<1>3. Max(S) \in S
  BY <1>2 DEF Max
<1> QED BY <1>3 DEF ActivePlan

LEMMA CurrentStepsType == \A p : CurrentSteps(p) \subseteq Steps
<1> SUFFICES ASSUME NEW p PROVE CurrentSteps(p) \subseteq Steps
  OBVIOUS
<1>1. ASSUME NEW S \in SUBSET Steps, S # {} PROVE Min(S) \in S
  <2>1. S \in SUBSET Nat
    BY DEF Steps
  <2> QED BY <1>1, <2>1, LeastElement DEF Min
<1> QED BY <1>1 DEF CurrentSteps

-----------------------------------------------------------------------------
(***************************************************************************)
(* An actor that only reads: nothing is written, and what it is about to   *)
(* write is in order.                                                      *)
(***************************************************************************)
LEMMA ActorReads ==
  ASSUME PInv, NEW a \in Actors, NEW s,
         actor' = [actor EXCEPT ![a] = s], ActorOK(s), WriteInOrder(s),
         UNCHANGED <<plan, step, done>>, pFailures' \in Nat
  PROVE  PInv'
<1>1. /\ actor' \in [Actors -> ActorStates]
      /\ \A b \in Actors : actor'[b] = actor[b] \/ actor'[b] = s
  BY DEF PInv, PlanTypeOK, ActorOK
<1>2. PlanTypeOK'
  BY <1>1 DEF PInv, PlanTypeOK, ActorOK
<1>3. PlanInOrder' /\ CompletedIsDone'
  BY DEF PInv, PlanInOrder, StepsInOrder, CompletedPlanDone, CompletedIsDone
<1>4. WritesInOrder'
  BY <1>1 DEF PInv, WritesInOrder, WriteInOrder, InOrderBefore
<1> QED BY <1>2, <1>3, <1>4 DEF PInv

(***************************************************************************)
(* An actor that writes a step in order, and records it when it is         *)
(* completed.                                                              *)
(***************************************************************************)
LEMMA StepWritten ==
  ASSUME PInv, NEW a \in Actors, NEW s, NEW p \in Plans, NEW i \in Steps,
         NEW status \in StepStatuses, InOrderBefore(p, i),
         step' = [step EXCEPT ![p][i] = status],
         done' \subseteq Plans \X Steps, done \subseteq done',
         status = "completed" => <<p, i>> \in done',
         actor' = [actor EXCEPT ![a] = s], ActorOK(s), s.pc \in {"idle", "tool", "plan"},
         UNCHANGED plan, pFailures' \in Nat
  PROVE  PInv'
<1>1. /\ actor' \in [Actors -> ActorStates]
      /\ \A b \in Actors : actor'[b] = actor[b] \/ actor'[b] = s
  BY DEF PInv, PlanTypeOK, ActorOK
<1>2. /\ step' \in [Plans -> [Steps -> StepStatuses]]
      /\ \A q \in Plans, j \in Steps :
           step'[q][j] = IF q = p /\ j = i THEN status ELSE step[q][j]
  BY DEF PInv, PlanTypeOK
<1>3. PlanTypeOK'
  BY <1>1, <1>2 DEF PInv, PlanTypeOK, ActorOK
<1>4. StepsInOrder'
  <2> SUFFICES ASSUME NEW q \in Plans, NEW j \in Steps,
                      step'[q][j] \in {"running", "completed", "failed"}
               PROVE  \A k \in 1..(j - 1) : <<q, k>> \in done'
    BY DEF StepsInOrder
  <2> QED BY <1>2 DEF PInv, PlanInOrder, StepsInOrder, InOrderBefore
<1>5. CompletedPlanDone'
  BY DEF PInv, PlanInOrder, CompletedPlanDone
<1>6. CompletedIsDone'
  BY <1>2 DEF PInv, CompletedIsDone
<1>7. WritesInOrder'
  BY <1>1 DEF PInv, WritesInOrder, WriteInOrder, InOrderBefore
<1> QED BY <1>3, <1>4, <1>5, <1>6, <1>7 DEF PInv, PlanInOrder

(***************************************************************************)
(* A plan gets a new status; it is completed only when all its steps have  *)
(* been.                                                                   *)
(***************************************************************************)
LEMMA PlanWritten ==
  ASSUME PInv, NEW a \in Actors, NEW s, NEW p \in Plans,
         NEW status \in {"completed", "failed", "superseded"},
         status = "completed" => \A i \in Steps : <<p, i>> \in done,
         plan' = [plan EXCEPT ![p] = status],
         actor' = [actor EXCEPT ![a] = s], ActorOK(s), s.pc \in {"idle", "create"},
         UNCHANGED <<step, done>>, pFailures' \in Nat
  PROVE  PInv'
<1>1. /\ actor' \in [Actors -> ActorStates]
      /\ \A b \in Actors : actor'[b] = actor[b] \/ actor'[b] = s
  BY DEF PInv, PlanTypeOK, ActorOK
<1>2. PlanTypeOK'
  BY <1>1 DEF PInv, PlanTypeOK, ActorOK
<1>3. StepsInOrder' /\ CompletedIsDone'
  BY DEF PInv, PlanInOrder, StepsInOrder, CompletedIsDone
<1>4. CompletedPlanDone'
  BY DEF PInv, PlanTypeOK, PlanInOrder, CompletedPlanDone
<1>5. WritesInOrder'
  BY <1>1 DEF PInv, WritesInOrder, WriteInOrder, InOrderBefore
<1> QED BY <1>2, <1>3, <1>4, <1>5 DEF PInv, PlanInOrder

\* A new plan has pending steps only.
LEMMA PlanCreated ==
  ASSUME PInv, NEW a \in Actors, NEW p \in Plans, CreatePlan(p), Rest(a),
         UNCHANGED done, pFailures' \in Nat
  PROVE  PInv'
<1>1. /\ actor' \in [Actors -> ActorStates]
      /\ \A b \in Actors : actor'[b] = actor[b] \/ actor'[b] = Resting
      /\ ActorOK(Resting)
  BY DEF PInv, PlanTypeOK, ActorOK, ActorStates, Resting, Rest
<1>2. /\ step' \in [Plans -> [Steps -> StepStatuses]]
      /\ \A q \in Plans, j \in Steps : step'[q][j] = IF q = p THEN "pending" ELSE step[q][j]
  BY DEF PInv, PlanTypeOK, CreatePlan, StepStatuses
<1>3. PlanTypeOK'
  BY <1>1, <1>2 DEF PInv, PlanTypeOK, ActorOK, CreatePlan
<1>4. StepsInOrder' /\ CompletedIsDone'
  BY <1>2 DEF PInv, PlanInOrder, StepsInOrder, CompletedIsDone
<1>5. CompletedPlanDone'
  BY DEF PInv, PlanTypeOK, PlanInOrder, CompletedPlanDone, CreatePlan
<1>6. WritesInOrder'
  BY <1>1 DEF PInv, WritesInOrder, WriteInOrder, InOrderBefore, Resting
<1> QED BY <1>3, <1>4, <1>5, <1>6 DEF PInv, PlanInOrder

-----------------------------------------------------------------------------
LEMMA PlanInitInv == PlanInit => PInv
<1> SUFFICES ASSUME PlanInit PROVE PInv
  OBVIOUS
<1>1. PlanTypeOK
  BY DEF PlanInit, PlanTypeOK, ActorOK, ActorStates, Resting, StepStatuses
<1>2. PlanInOrder /\ CompletedIsDone
  BY DEF PlanInit, PlanInOrder, StepsInOrder, CompletedPlanDone, CompletedIsDone
<1>3. WritesInOrder
  BY DEF PlanInit, WritesInOrder, WriteInOrder, Resting
<1> QED BY <1>1, <1>2, <1>3 DEF PInv

LEMMA PlanNextInv == PInv /\ [PlanNext]_planVars => PInv'
<1> SUFFICES ASSUME PInv, [PlanNext]_planVars PROVE PInv'
  OBVIOUS
<1>t. /\ plan \in [Plans -> {"absent", "running", "completed", "failed", "superseded"}]
      /\ step \in [Plans -> [Steps -> StepStatuses]]
      /\ actor \in [Actors -> ActorStates]
      /\ \A a \in Actors : ActorOK(actor[a])
      /\ pFailures \in Nat /\ done \subseteq Plans \X Steps
  BY DEF PInv, PlanTypeOK
<1>r. /\ Runs \subseteq Actors /\ Clients \subseteq Actors
      /\ ActorOK(Resting) /\ WriteInOrder(Resting) /\ Resting.pc = "idle"
  BY DEF Actors, ActorOK, ActorStates, WriteInOrder, Resting
<1>f. Works \/ Fails => pFailures' \in Nat
  BY <1>t DEF Works, Fails
<1>1. ASSUME NEW r \in Runs, currentPlanStep(r) PROVE PInv'
  <2>1. PICK i \in CurrentSteps(ActivePlan) :
          actor' = [actor EXCEPT ![r] =
            [Resting EXCEPT !.pc = IF step[ActivePlan][i] = "pending" THEN "start" ELSE "tool",
                            !.p = ActivePlan, !.i = i]]
    BY <1>1 DEF currentPlanStep
  <2>2. ActivePlan \in Plans /\ i \in Steps
    BY <1>1, <2>1, ActivePlanType, CurrentStepsType DEF currentPlanStep
  <2> DEFINE s == [Resting EXCEPT !.pc = IF step[ActivePlan][i] = "pending" THEN "start" ELSE "tool",
                                  !.p = ActivePlan, !.i = i]
  <2>3. ActivePlan \in Nat /\ i \in Nat
    BY <2>2 DEF Plans, Steps
  <2>4. ActorOK(s) /\ WriteInOrder(s)
    BY <2>2, <2>3 DEF ActorOK, ActorStates, WriteInOrder, Resting
  <2>5. r \in Actors /\ pFailures' \in Nat /\ UNCHANGED <<plan, step, done>>
    BY <1>1, <1>r, <1>t DEF currentPlanStep
  <2> QED BY <2>1, <2>4, <2>5, ActorReads
<1>2. ASSUME NEW r \in Runs, StartStep(r) PROVE PInv'
  <2>1. r \in Actors /\ pFailures' \in Nat /\ UNCHANGED <<plan, step, done>>
    BY <1>2, <1>r, <1>t DEF StartStep
  <2>2. CASE Rest(r)
    BY <2>1, <2>2, <1>r, ActorReads DEF Rest
  <2>3. CASE ensurePreviousStepsDone(actor[r].p, actor[r].i) /\ Move(r, "start_write")
    <3> DEFINE s == [actor[r] EXCEPT !.pc = "start_write"]
    <3>1. actor' = [actor EXCEPT ![r] = s]
      BY <2>3 DEF Move
    <3>2. actor[r].pc = "start" /\ actor[r].p \in Plans /\ actor[r].i \in Steps
      BY <1>2, <1>t, <2>1 DEF StartStep, AtPlan, ActorOK
    <3>3. ActorOK(s)
      BY <1>t, <2>1, <3>2 DEF ActorOK, ActorStates
    <3>4. \A j \in 1..(actor[r].i - 1) : j \in Steps
      BY <3>2, PlanAssumption DEF Steps
    <3>5. InOrderBefore(actor[r].p, actor[r].i)
      BY <2>3, <3>2, <3>4 DEF InOrderBefore, ensurePreviousStepsDone, PInv, CompletedIsDone
    <3>6. WriteInOrder(s)
      BY <3>5, <1>t, <2>1 DEF WriteInOrder, ActorStates
    <3> QED BY <2>1, <3>1, <3>3, <3>6, ActorReads
  <2> QED BY <1>2, <2>2, <2>3 DEF StartStep
<1>3. ASSUME NEW r \in Runs, WriteStart(r) PROVE PInv'
  <2>1. /\ r \in Actors /\ pFailures' \in Nat /\ UNCHANGED <<plan, done>>
        /\ actor[r].p \in Plans /\ actor[r].i \in Steps
    BY <1>3, <1>r, <1>t, <1>f DEF WriteStart, AtPlan, ActorOK
  <2>2. InOrderBefore(actor[r].p, actor[r].i)
    BY <1>3, <2>1 DEF WriteStart, AtPlan, PInv, WritesInOrder, WriteInOrder
  <2>3. CASE UNCHANGED step /\ Rest(r)
    BY <2>1, <2>3, <1>r, ActorReads DEF Rest
  <2>4. CASE UpdateStep(actor[r].p, actor[r].i, "running") /\ Rest(r)
    BY <2>1, <2>2, <2>4, <1>r, <1>t, StepWritten DEF Rest, UpdateStep, StepStatuses
  <2>5. CASE UpdateStep(actor[r].p, actor[r].i, "running") /\ Move(r, "tool")
    <3> DEFINE s == [actor[r] EXCEPT !.pc = "tool"]
    <3>1. actor' = [actor EXCEPT ![r] = s] /\ s.pc = "tool"
      BY <2>5, <1>t, <2>1 DEF Move, ActorStates
    <3>2. ActorOK(s)
      BY <1>t, <2>1 DEF ActorOK, ActorStates
    <3> QED BY <2>1, <2>2, <2>5, <3>1, <3>2, <1>t, StepWritten DEF UpdateStep, StepStatuses
  <2> QED BY <1>3, <2>3, <2>4, <2>5 DEF WriteStart
<1>4. ASSUME NEW r \in Runs, NEW to \in {"completed", "failed", "none"},
             recordPlanStepResult(r, to)
      PROVE  PInv'
  <2>1. r \in Actors /\ pFailures' \in Nat /\ UNCHANGED <<plan, step, done>>
    BY <1>4, <1>r, <1>t DEF recordPlanStepResult
  <2>2. CASE to = "none"
    BY <1>4, <2>1, <2>2, <1>r, ActorReads DEF recordPlanStepResult, Rest
  <2>3. CASE to # "none"
    <3> DEFINE s == [actor[r] EXCEPT !.pc = "finish", !.to = to]
    <3>1. actor' = [actor EXCEPT ![r] = s]
      BY <1>4, <2>3, <1>t DEF recordPlanStepResult
    <3>2. actor[r].p \in Plans /\ actor[r].i \in Steps
      BY <1>4, <1>t, <2>1 DEF recordPlanStepResult, AtPlan, ActorOK
    <3>3. ActorOK(s) /\ WriteInOrder(s)
      BY <1>t, <2>1, <2>3, <3>2 DEF ActorOK, ActorStates, WriteInOrder
    <3> QED BY <2>1, <3>1, <3>3, ActorReads
  <2> QED BY <2>2, <2>3
<1>5. ASSUME NEW c \in Clients, createPlan(c) PROVE PInv'
  <2>1. c \in Actors /\ pFailures' \in Nat /\ Rest(c) /\ UNCHANGED done
    BY <1>5, <1>r, <1>f DEF createPlan
  <2>2. CASE CreatePlan(NewPlan)
    BY <1>5, <2>1, <2>2, PlanCreated DEF createPlan
  <2>3. CASE UNCHANGED <<plan, step>>
    BY <2>1, <2>3, <1>r, ActorReads DEF Rest
  <2> QED BY <1>5, <2>2, <2>3 DEF createPlan
<1>6. ASSUME NEW c \in Clients, Replan(c) PROVE PInv'
  <2> DEFINE s == [Resting EXCEPT !.pc = IF ActivePlan = 0 THEN "create" ELSE "supersede",
                                  !.p = ActivePlan]
  <2>1. c \in Actors /\ pFailures' \in Nat /\ UNCHANGED <<plan, step, done>>
    BY <1>6, <1>r, <1>t DEF Replan
  <2>2. ActivePlan \in Nat
    BY ActivePlanType DEF Plans
  <2>3. ActorOK(s) /\ WriteInOrder(s)
    BY <2>2, ActivePlanType DEF ActorOK, ActorStates, WriteInOrder, Resting
  <2>4. actor' = [actor EXCEPT ![c] = s]
    BY <1>6 DEF Replan
  <2> QED BY <2>1, <2>3, <2>4, ActorReads
<1>7. ASSUME NEW c \in Clients, Supersede(c) PROVE PInv'
  <2>1. /\ c \in Actors /\ pFailures' \in Nat /\ UNCHANGED <<step, done>>
        /\ actor[c].p \in Plans
    BY <1>7, <1>r, <1>t, <1>f DEF Supersede, AtPlan, ActorOK
  <2>2. CASE UNCHANGED plan /\ Rest(c)
    BY <2>1, <2>2, <1>r, ActorReads DEF Rest
  <2>3. CASE UpdatePlan(actor[c].p, "superseded") /\ Rest(c)
    BY <2>1, <2>3, <1>r, PlanWritten DEF Rest, UpdatePlan
  <2>4. CASE UpdatePlan(actor[c].p, "superseded") /\ Move(c, "create")
    <3> DEFINE s == [actor[c] EXCEPT !.pc = "create"]
    <3>1. actor' = [actor EXCEPT ![c] = s] /\ ActorOK(s) /\ s.pc = "create"
      BY <2>4, <1>t, <2>1 DEF Move, ActorOK, ActorStates
    <3> QED BY <2>1, <2>4, <3>1, PlanWritten DEF UpdatePlan
  <2> QED BY <1>7, <2>2, <2>3, <2>4 DEF Supersede
<1>8. ASSUME NEW c \in Clients, NEW p \in Plans, NEW i \in Steps,
             NEW to \in {"completed", "failed"}, StepCommand(c, p, i, to)
      PROVE  PInv'
  <2> DEFINE s == [pc |-> "finish", p |-> p, i |-> i, to |-> to]
  <2>1. /\ c \in Actors /\ pFailures' \in Nat /\ UNCHANGED <<plan, step, done>>
        /\ actor' = [actor EXCEPT ![c] = s]
    BY <1>8, <1>r, <1>t DEF StepCommand
  <2>2. ActorOK(s) /\ WriteInOrder(s)
    BY DEF ActorOK, ActorStates, WriteInOrder, Plans, Steps
  <2> QED BY <2>1, <2>2, ActorReads
<1>9. ASSUME NEW a \in Actors, FinishStep(a) PROVE PInv'
  <2>1. pFailures' \in Nat /\ UNCHANGED <<plan, step, done>>
    BY <1>9, <1>t DEF FinishStep
  <2>2. CASE Rest(a)
    BY <2>1, <2>2, <1>r, ActorReads DEF Rest
  <2>3. CASE step[actor[a].p][actor[a].i] = "running" /\ Move(a, "finish_write")
    <3> DEFINE s == [actor[a] EXCEPT !.pc = "finish_write"]
    <3>1. actor' = [actor EXCEPT ![a] = s]
      BY <2>3 DEF Move
    <3>2. actor[a].p \in Plans /\ actor[a].i \in Steps /\ actor[a].to \in {"completed", "failed"}
      BY <1>9, <1>t DEF FinishStep, AtPlan, ActorOK
    <3>3. ActorOK(s)
      BY <1>t, <3>2 DEF ActorOK, ActorStates
    <3>4. InOrderBefore(actor[a].p, actor[a].i)
      BY <2>3, <3>2 DEF InOrderBefore, PInv, PlanInOrder, StepsInOrder
    <3>5. WriteInOrder(s)
      BY <3>4, <1>t DEF WriteInOrder, ActorStates
    <3> QED BY <2>1, <3>1, <3>3, <3>5, ActorReads
  <2> QED BY <1>9, <2>2, <2>3 DEF FinishStep
<1>10. ASSUME NEW a \in Actors, WriteStep(a) PROVE PInv'
  <2>1. /\ pFailures' \in Nat /\ UNCHANGED plan
        /\ actor[a].p \in Plans /\ actor[a].i \in Steps /\ actor[a].to \in {"completed", "failed"}
    BY <1>10, <1>t, <1>f DEF WriteStep, AtPlan, ActorOK
  <2>2. InOrderBefore(actor[a].p, actor[a].i)
    BY <1>10 DEF WriteStep, AtPlan, PInv, WritesInOrder, WriteInOrder
  <2>3. CASE UNCHANGED <<step, done>> /\ Rest(a)
    BY <2>1, <2>3, <1>r, ActorReads DEF Rest
  <2>4. ASSUME UpdateStep(actor[a].p, actor[a].i, actor[a].to),
               done' = IF actor[a].to = "completed"
                         THEN done \cup {<<actor[a].p, actor[a].i>>} ELSE done,
               Move(a, "plan") \/ Rest(a)
        PROVE  PInv'
    <3> DEFINE s == IF Move(a, "plan") THEN [actor[a] EXCEPT !.pc = "plan"] ELSE Resting
    <3>1. actor' = [actor EXCEPT ![a] = s]
      BY <2>4 DEF Move, Rest
    <3>2. ActorOK(s) /\ s.pc \in {"idle", "tool", "plan"}
      BY <1>t, <1>r, <2>1 DEF ActorOK, ActorStates
    <3>3. /\ done' \subseteq Plans \X Steps /\ done \subseteq done'
          /\ actor[a].to = "completed" => <<actor[a].p, actor[a].i>> \in done'
      BY <2>4, <2>1, <1>t
    <3>4. actor[a].to \in StepStatuses
      BY <2>1 DEF StepStatuses
    <3> HIDE DEF s
    <3> QED BY <2>1, <2>2, <2>4, <3>1, <3>2, <3>3, <3>4, StepWritten DEF UpdateStep
  <2> QED BY <1>10, <2>3, <2>4 DEF WriteStep
<1>11. ASSUME NEW a \in Actors, completePlanIfDone(a) PROVE PInv'
  <2>1. pFailures' \in Nat /\ UNCHANGED <<plan, step, done>>
    BY <1>11, <1>t DEF completePlanIfDone
  <2>2. CASE Rest(a)
    BY <2>1, <2>2, <1>r, ActorReads DEF Rest
  <2>3. CASE /\ actor[a].to = "failed" \/ AllStepsDone(actor[a].p)
             /\ Move(a, "plan_write")
    <3> DEFINE s == [actor[a] EXCEPT !.pc = "plan_write"]
    <3>1. actor' = [actor EXCEPT ![a] = s]
      BY <2>3 DEF Move
    <3>2. actor[a].p \in Plans /\ actor[a].i \in Steps /\ actor[a].to \in {"completed", "failed"}
      BY <1>11, <1>t DEF completePlanIfDone, AtPlan, ActorOK
    <3>3. ActorOK(s)
      BY <1>t, <3>2 DEF ActorOK, ActorStates
    <3>4. actor[a].to = "completed" => \A i \in Steps : <<actor[a].p, i>> \in done
      BY <2>3, <3>2 DEF AllStepsDone, PInv, CompletedIsDone
    <3>5. WriteInOrder(s)
      BY <3>4, <1>t DEF WriteInOrder, ActorStates
    <3> QED BY <2>1, <3>1, <3>3, <3>5, ActorReads
  <2> QED BY <1>11, <2>2, <2>3 DEF completePlanIfDone
<1>12. ASSUME NEW a \in Actors, WritePlan(a) PROVE PInv'
  <2>1. /\ pFailures' \in Nat /\ UNCHANGED <<step, done>> /\ Rest(a)
        /\ actor[a].p \in Plans /\ actor[a].to \in {"completed", "failed"}
    BY <1>12, <1>t, <1>f DEF WritePlan, AtPlan, ActorOK
  <2>2. actor[a].to = "completed" => \A i \in Steps : <<actor[a].p, i>> \in done
    BY <1>12 DEF WritePlan, AtPlan, PInv, WritesInOrder, WriteInOrder
  <2>3. CASE UNCHANGED plan
    BY <2>1, <2>3, <1>r, ActorReads DEF Rest
  <2>4. CASE UpdatePlan(actor[a].p, actor[a].to)
    BY <2>1, <2>2, <2>4, <1>r, PlanWritten DEF Rest, UpdatePlan
  <2> QED BY <1>12, <2>3, <2>4 DEF WritePlan
<1>13. CASE UNCHANGED planVars
  BY <1>13 DEF planVars, PInv, PlanTypeOK, ActorOK, PlanInOrder, StepsInOrder, CompletedPlanDone,
               CompletedIsDone, WritesInOrder, WriteInOrder, InOrderBefore
<1> QED BY <1>1, <1>2, <1>3, <1>4, <1>5, <1>6, <1>7, <1>8, <1>9, <1>10, <1>11, <1>12, <1>13
        DEF PlanNext

-----------------------------------------------------------------------------
(***************************************************************************)
(* The plan service keeps plans and steps of the statuses it knows, and    *)
(* every actor works on a plan and a step that it has read.                *)
(***************************************************************************)
THEOREM PlanTypeCorrect == PlanSpec => []PlanTypeOK
<1>1. PInv => PlanTypeOK
  BY DEF PInv
<1> QED BY <1>1, PlanInitInv, PlanNextInv, PTL DEF PlanSpec

(***************************************************************************)
(* Plans are worked off in order: no step is started (StartStep), and so   *)
(* none is completed or failed, before each earlier one has been completed,*)
(* and a plan is completed (completePlanIfDone) only after all its steps,  *)
(* although the service checks and writes without a lock.                  *)
(***************************************************************************)
THEOREM PlanOrderKept == PlanSpec => []PlanInOrder
<1>1. PInv => PlanInOrder
  BY DEF PInv
<1> QED BY <1>1, PlanInitInv, PlanNextInv, PTL DEF PlanSpec
-----------------------------------------------------------------------------
(* Handoffs                                                                *)

Exists(t) == task[t].status # "absent"

\* A task names a parent that is there, and an id that is not used names nothing.
TreeOK ==
  \A t \in Tasks :
    /\ ~Exists(t) => task[t] = NoTask /\ origin[t] = "none"
    /\ task[t].parent # NoOne => Exists(task[t].parent)

\* A handoff that waits for an answer, or for an approval, has no child.
RowOK(row) ==
  /\ row.status \in {"created", "rejected"} => row.child = NoOne
  /\ "approve_artifacts" \in Grants /\ "artifacts" \in row.pkg => row.child = NoOne

RowsOK ==
  \A h \in Handoffs : /\ RowOK(handoff[h])
                      /\ handoff[h].status = "absent" => handoff[h].child = NoOne

\* The handoff of the call is on record, with the child the call knows.
Linked(r) ==
  /\ r.h \in Handoffs /\ handoff[r.h].status # "absent"
  /\ handoff[r.h].child = r.row.child

\* What a call may rely on between two of its steps.
WorkerOK(r) ==
  /\ RowOK(r.row)
  /\ r.pc \in {"idle", "create"} => r.row.child = NoOne
  /\ r.pc = "create" => /\ r.parent \in Tasks /\ Exists(r.parent) /\ r.to \in Agents
                        /\ r.tool => validateHandoffChain(r.parent, r.to)
  /\ r.pc = "write" => r.row.status # "absent"
  /\ r.pc = "save" => r.h \in Handoffs /\ r.row.status \in {"created", "running"}
  /\ r.pc \in {"append", "undo_handoff", "start", "wait", "write"} => Linked(r)
  /\ r.pc = "undo" => \/ Linked(r)
                      \/ r.h = NoOne /\ hFailures >= 1
  /\ r.pc = "complete" => /\ r.h \in Handoffs /\ handoff[r.h].status # "absent"
                          /\ r.row.child = NoOne \/ Linked(r)
  /\ r.tool /\ r.pc \in {"complete", "write"} => /\ r.row.child # NoOne /\ Linked(r)
                                                 /\ task[r.row.child].status = "completed"
  /\ r.pc \in {"start", "wait"} => r.row.child # NoOne
  /\ r.pc = "provider" => /\ r.run \in Tasks /\ r.row.child \in Tasks
                          /\ origin[r.row.child] = "agent_tool"

\* The child that a call is creating waits to be started, and is no other call's.
Creates(w, t) == worker[w].pc \in {"save", "append", "undo", "start"} /\ worker[w].row.child = t

CreatedOnce ==
  \A w \in Workers, t \in Tasks : Creates(w, t) =>
    /\ task[t].status = "created"
    /\ \A v \in Workers : Creates(v, t) => v = w

\* An open delegation record belongs to a call of an exported tool.
RecordsOpen ==
  hFailures = 0 =>
    \A t \in Tasks : delegation[t] = "invoked" =>
      \E w \in Workers : worker[w].run = t /\ worker[w].pc = "provider"

HandoffInv ==
  /\ HandoffTypeOK
  /\ TreeOK /\ RowsOK /\ (\A w \in Workers : WorkerOK(worker[w]))
  /\ CreatedOnce /\ RecordsOpen /\ NoOrphanChild /\ NoDelegationCycle

\* What no step takes back of a task and of a handoff.
TasksKept ==
  \A t \in Tasks : Exists(t) =>
    /\ Exists(t)' /\ origin'[t] = origin[t]
    /\ task'[t].agent = task[t].agent /\ task'[t].parent = task[t].parent
    /\ task[t].status \in {"completed", "cancelled"} => task'[t].status = task[t].status

HandoffsKept ==
  \A h \in Handoffs : handoff[h].status # "absent" =>
    handoff'[h].status # "absent" /\ handoff'[h].child = handoff[h].child

-----------------------------------------------------------------------------
(***************************************************************************)
(* A chain has its task and the parents of its members, and nothing that a *)
(* set with these lacks.                                                   *)
(***************************************************************************)
LEMMA ChainFacts ==
  ASSUME HandoffTypeOK, NEW t \in Tasks
  PROVE  t \in Chain(t) /\ Chain(t) \in SUBSET Tasks /\ HasParents(Chain(t))
<1>1. t \in Chain(t) /\ Chain(t) \in SUBSET Tasks
  BY DEF Chain
<1>2. ASSUME NEW v \in Chain(t), task[v].parent # NoOne PROVE task[v].parent \in Chain(t)
  <2>1. v \in Tasks /\ task[v].parent \in Tasks
    BY <1>1, <1>2 DEF HandoffTypeOK, TaskRows
  <2>2. ASSUME NEW S \in SUBSET Tasks, t \in S, HasParents(S) PROVE task[v].parent \in S
    <3>1. v \in S
      BY <2>2 DEF Chain
    <3> QED BY <1>2, <2>2, <3>1 DEF HasParents
  <2> QED BY <2>1, <2>2 DEF Chain
<1> QED BY <1>1, <1>2 DEF HasParents

LEMMA ChainLeast ==
  ASSUME NEW t \in Tasks, NEW S \in SUBSET Tasks, t \in S, HasParents(S)
  PROVE  Chain(t) \in SUBSET S
BY DEF Chain

LEMMA ChainExists ==
  ASSUME HandoffTypeOK, TreeOK, NEW t \in Tasks, Exists(t)
  PROVE  \A u \in Chain(t) : u \in Tasks /\ Exists(u)
<1>1. PICK S : S = {u \in Tasks : Exists(u)}
  OBVIOUS
<1>2. S \in SUBSET Tasks /\ t \in S
  BY <1>1
<1>3. HasParents(S)
  BY <1>1 DEF HasParents, TreeOK, HandoffTypeOK, TaskRows
<1> QED BY <1>1, <1>2, <1>3, ChainLeast

(***************************************************************************)
(* Tasks that are created later do not change the chain of a task.         *)
(***************************************************************************)
LEMMA ChainKept ==
  ASSUME HandoffTypeOK, HandoffTypeOK', TreeOK, TasksKept, NEW t \in Tasks, Exists(t)
  PROVE  Chain(t)' = Chain(t)
<1>1. PICK E : E = {u \in Tasks : Exists(u)}
  OBVIOUS
<1>2. \A v \in E : task'[v].parent = task[v].parent /\ task[v].parent \in E \cup {NoOne}
  BY <1>1 DEF TasksKept, TreeOK, HandoffTypeOK, TaskRows
<1>3. t \in E /\ E \in SUBSET Tasks
  BY <1>1
<1>4. ASSUME NEW u \in Chain(t)' PROVE u \in Chain(t)
  <2>1. ASSUME NEW S \in SUBSET Tasks, t \in S, HasParents(S) PROVE u \in S
    <3>1. PICK R : R = S \cap E
      OBVIOUS
    <3>2. R \in SUBSET Tasks /\ t \in R
      BY <1>3, <2>1, <3>1
    <3>3. HasParents(R)'
      BY <1>2, <2>1, <3>1 DEF HasParents
    <3>4. u \in R
      BY <3>2, <3>3 DEF Chain
    <3> QED BY <3>1, <3>4
  <2> QED BY <2>1 DEF Chain
<1>5. ASSUME NEW u \in Chain(t) PROVE u \in Chain(t)'
  <2>1. ASSUME NEW S \in SUBSET Tasks, t \in S, HasParents(S)' PROVE u \in S
    <3>1. PICK R : R = S \cap E
      OBVIOUS
    <3>2. R \in SUBSET Tasks /\ t \in R
      BY <1>3, <2>1, <3>1
    <3>3. HasParents(R)
      BY <1>2, <2>1, <3>1 DEF HasParents
    <3>4. u \in R
      BY <3>2, <3>3 DEF Chain
    <3> QED BY <3>1, <3>4
  <2> QED BY <2>1 DEF Chain
<1> QED BY <1>4, <1>5

LEMMA ValidChainKept ==
  ASSUME HandoffTypeOK, HandoffTypeOK', TreeOK, TasksKept, NEW t \in Tasks, Exists(t),
         NEW to \in Agents, validateHandoffChain(t, to)
  PROVE  validateHandoffChain(t, to)'
<1>1. Chain(t)' = Chain(t)
  BY ChainKept
<1>2. \A u \in Chain(t) : task'[u].agent = task[u].agent
  BY ChainExists DEF TasksKept
<1> QED BY <1>1, <1>2 DEF validateHandoffChain

\* The chain of a new task is the task and its parent's chain.
LEMMA NewChain ==
  ASSUME HandoffTypeOK, HandoffTypeOK', TreeOK, TasksKept, NEW p \in Tasks, Exists(p),
         NEW c \in Tasks, ~Exists(c), task'[c].parent = p
  PROVE  /\ Chain(c)' \in SUBSET ({c} \cup Chain(p))
         /\ c \notin Chain(p)
<1>1. Chain(p)' = Chain(p) /\ p \in Chain(p) /\ Chain(p) \in SUBSET Tasks
  BY ChainKept, ChainFacts
<1>2. HasParents(Chain(p))'
  <2>1. \A v \in Chain(p) : task[v].parent \in Chain(p) \cup {NoOne}
    BY ChainFacts DEF HasParents
  <2>2. \A v \in Chain(p) : task'[v].parent = task[v].parent
    BY ChainExists DEF TasksKept
  <2> QED BY <1>1, <2>1, <2>2 DEF HasParents
<1>3. PICK S : S = {c} \cup Chain(p)
  OBVIOUS
<1>4. S \in SUBSET Tasks /\ c \in S
  BY <1>1, <1>3
<1>5. HasParents(S)'
  BY <1>1, <1>2, <1>3 DEF HasParents
<1>6. Chain(c)' \in SUBSET S
  BY <1>4, <1>5 DEF Chain
<1> QED BY <1>3, <1>6, ChainExists

\* One task more makes a chain at most one longer.
LEMMA LongerByOne ==
  ASSUME NEW C \in SUBSET Tasks, NEW c \in Tasks, c \notin C, NEW D \in SUBSET ({c} \cup C)
  PROVE  Cardinality(D) \in Nat /\ Cardinality(C) \in Nat /\ Cardinality(D) <= Cardinality(C) + 1
<1>1. IsFiniteSet(C)
  BY FS_Subset, HandoffAssumption
<1>2. PICK B : B = C \cup {c}
  OBVIOUS
<1>3. IsFiniteSet(B) /\ Cardinality(B) = Cardinality(C) + 1
  BY <1>1, <1>2, FS_AddElement
<1>4. D \in SUBSET B
  BY <1>2
<1>5. IsFiniteSet(D) /\ Cardinality(D) <= Cardinality(B)
  BY <1>3, <1>4, FS_Subset
<1> QED BY <1>1, <1>3, <1>5, FS_CardinalityType

(***************************************************************************)
(* No step disturbs NoDelegationCycle unless it creates a task through the *)
(* tool, and that task's chain has been checked.                           *)
(***************************************************************************)
LEMMA CycleKept ==
  ASSUME HandoffTypeOK, HandoffTypeOK', TreeOK, TasksKept, NoDelegationCycle,
         \A c \in Tasks : ~Exists(c) /\ origin'[c] = "delegate" =>
           \E p \in Tasks : /\ Exists(p) /\ task'[c].parent = p /\ task'[c].agent \in Agents
                            /\ validateHandoffChain(p, task'[c].agent)
  PROVE  NoDelegationCycle'
<1> SUFFICES ASSUME NEW t \in Tasks, origin'[t] = "delegate"
             PROVE  /\ \A u \in Chain(t)' \ {t} : task'[u].agent # task'[t].agent
                    /\ MaxDepth > 0 => Cardinality(Chain(t)') - 1 <= MaxDepth
  BY DEF NoDelegationCycle
<1>1. CASE Exists(t)
  <2>1. Chain(t)' = Chain(t) /\ origin[t] = "delegate" /\ task'[t].agent = task[t].agent
    BY <1>1, ChainKept DEF TasksKept
  <2>2. \A u \in Chain(t) : task'[u].agent = task[u].agent
    BY <1>1, ChainExists DEF TasksKept
  <2> QED BY <2>1, <2>2 DEF NoDelegationCycle
<1>2. CASE ~Exists(t)
  <2>1. PICK p \in Tasks : /\ Exists(p) /\ task'[t].parent = p /\ task'[t].agent \in Agents
                           /\ validateHandoffChain(p, task'[t].agent)
    BY <1>2
  <2>2. Chain(t)' \in SUBSET ({t} \cup Chain(p)) /\ t \notin Chain(p)
    BY <1>2, <2>1, NewChain
  <2>3. \A u \in Chain(p) : task'[u].agent = task[u].agent /\ task[u].agent # task'[t].agent
    BY <2>1, ChainExists DEF TasksKept, validateHandoffChain
  <2>4. MaxDepth > 0 => Cardinality(Chain(t)') - 1 <= MaxDepth
    <3>1. Chain(p) \in SUBSET Tasks
      BY ChainFacts
    <3>2. /\ Cardinality(Chain(t)') \in Nat /\ Cardinality(Chain(p)) \in Nat
          /\ Cardinality(Chain(t)') <= Cardinality(Chain(p)) + 1
      BY <2>2, <3>1, LongerByOne
    <3>3. MaxDepth > 0 => Cardinality(Chain(p)) <= MaxDepth
      BY <2>1 DEF validateHandoffChain
    <3> QED BY <3>2, <3>3, HandoffAssumption
  <2> QED BY <2>2, <2>3, <2>4
<1> QED BY <1>1, <1>2

-----------------------------------------------------------------------------
(***************************************************************************)
(* What a call relies on stays when the others move.                       *)
(***************************************************************************)
LEMMA WorkerKept ==
  ASSUME HandoffTypeOK, HandoffTypeOK', TreeOK, TasksKept, HandoffsKept, hFailures <= hFailures',
         NEW r \in WorkerStates, WorkerOK(r)
  PROVE  WorkerOK(r)'
<1>1. hFailures >= 1 => hFailures' >= 1
  BY HandoffAssumption DEF HandoffTypeOK
<1>2. r.row.child \in Tasks \cup {NoOne}
  BY DEF WorkerStates, HandoffRows
<1>3. Linked(r) => Linked(r)'
  BY DEF Linked, HandoffsKept
<1>4. r.pc = "create" => /\ r.parent \in Tasks /\ Exists(r.parent)' /\ r.to \in Agents
                         /\ r.tool => validateHandoffChain(r.parent, r.to)'
  <2> SUFFICES ASSUME r.pc = "create"
               PROVE  /\ r.parent \in Tasks /\ Exists(r.parent)' /\ r.to \in Agents
                      /\ r.tool => validateHandoffChain(r.parent, r.to)'
    OBVIOUS
  <2>1. /\ r.parent \in Tasks /\ Exists(r.parent) /\ r.to \in Agents
        /\ r.tool => validateHandoffChain(r.parent, r.to)
    BY DEF WorkerOK
  <2> QED BY <2>1, ValidChainKept DEF TasksKept
<1>5. r.pc = "complete" => /\ r.h \in Handoffs /\ handoff'[r.h].status # "absent"
                           /\ r.row.child = NoOne \/ Linked(r)'
  BY <1>3 DEF WorkerOK, HandoffsKept
<1>6. r.tool /\ r.pc \in {"complete", "write"} => /\ r.row.child # NoOne /\ Linked(r)'
                                                  /\ task'[r.row.child].status = "completed"
  BY <1>2, <1>3 DEF WorkerOK, TasksKept, Exists
<1>7. r.pc = "provider" => /\ r.run \in Tasks /\ r.row.child \in Tasks
                           /\ origin'[r.row.child] = "agent_tool"
  BY DEF WorkerOK, TreeOK, TasksKept
<1> QED BY <1>1, <1>3, <1>4, <1>5, <1>6, <1>7 DEF WorkerOK, RowOK

LEMMA WorkerFacts ==
  ASSUME HandoffInv, NEW w \in Workers
  PROVE  /\ worker[w] \in WorkerStates /\ WorkerOK(worker[w])
         /\ worker[w].row \in HandoffRows /\ worker[w].row.child \in Tasks \cup {NoOne}
         /\ worker[w].parent \in Tasks \cup {NoOne} /\ worker[w].h \in Handoffs \cup {NoOne}
         /\ worker[w].tool \in BOOLEAN
<1>1. worker[w] \in WorkerStates /\ WorkerOK(worker[w])
  BY DEF HandoffInv, HandoffTypeOK
<1> QED BY <1>1 DEF WorkerStates, HandoffRows

LEMMA FreeFacts ==
  /\ Free \in WorkerStates /\ NoHandoff \in HandoffRows
  /\ Free.pc = "idle" /\ Free.row = NoHandoff /\ Free.run = NoOne /\ Free.tool = FALSE
  /\ Free.h = NoOne /\ NoHandoff.child = NoOne /\ NoHandoff.status = "absent" /\ NoHandoff.pkg = {}
BY DEF Free, NoHandoff, WorkerStates, HandoffRows, WorkerPCs

LEMMA FreeOK == WorkerOK(Free) /\ WorkerOK(Free)'
BY FreeFacts DEF WorkerOK, RowOK

-----------------------------------------------------------------------------
(***************************************************************************)
(* One call moves from one state to the next, r, and writes what it        *)
(* writes: what has to be shown of the step for the invariant to be kept.  *)
(***************************************************************************)
CallWrites(w, r) ==
  /\ worker' = [worker EXCEPT ![w] = r]
  /\ HandoffTypeOK' /\ TasksKept /\ HandoffsKept /\ hFailures <= hFailures'
  /\ TreeOK' /\ RowsOK' /\ NoDelegationCycle'

\* Children that others are creating are left alone, and this call's is still its own.
CreatesAlone(w, r) ==
  /\ \A v \in Workers, t \in Tasks : v # w /\ Creates(v, t) => task'[t].status = "created"
  /\ \A t \in Tasks : r.pc \in {"save", "append", "undo", "start"} /\ r.row.child = t =>
       task'[t].status = "created" /\ (Creates(w, t) \/ ~Exists(t))

\* A child the call forgets is on record, or its creation has been undone; and a new task
\* has a handoff or a call that knows it.
ForgetsNoChild(w, r) ==
  /\ \A t \in Tasks : worker[w].row.child = t =>
       \/ r.row.child = t \/ Linked(worker[w]) \/ origin[t] = "agent_tool"
       \/ task'[t].status = "cancelled" \/ hFailures' > 1
  /\ \A t \in Tasks : ~Exists(t) /\ origin'[t] \in {"delegate", "command"} =>
       r.row.child = t \/ \E h \in Handoffs : handoff'[h].child = t

\* A record that is open is this call's, or was open and is another call's.
OpensOwnRecord(w, r) ==
  hFailures' = 0 =>
    \A t \in Tasks : delegation'[t] = "invoked" =>
      \/ r.run = t /\ r.pc = "provider"
      \/ delegation[t] = "invoked" /\ ~(worker[w].run = t /\ worker[w].pc = "provider")

LEMMA CallStep ==
  ASSUME HandoffInv, NEW w \in Workers, NEW r \in WorkerStates, CallWrites(w, r), WorkerOK(r)',
         CreatesAlone(w, r), ForgetsNoChild(w, r), OpensOwnRecord(w, r)
  PROVE  HandoffInv'
<1>1. /\ HandoffTypeOK /\ HandoffTypeOK' /\ TreeOK /\ TasksKept /\ HandoffsKept
      /\ hFailures <= hFailures'
  BY DEF CallWrites, HandoffInv
<1>2. \A v \in Workers : worker'[v] = IF v = w THEN r ELSE worker[v]
  BY <1>1 DEF CallWrites, HandoffTypeOK
<1>3. ASSUME NEW v \in Workers PROVE WorkerOK(worker[v])'
  <2>1. CASE v = w
    BY <1>2, <2>1 DEF WorkerOK, Linked
  <2>2. CASE v # w
    <3>1. PICK u : u = worker[v]
      OBVIOUS
    <3>2. WorkerOK(u)'
      BY <1>1, <3>1, WorkerFacts, WorkerKept
    <3>3. worker'[v] = u
      BY <1>2, <2>2, <3>1
    <3> QED BY <3>2, <3>3 DEF WorkerOK, Linked
  <2> QED BY <2>1, <2>2
<1>4. CreatedOnce'
  <2> SUFFICES ASSUME NEW v \in Workers, NEW t \in Tasks, Creates(v, t)'
               PROVE  /\ task'[t].status = "created"
                      /\ \A u \in Workers : Creates(u, t)' => u = v
    BY DEF CreatedOnce
  <2>1. \A u \in Workers : u # w => (Creates(u, t)' <=> Creates(u, t))
    BY <1>2 DEF Creates
  <2>2. Creates(w, t)' => task'[t].status = "created" /\ (Creates(w, t) \/ ~Exists(t))
    BY <1>2 DEF Creates, CreatesAlone
  <2>3. \A u \in Workers : Creates(u, t) => Exists(t)
    BY DEF HandoffInv, CreatedOnce, Exists
  <2>4. task'[t].status = "created"
    BY <2>1, <2>2 DEF CreatesAlone
  <2>5. ASSUME NEW u \in Workers, Creates(u, t)' PROVE u = v
    BY <2>1, <2>2, <2>3, <2>5 DEF HandoffInv, CreatedOnce
  <2> QED BY <2>4, <2>5
<1>5. RecordsOpen'
  <2> SUFFICES ASSUME hFailures' = 0, NEW t \in Tasks, delegation'[t] = "invoked"
               PROVE  \E v \in Workers : worker'[v].run = t /\ worker'[v].pc = "provider"
    BY DEF RecordsOpen
  <2>1. hFailures = 0
    BY <1>1, HandoffAssumption DEF HandoffTypeOK
  <2>2. CASE r.run = t /\ r.pc = "provider"
    BY <1>2, <2>2
  <2>3. CASE delegation[t] = "invoked" /\ ~(worker[w].run = t /\ worker[w].pc = "provider")
    <3>1. PICK v \in Workers : worker[v].run = t /\ worker[v].pc = "provider"
      BY <2>1, <2>3 DEF HandoffInv, RecordsOpen
    <3> QED BY <1>2, <2>3, <3>1
  <2> QED BY <2>2, <2>3 DEF OpensOwnRecord
<1>6. NoOrphanChild'
  <2> SUFFICES ASSUME hFailures' <= 1, NEW t \in Tasks, origin'[t] \in {"delegate", "command"},
                      task'[t].status # "cancelled"
               PROVE  \/ \E h \in Handoffs : handoff'[h].child = t
                      \/ \E v \in Workers : worker'[v].row.child = t
    BY DEF NoOrphanChild
  <2>1. hFailures <= 1 /\ ~(hFailures' > 1)
    BY <1>1, HandoffAssumption DEF HandoffTypeOK
  <2>2. CASE ~Exists(t)
    BY <1>2, <2>2 DEF ForgetsNoChild
  <2>3. CASE Exists(t)
    <3>1. origin[t] = origin'[t] /\ task[t].status # "cancelled"
      BY <1>1, <2>3 DEF TasksKept
    <3>2. t # NoOne
      BY HandoffAssumption
    <3>3. ASSUME NEW h \in Handoffs, handoff[h].child = t PROVE handoff'[h].child = t
      BY <1>1, <3>2, <3>3 DEF HandoffInv, RowsOK, HandoffsKept
    <3>4. ASSUME NEW v \in Workers, worker[v].row.child = t
          PROVE  \/ \E h \in Handoffs : handoff'[h].child = t
                 \/ \E u \in Workers : worker'[u].row.child = t
      <4>1. CASE v # w
        BY <1>2, <3>4, <4>1
      <4>2. CASE v = w /\ r.row.child = t
        BY <1>2, <4>2
      <4>3. CASE v = w /\ Linked(worker[w])
        BY <3>3, <3>4, <4>3 DEF Linked
      <4> QED BY <2>1, <3>1, <3>4, <4>1, <4>2, <4>3 DEF ForgetsNoChild
    <3> QED BY <2>1, <3>1, <3>3, <3>4 DEF HandoffInv, NoOrphanChild
  <2> QED BY <2>2, <2>3
<1> QED BY <1>1, <1>3, <1>4, <1>5, <1>6 DEF HandoffInv, CallWrites

\* A step that leaves tasks and delegation records alone.
LEMMA RowStep ==
  ASSUME HandoffInv, NEW w \in Workers, NEW r \in WorkerStates,
         worker' = [worker EXCEPT ![w] = r], WorkerOK(r)',
         UNCHANGED <<task, origin, delegation>>,
         handoff' \in [Handoffs -> HandoffRows], HandoffsKept, RowsOK',
         hFailures' \in 0..MaxHandoffFailures, hFailures <= hFailures',
         worker[w].pc # "provider",
         r.pc \in {"save", "append", "undo", "start"} => Creates(w, r.row.child) \/ r.row.child = NoOne,
         worker[w].row.child \in {NoOne, r.row.child} \/ Linked(worker[w])
  PROVE  HandoffInv'
<1>1. HandoffTypeOK'
  BY DEF HandoffInv, HandoffTypeOK
<1>2. TasksKept
  BY DEF TasksKept, Exists
<1>3. TreeOK'
  BY DEF HandoffInv, TreeOK, Exists
<1>4. NoDelegationCycle'
  <2>1. \A c \in Tasks : ~Exists(c) => origin'[c] # "delegate"
    BY DEF HandoffInv, TreeOK
  <2> QED BY <1>1, <1>2, <2>1, CycleKept DEF HandoffInv
<1>5. CallWrites(w, r)
  BY <1>1, <1>2, <1>3, <1>4 DEF CallWrites
<1>6. CreatesAlone(w, r)
  BY HandoffAssumption DEF CreatesAlone, HandoffInv, CreatedOnce
<1>7. ForgetsNoChild(w, r)
  BY HandoffAssumption DEF ForgetsNoChild, HandoffInv, TreeOK
<1>8. OpensOwnRecord(w, r)
  BY DEF OpensOwnRecord
<1> QED BY <1>5, <1>6, <1>7, <1>8, CallStep

\* A step that writes nothing but the call's own state.
LEMMA QuietCall ==
  ASSUME HandoffInv, NEW w \in Workers, NEW r \in WorkerStates,
         worker' = [worker EXCEPT ![w] = r], WorkerOK(r),
         UNCHANGED <<task, origin, handoff, delegation>>,
         hFailures' \in 0..MaxHandoffFailures, hFailures <= hFailures',
         worker[w].pc # "provider",
         r.pc \in {"save", "append", "undo", "start"} => Creates(w, r.row.child) \/ r.row.child = NoOne,
         worker[w].row.child \in {NoOne, r.row.child} \/ Linked(worker[w])
  PROVE  HandoffInv'
<1>1. HandoffTypeOK'
  BY DEF HandoffInv, HandoffTypeOK
<1>2. TasksKept /\ HandoffsKept
  BY DEF TasksKept, HandoffsKept, Exists
<1>3. RowsOK' /\ handoff' \in [Handoffs -> HandoffRows]
  BY DEF HandoffInv, HandoffTypeOK, RowsOK, RowOK
<1>4. WorkerOK(r)'
  BY <1>1, <1>2, WorkerKept DEF HandoffInv
<1> QED BY <1>2, <1>3, <1>4, RowStep

-----------------------------------------------------------------------------
(* The steps that write no row.                                            *)

LEMMA ReturnStep ==
  ASSUME HandoffInv, NEW w \in Workers, Return(w), UNCHANGED <<task, origin, handoff, delegation>>,
         hFailures' \in 0..MaxHandoffFailures, hFailures <= hFailures',
         worker[w].pc # "provider", worker[w].row.child = NoOne \/ Linked(worker[w])
  PROVE  HandoffInv'
<1>1. worker' = [worker EXCEPT ![w] = Free]
  BY DEF Return
<1>2. Free.pc \notin {"save", "append", "undo", "start"}
  BY FreeFacts
<1> QED BY <1>1, <1>2, FreeFacts, FreeOK, QuietCall

LEMMA FailureCounts ==
  ASSUME HandoffInv
  PROVE  /\ StoreOK => hFailures' \in 0..MaxHandoffFailures /\ hFailures <= hFailures'
         /\ StoreFails => /\ hFailures' \in 0..MaxHandoffFailures /\ hFailures <= hFailures'
                          /\ hFailures' >= 1 /\ (hFailures >= 1 => hFailures' > 1)
BY HandoffAssumption DEF HandoffInv, HandoffTypeOK, StoreOK, StoreFails

LEMMA DelegateStep ==
  ASSUME HandoffInv, NEW w \in Workers, NEW t \in Tasks \cup {NoOne}, NEW parent \in Tasks,
         NEW to \in Agents, At(w, "idle"), Delegate(w, t, parent, to)
  PROVE  HandoffInv'
<1>1. PICK f : f = Free
  OBVIOUS
<1>2. PICK r : r = [f EXCEPT !.pc = "create", !.run = t, !.tool = TRUE, !.parent = parent, !.to = to]
  OBVIOUS
<1>3. f \in WorkerStates /\ f.row = NoHandoff
  BY <1>1, FreeFacts
<1>4. r \in WorkerStates
  BY <1>2, <1>3 DEF WorkerStates, WorkerPCs
<1>5. r.pc = "create" /\ r.parent = parent /\ r.to = to /\ r.row = NoHandoff
  BY <1>2, <1>3 DEF WorkerStates
<1>6. WorkerOK(r)
  BY <1>5, FreeFacts DEF WorkerOK, RowOK, Delegate, Exists
<1>7. /\ worker' = [worker EXCEPT ![w] = r] /\ UNCHANGED <<task, origin, handoff, delegation>>
      /\ StoreOK
  BY <1>1, <1>2 DEF Delegate, StoreOK
<1>8. worker[w].pc = "idle" /\ worker[w].row.child = NoOne
  BY WorkerFacts DEF At, WorkerOK
<1> QED BY <1>4, <1>5, <1>6, <1>7, <1>8, FailureCounts, QuietCall

LEMMA CommandCreateStep ==
  ASSUME HandoffInv, NEW w \in Workers, NEW parent \in Tasks, NEW to \in Agents,
         CommandCreate(w, parent, to)
  PROVE  HandoffInv'
<1>1. PICK f : f = Free
  OBVIOUS
<1>2. PICK r : r = [f EXCEPT !.pc = "create", !.parent = parent, !.to = to]
  OBVIOUS
<1>3. f \in WorkerStates /\ f.row = NoHandoff /\ f.tool = FALSE
  BY <1>1, FreeFacts
<1>4. r \in WorkerStates
  BY <1>2, <1>3 DEF WorkerStates, WorkerPCs
<1>5. r.pc = "create" /\ r.parent = parent /\ r.to = to /\ r.row = NoHandoff /\ r.tool = FALSE
  BY <1>2, <1>3 DEF WorkerStates
<1>6. WorkerOK(r)
  BY <1>5, FreeFacts DEF WorkerOK, RowOK, CommandCreate, Exists
<1>7. /\ worker' = [worker EXCEPT ![w] = r] /\ UNCHANGED <<task, origin, handoff, delegation>>
      /\ StoreOK
  BY <1>1, <1>2 DEF CommandCreate, StoreOK
<1>8. worker[w].pc = "idle" /\ worker[w].row.child = NoOne
  BY WorkerFacts DEF CommandCreate, Command, At, WorkerOK
<1> QED BY <1>4, <1>5, <1>6, <1>7, <1>8, FailureCounts, QuietCall

\* The call goes on with what it knows.
LEMMA GotoStep ==
  ASSUME HandoffInv, NEW w \in Workers, NEW pc \in WorkerPCs, Goto(w, pc),
         UNCHANGED <<task, origin, handoff, delegation>>,
         hFailures' \in 0..MaxHandoffFailures, hFailures <= hFailures',
         worker[w].pc \in {"append", "wait"}, pc \in {"undo", "start", "complete"},
         pc \in {"undo", "start"} => worker[w].pc = "append",
         pc \in {"start", "complete"} => worker[w].row.child # NoOne,
         pc = "complete" => task[worker[w].row.child].status = "completed"
  PROVE  HandoffInv'
<1>1. PICK r0 : r0 = worker[w]
  OBVIOUS
<1>2. PICK r : r = [r0 EXCEPT !.pc = pc]
  OBVIOUS
<1>3. r0 \in WorkerStates /\ WorkerOK(r0) /\ r0.row.child \in Tasks \cup {NoOne}
  BY <1>1, WorkerFacts
<1>4. r \in WorkerStates
  BY <1>2, <1>3 DEF WorkerStates
<1>5. r.pc = pc /\ r.h = r0.h /\ r.row = r0.row /\ r.tool = r0.tool
  BY <1>2, <1>3 DEF WorkerStates
<1>6. Linked(r0)
  BY <1>1, <1>3 DEF WorkerOK
<1>7. Linked(r) /\ RowOK(r.row)
  BY <1>3, <1>5, <1>6 DEF Linked, WorkerOK
<1>8. WorkerOK(r)
  BY <1>1, <1>5, <1>7 DEF WorkerOK, Linked
<1>9. worker' = [worker EXCEPT ![w] = r]
  BY <1>1, <1>2 DEF Goto
<1>10. pc \in {"undo", "start"} => Creates(w, r.row.child)
  BY <1>1, <1>5 DEF Creates
<1> QED BY <1>1, <1>4, <1>5, <1>8, <1>9, <1>10, QuietCall

LEMMA AppendEventStep ==
  ASSUME HandoffInv, NEW w \in Workers, AppendEvent(w)
  PROVE  HandoffInv'
<1>1. /\ UNCHANGED <<task, origin, handoff, delegation>> /\ worker[w].pc = "append"
      /\ hFailures' \in 0..MaxHandoffFailures /\ hFailures <= hFailures'
  BY FailureCounts DEF AppendEvent, At
<1>2. CASE Goto(w, "undo")
  <2>1. "undo" \in WorkerPCs
    BY DEF WorkerPCs
  <2> QED BY <1>1, <1>2, <2>1, GotoStep
<1>3. CASE worker[w].row.child # NoOne /\ Goto(w, "start")
  <2>1. "start" \in WorkerPCs
    BY DEF WorkerPCs
  <2> QED BY <1>1, <1>3, <2>1, GotoStep
<1>4. CASE Return(w)
  <2>1. Linked(worker[w])
    BY <1>1, WorkerFacts DEF WorkerOK
  <2> QED BY <1>1, <1>4, <2>1, ReturnStep
<1> QED BY <1>2, <1>3, <1>4 DEF AppendEvent

LEMMA AfterTaskRunStep ==
  ASSUME HandoffInv, NEW w \in Workers, AfterTaskRun(w)
  PROVE  HandoffInv'
<1>1. /\ UNCHANGED <<task, origin, handoff, delegation>> /\ worker[w].pc = "wait"
      /\ hFailures' \in 0..MaxHandoffFailures /\ hFailures <= hFailures'
  BY FailureCounts DEF AfterTaskRun, At, StoreOK
<1>2. Linked(worker[w]) /\ worker[w].row.child # NoOne
  BY <1>1, WorkerFacts DEF WorkerOK
<1>3. CASE task[worker[w].row.child].status = "completed" /\ Goto(w, "complete")
  <2>1. "complete" \in WorkerPCs
    BY DEF WorkerPCs
  <2> QED BY <1>1, <1>2, <1>3, <2>1, GotoStep
<1>4. CASE Return(w)
  BY <1>1, <1>2, <1>4, ReturnStep
<1> QED BY <1>3, <1>4 DEF AfterTaskRun

LEMMA CompleteReadStep ==
  ASSUME HandoffInv, NEW w \in Workers, CompleteRead(w)
  PROVE  HandoffInv'
<1>1. PICK r0 : r0 = worker[w]
  OBVIOUS
<1>2. r0 \in WorkerStates /\ WorkerOK(r0) /\ r0.pc = "complete"
  BY <1>1, WorkerFacts DEF CompleteRead, At
<1>3. r0.h \in Handoffs /\ handoff[r0.h].status # "absent" /\ (r0.row.child = NoOne \/ Linked(r0))
  BY <1>2 DEF WorkerOK
<1>4. PICK row0 : row0 = handoff[r0.h]
  OBVIOUS
<1>5. row0 \in HandoffRows /\ RowOK(row0)
  BY <1>3, <1>4 DEF HandoffInv, HandoffTypeOK, RowsOK
<1>6. PICK row : row = [row0 EXCEPT !.status = "completed"]
  OBVIOUS
<1>7. row \in HandoffRows /\ row.status = "completed" /\ row.child = row0.child /\ row.pkg = row0.pkg
  BY <1>5, <1>6 DEF HandoffRows
<1>8. PICK r : r = [r0 EXCEPT !.pc = "write", !.row = row]
  OBVIOUS
<1>9. r \in WorkerStates
  BY <1>2, <1>7, <1>8 DEF WorkerStates, WorkerPCs
<1>10. r.pc = "write" /\ r.h = r0.h /\ r.row = row /\ r.tool = r0.tool
  BY <1>2, <1>8 DEF WorkerStates
<1>11. Linked(r) /\ RowOK(row)
  BY <1>3, <1>4, <1>5, <1>7, <1>10 DEF Linked, RowOK
<1>12. WorkerOK(r)
  BY <1>2, <1>4, <1>7, <1>10, <1>11 DEF WorkerOK, Linked
<1>13. /\ worker' = [worker EXCEPT ![w] = r] /\ UNCHANGED <<task, origin, handoff, delegation>>
       /\ StoreOK
  BY <1>1, <1>4, <1>6, <1>8 DEF CompleteRead, StoreOK
<1> QED BY <1>1, <1>2, <1>3, <1>4, <1>7, <1>9, <1>10, <1>12, <1>13, FailureCounts, QuietCall DEF Linked

LEMMA CommandCompleteStep ==
  ASSUME HandoffInv, NEW w \in Workers, NEW h \in Handoffs, CommandComplete(w, h)
  PROVE  HandoffInv'
<1>1. PICK f : f = Free
  OBVIOUS
<1>2. PICK r : r = [f EXCEPT !.pc = "complete", !.h = h]
  OBVIOUS
<1>3. f \in WorkerStates /\ f.row = NoHandoff /\ f.tool = FALSE
  BY <1>1, FreeFacts
<1>4. r \in WorkerStates
  BY <1>2, <1>3 DEF WorkerStates, WorkerPCs
<1>5. r.pc = "complete" /\ r.h = h /\ r.row = NoHandoff /\ r.tool = FALSE
  BY <1>2, <1>3 DEF WorkerStates
<1>6. WorkerOK(r)
  BY <1>5, FreeFacts DEF WorkerOK, RowOK, CommandComplete
<1>7. /\ worker' = [worker EXCEPT ![w] = r] /\ UNCHANGED <<task, origin, handoff, delegation>>
      /\ StoreOK
  BY <1>1, <1>2 DEF CommandComplete, StoreOK
<1>8. worker[w].pc = "idle" /\ worker[w].row.child = NoOne
  BY WorkerFacts DEF CommandComplete, Command, At, WorkerOK
<1> QED BY <1>4, <1>5, <1>6, <1>7, <1>8, FailureCounts, QuietCall

LEMMA TransitionStep ==
  ASSUME HandoffInv, NEW w \in Workers, NEW h \in Handoffs,
         NEW next \in {"accepted", "rejected", "failed"}, Transition(w, h, next)
  PROVE  HandoffInv'
<1>1. PICK f : f = Free
  OBVIOUS
<1>2. PICK row0 : row0 = handoff[h]
  OBVIOUS
<1>3. row0 \in HandoffRows /\ RowOK(row0)
  BY <1>2 DEF HandoffInv, HandoffTypeOK, RowsOK
<1>4. PICK row : row = [row0 EXCEPT !.status = next]
  OBVIOUS
<1>5. row \in HandoffRows /\ row.status = next /\ row.child = row0.child /\ row.pkg = row0.pkg
  BY <1>3, <1>4 DEF HandoffRows
<1>6. RowOK(row)
  BY <1>2, <1>3, <1>5 DEF RowOK, Transition, validateTransition
<1>7. PICK r : r = [f EXCEPT !.pc = "write", !.h = h, !.row = row]
  OBVIOUS
<1>8. f \in WorkerStates /\ f.tool = FALSE
  BY <1>1, FreeFacts
<1>9. r \in WorkerStates
  BY <1>5, <1>7, <1>8 DEF WorkerStates, WorkerPCs
<1>10. r.pc = "write" /\ r.h = h /\ r.row = row /\ r.tool = FALSE
  BY <1>7, <1>8 DEF WorkerStates
<1>11. Linked(r)
  BY <1>2, <1>5, <1>10 DEF Linked, Transition
<1>12. WorkerOK(r)
  BY <1>5, <1>6, <1>10, <1>11 DEF WorkerOK
<1>13. /\ worker' = [worker EXCEPT ![w] = r] /\ UNCHANGED <<task, origin, handoff, delegation>>
       /\ StoreOK
  BY <1>1, <1>2, <1>4, <1>7 DEF Transition, StoreOK
<1>14. worker[w].pc = "idle" /\ worker[w].row.child = NoOne
  BY WorkerFacts DEF Transition, Command, At, WorkerOK
<1> QED BY <1>9, <1>10, <1>12, <1>13, <1>14, FailureCounts, QuietCall

-----------------------------------------------------------------------------
(* The steps that write a handoff.                                         *)

LEMMA RowWritten ==
  ASSUME HandoffInv, NEW h \in Handoffs, NEW row \in HandoffRows, RowOK(row), row.status # "absent",
         handoff' = [handoff EXCEPT ![h] = row],
         handoff[h].status = "absent" \/ handoff[h].child = row.child
  PROVE  /\ handoff' \in [Handoffs -> HandoffRows] /\ HandoffsKept /\ RowsOK'
         /\ handoff'[h] = row
<1>1. /\ handoff' \in [Handoffs -> HandoffRows]
      /\ \A g \in Handoffs : handoff'[g] = IF g = h THEN row ELSE handoff[g]
  BY DEF HandoffInv, HandoffTypeOK
<1>2. RowsOK'
  BY <1>1 DEF HandoffInv, RowsOK, RowOK
<1> QED BY <1>1, <1>2 DEF HandoffsKept

LEMMA SaveHandoffStep ==
  ASSUME HandoffInv, NEW w \in Workers, SaveHandoff(w)
  PROVE  HandoffInv'
<1>1. PICK r0 : r0 = worker[w]
  OBVIOUS
<1>2. /\ r0 \in WorkerStates /\ WorkerOK(r0) /\ r0.pc = "save" /\ r0.row \in HandoffRows
      /\ UNCHANGED <<task, origin, delegation>>
  BY <1>1, WorkerFacts DEF SaveHandoff, At
<1>3. r0.h \in Handoffs /\ RowOK(r0.row) /\ r0.row.status \in {"created", "running"}
  BY <1>2 DEF WorkerOK
<1>4. CASE Save(worker[w].h, worker[w].row) /\ StoreOK /\ Goto(w, "append")
  <2>1. PICK r : r = [r0 EXCEPT !.pc = "append"]
    OBVIOUS
  <2>2. r \in WorkerStates
    BY <1>2, <2>1 DEF WorkerStates, WorkerPCs
  <2>3. r.pc = "append" /\ r.h = r0.h /\ r.row = r0.row /\ r.tool = r0.tool
    BY <1>2, <2>1 DEF WorkerStates
  <2>4. handoff[r0.h].status = "absent" /\ handoff' = [handoff EXCEPT ![r0.h] = r0.row]
    BY <1>1, <1>4 DEF Save
  <2>5. /\ handoff' \in [Handoffs -> HandoffRows] /\ HandoffsKept /\ RowsOK'
        /\ handoff'[r0.h] = r0.row
    BY <1>2, <1>3, <2>4, RowWritten
  <2>6. WorkerOK(r)'
    BY <1>3, <2>3, <2>5 DEF WorkerOK, RowOK, Linked
  <2>7. worker' = [worker EXCEPT ![w] = r]
    BY <1>1, <1>4, <2>1 DEF Goto
  <2>8. Creates(w, r.row.child)
    BY <1>1, <1>2, <2>3 DEF Creates
  <2> QED BY <1>1, <1>2, <1>4, <2>2, <2>3, <2>5, <2>6, <2>7, <2>8, FailureCounts, RowStep
<1>5. CASE StoreFails /\ UNCHANGED handoff
           /\ worker' = [worker EXCEPT ![w].pc = "undo", ![w].h = NoOne]
  <2>1. PICK r : r = [r0 EXCEPT !.pc = "undo", !.h = NoOne]
    OBVIOUS
  <2>2. r \in WorkerStates
    BY <1>2, <2>1 DEF WorkerStates, WorkerPCs
  <2>3. r.pc = "undo" /\ r.h = NoOne /\ r.row = r0.row
    BY <1>2, <2>1 DEF WorkerStates
  <2>4. handoff' \in [Handoffs -> HandoffRows] /\ HandoffsKept /\ RowsOK'
    BY <1>5 DEF HandoffInv, HandoffTypeOK, HandoffsKept, RowsOK, RowOK
  <2>5. WorkerOK(r)'
    BY <1>3, <1>5, <2>3, FailureCounts DEF WorkerOK, RowOK
  <2>6. worker' = [worker EXCEPT ![w] = r]
    BY <1>1, <1>5, <2>1
  <2>7. Creates(w, r.row.child)
    BY <1>1, <1>2, <2>3 DEF Creates
  <2> QED BY <1>1, <1>2, <1>5, <2>2, <2>3, <2>4, <2>5, <2>6, <2>7, FailureCounts, RowStep
<1> QED BY <1>4, <1>5 DEF SaveHandoff

\* A row is written back, or not, by a call that is over.
LEMMA WrittenBackStep ==
  ASSUME HandoffInv, NEW w \in Workers, NEW row \in HandoffRows, RowOK(row), row.status # "absent",
         row.child = worker[w].row.child, Linked(worker[w]), worker[w].pc # "provider",
         UNCHANGED handoff \/ Update(worker[w].h, row),
         Return(w), UNCHANGED <<task, origin, delegation>>,
         hFailures' \in 0..MaxHandoffFailures, hFailures <= hFailures'
  PROVE  HandoffInv'
<1>1. CASE UNCHANGED handoff
  BY <1>1, ReturnStep
<1>2. CASE Update(worker[w].h, row)
  <2>1. /\ worker[w].h \in Handoffs /\ handoff[worker[w].h].child = row.child
        /\ handoff' = [handoff EXCEPT ![worker[w].h] = row]
    BY <1>2 DEF Linked, Update
  <2>2. handoff' \in [Handoffs -> HandoffRows] /\ HandoffsKept /\ RowsOK'
    BY <2>1, RowWritten
  <2>3. worker' = [worker EXCEPT ![w] = Free] /\ Free.pc \notin {"save", "append", "undo", "start"}
    BY FreeFacts DEF Return
  <2> QED BY <2>2, <2>3, FreeFacts, FreeOK, RowStep
<1> QED BY <1>1, <1>2

LEMMA WriteBackStep ==
  ASSUME HandoffInv, NEW w \in Workers, WriteBack(w)
  PROVE  HandoffInv'
<1>1. /\ UNCHANGED <<task, origin, delegation>> /\ worker[w].pc = "write" /\ Return(w)
      /\ hFailures' \in 0..MaxHandoffFailures /\ hFailures <= hFailures'
      /\ UNCHANGED handoff \/ Update(worker[w].h, worker[w].row)
  BY FailureCounts DEF WriteBack, At
<1>2. /\ worker[w].row \in HandoffRows /\ RowOK(worker[w].row) /\ Linked(worker[w])
      /\ worker[w].row.status # "absent"
  BY <1>1, WorkerFacts DEF WorkerOK
<1> QED BY <1>1, <1>2, WrittenBackStep

LEMMA FailCreatedChildStep ==
  ASSUME HandoffInv, NEW w \in Workers, failCreatedChild(w)
  PROVE  HandoffInv'
<1>1. PICK row0 : row0 = worker[w].row
  OBVIOUS
<1>2. PICK row : row = [row0 EXCEPT !.status = "failed"]
  OBVIOUS
<1>3. /\ UNCHANGED <<task, origin, delegation>> /\ worker[w].pc = "undo_handoff" /\ Return(w)
      /\ hFailures' \in 0..MaxHandoffFailures /\ hFailures <= hFailures'
      /\ UNCHANGED handoff \/ Update(worker[w].h, row)
  BY <1>1, <1>2, FailureCounts DEF failCreatedChild, At
<1>4. row0 \in HandoffRows /\ RowOK(row0) /\ Linked(worker[w])
  BY <1>1, <1>3, WorkerFacts DEF WorkerOK
<1>5. row \in HandoffRows /\ row.status = "failed" /\ row.child = row0.child /\ row.pkg = row0.pkg
  BY <1>2, <1>4 DEF HandoffRows
<1>6. RowOK(row)
  BY <1>4, <1>5 DEF RowOK
<1> QED BY <1>1, <1>3, <1>4, <1>5, <1>6, WrittenBackStep

-----------------------------------------------------------------------------
(* The steps that write a task.                                            *)

LEMMA TaskStatusWritten ==
  ASSUME HandoffInv, NEW t \in Tasks, NEW s \in Final \cup {"running"}, Exists(t),
         task[t].status \notin {"completed", "cancelled"} \/ task[t].status = s,
         task' = [task EXCEPT ![t].status = s], UNCHANGED origin
  PROVE  /\ task' \in [Tasks -> TaskRows] /\ TasksKept /\ TreeOK'
         /\ \A u \in Tasks : task'[u].status = IF u = t THEN s ELSE task[u].status
         /\ \A u \in Tasks : ~Exists(u) => origin'[u] # "delegate"
<1>1. task \in [Tasks -> TaskRows]
  BY DEF HandoffInv, HandoffTypeOK
<1>2. s # "absent"
  BY DEF Final, Ended
<1>3. task' \in [Tasks -> TaskRows]
  BY <1>1 DEF TaskRows
<1>4. \A u \in Tasks : /\ task'[u].agent = task[u].agent /\ task'[u].parent = task[u].parent
                       /\ task'[u].status = IF u = t THEN s ELSE task[u].status
                       /\ u # t => task'[u] = task[u]
  BY <1>1 DEF TaskRows
<1>5. TasksKept
  BY <1>2, <1>4 DEF TasksKept, Exists
<1>6. \A u \in Tasks : task[u].parent \in Tasks \cup {NoOne}
  BY <1>1 DEF TaskRows
<1>7. TreeOK'
  BY <1>2, <1>4, <1>6 DEF HandoffInv, TreeOK, Exists
<1> QED BY <1>3, <1>4, <1>5, <1>7 DEF HandoffInv, TreeOK

LEMMA CancelCreatedChildStep ==
  ASSUME HandoffInv, NEW w \in Workers, cancelCreatedChild(w)
  PROVE  HandoffInv'
<1>1. PICK r0, c : r0 = worker[w] /\ c = r0.row.child
  OBVIOUS
<1>2. /\ r0 \in WorkerStates /\ WorkerOK(r0) /\ r0.pc = "undo" /\ c \in Tasks \cup {NoOne}
      /\ UNCHANGED <<handoff, delegation, origin>>
  BY <1>1, WorkerFacts DEF cancelCreatedChild, At
<1>3. Linked(r0) \/ (r0.h = NoOne /\ hFailures >= 1)
  BY <1>2 DEF WorkerOK
<1>4. /\ hFailures' \in 0..MaxHandoffFailures /\ hFailures <= hFailures'
      /\ StoreFails /\ hFailures >= 1 => hFailures' > 1
  BY FailureCounts DEF cancelCreatedChild
<1>5. PICK r \in WorkerStates :
        /\ worker' = [worker EXCEPT ![w] = r]
        /\ \/ r0.h = NoOne /\ r = Free
           \/ r0.h # NoOne /\ r.pc = "undo_handoff" /\ r.h = r0.h /\ r.row = r0.row
  <2>1. CASE r0.h = NoOne
    BY <1>1, <2>1, FreeFacts DEF cancelCreatedChild, Return
  <2>2. CASE r0.h # NoOne
    <3>1. PICK r : r = [r0 EXCEPT !.pc = "undo_handoff"]
      OBVIOUS
    <3>2. r \in WorkerStates
      BY <1>2, <3>1 DEF WorkerStates, WorkerPCs
    <3>3. r.pc = "undo_handoff" /\ r.h = r0.h /\ r.row = r0.row
      BY <1>2, <3>1 DEF WorkerStates
    <3>4. worker' = [worker EXCEPT ![w] = r]
      BY <1>1, <2>2, <3>1 DEF cancelCreatedChild, Goto
    <3> QED BY <2>2, <3>2, <3>3, <3>4
  <2> QED BY <2>1, <2>2
<1>6. r.pc \notin {"save", "append", "undo", "start", "provider", "create", "write", "complete", "wait"}
  BY <1>5, FreeFacts
<1>7. c # NoOne => Creates(w, c)
  BY <1>1, <1>2 DEF Creates
<1>8. HandoffsKept /\ RowsOK'
  BY <1>2 DEF HandoffInv, HandoffsKept, RowsOK, RowOK
<1>9. WorkerOK(r)'
  <2>1. CASE r = Free
    BY <2>1, FreeOK
  <2>2. CASE r.pc = "undo_handoff" /\ r.h = r0.h /\ r.row = r0.row /\ r0.h # NoOne
    <3>1. Linked(r)' /\ RowOK(r.row)
      BY <1>2, <1>3, <2>2 DEF Linked, WorkerOK
    <3> QED BY <2>2, <3>1 DEF WorkerOK, RowOK
  <2> QED BY <1>5, <2>1, <2>2
<1>10. /\ task' \in [Tasks -> TaskRows] /\ TasksKept /\ TreeOK'
       /\ \A u \in Tasks : task'[u].status # task[u].status => u = c
       /\ \A u \in Tasks : ~Exists(u) => origin'[u] # "delegate"
       /\ \/ c = NoOne \/ task'[c].status = "cancelled"
          \/ UNCHANGED task /\ StoreFails
  <2>1. CASE UNCHANGED task
    <3>1. task' \in [Tasks -> TaskRows] /\ TasksKept
      BY <1>2, <2>1 DEF HandoffInv, HandoffTypeOK, TasksKept, Exists
    <3>2. TreeOK' /\ \A u \in Tasks : ~Exists(u) => origin'[u] # "delegate"
      BY <1>2, <2>1 DEF HandoffInv, TreeOK, Exists
    <3>3. c = NoOne \/ task'[c].status = "cancelled" \/ StoreFails
      <4>1. CASE c # NoOne /\ StoreOK /\
                 task' = [task EXCEPT ![c].status =
                            IF @ \in {"completed", "failed"} THEN @ ELSE "cancelled"]
        <5>1. task[c].status = "created"
          BY <1>2, <1>7, <4>1 DEF HandoffInv, CreatedOnce
        <5>2. task'[c].status = "cancelled"
          BY <1>2, <4>1, <5>1 DEF HandoffInv, HandoffTypeOK, TaskRows
        <5> QED BY <5>2
      <4> QED BY <1>1, <4>1 DEF cancelCreatedChild
    <3> QED BY <2>1, <3>1, <3>2, <3>3
  <2>2. CASE c # NoOne /\ task' = [task EXCEPT ![c].status =
                                      IF @ \in {"completed", "failed"} THEN @ ELSE "cancelled"]
    <3>1. c \in Tasks /\ task[c].status = "created"
      BY <1>2, <1>7, <2>2 DEF HandoffInv, CreatedOnce
    <3>2. task' = [task EXCEPT ![c].status = "cancelled"]
      BY <2>2, <3>1
    <3>3. "cancelled" \in Final \cup {"running"}
      BY DEF Final
    <3> QED BY <1>2, <3>1, <3>2, <3>3, TaskStatusWritten DEF Exists
  <2> QED BY <1>1, <2>1, <2>2 DEF cancelCreatedChild
<1>11. HandoffTypeOK'
  BY <1>2, <1>4, <1>5, <1>10 DEF HandoffInv, HandoffTypeOK
<1>12. NoDelegationCycle'
  BY <1>10, <1>11, CycleKept DEF HandoffInv
<1>13. CallWrites(w, r)
  BY <1>4, <1>5, <1>8, <1>10, <1>11, <1>12 DEF CallWrites
<1>14. CreatesAlone(w, r)
  BY <1>2, <1>6, <1>7, <1>10, HandoffAssumption DEF CreatesAlone, HandoffInv, CreatedOnce
<1>15. ForgetsNoChild(w, r)
  <2>1. \A t \in Tasks : ~Exists(t) => origin'[t] = "none"
    BY <1>2 DEF HandoffInv, TreeOK
  <2>2. r.row.child = c \/ r0.h = NoOne
    BY <1>1, <1>5
  <2>3. r0.h = NoOne => ~Linked(r0)
    BY HandoffAssumption DEF Linked
  <2> QED BY <1>1, <1>3, <1>4, <1>10, <2>1, <2>2, <2>3, HandoffAssumption DEF ForgetsNoChild
<1>16. OpensOwnRecord(w, r)
  BY <1>1, <1>2 DEF OpensOwnRecord
<1> QED BY <1>5, <1>9, <1>13, <1>14, <1>15, <1>16, CallStep

LEMMA StartTaskRunStep ==
  ASSUME HandoffInv, NEW w \in Workers, StartTaskRun(w)
  PROVE  HandoffInv'
<1>1. PICK r0, c : r0 = worker[w] /\ c = r0.row.child
  OBVIOUS
<1>2. /\ r0 \in WorkerStates /\ WorkerOK(r0) /\ r0.pc = "start" /\ c \in Tasks \cup {NoOne}
      /\ UNCHANGED <<handoff, delegation, origin, hFailures>>
  BY <1>1, WorkerFacts DEF StartTaskRun, At
<1>3. Linked(r0) /\ c # NoOne /\ c \in Tasks
  BY <1>1, <1>2 DEF WorkerOK
<1>4. Creates(w, c) /\ task[c].status = "created"
  BY <1>1, <1>2, <1>3 DEF Creates, HandoffInv, CreatedOnce
<1>5. task' = [task EXCEPT ![c].status = "running"] /\ Goto(w, "wait")
  BY <1>1, <1>4 DEF StartTaskRun
<1>6. PICK r : r = [r0 EXCEPT !.pc = "wait"]
  OBVIOUS
<1>7. r \in WorkerStates
  BY <1>2, <1>6 DEF WorkerStates, WorkerPCs
<1>8. r.pc = "wait" /\ r.h = r0.h /\ r.row = r0.row
  BY <1>2, <1>6 DEF WorkerStates
<1>9. worker' = [worker EXCEPT ![w] = r]
  BY <1>1, <1>5, <1>6 DEF Goto
<1>10. HandoffsKept /\ RowsOK'
  BY <1>2 DEF HandoffInv, HandoffsKept, RowsOK, RowOK
<1>11. WorkerOK(r)'
  <2>1. Linked(r)' /\ RowOK(r.row)
    BY <1>2, <1>3, <1>8 DEF Linked, WorkerOK
  <2> QED BY <1>1, <1>3, <1>8, <2>1 DEF WorkerOK, RowOK
<1>12. /\ task' \in [Tasks -> TaskRows] /\ TasksKept /\ TreeOK'
       /\ \A u \in Tasks : task'[u].status = IF u = c THEN "running" ELSE task[u].status
       /\ \A u \in Tasks : ~Exists(u) => origin'[u] # "delegate"
  BY <1>2, <1>3, <1>4, <1>5, TaskStatusWritten DEF Exists
<1>13. HandoffTypeOK'
  BY <1>2, <1>7, <1>9, <1>12 DEF HandoffInv, HandoffTypeOK
<1>14. NoDelegationCycle'
  BY <1>12, <1>13, CycleKept DEF HandoffInv
<1>15. hFailures <= hFailures'
  BY <1>2, HandoffAssumption DEF HandoffInv, HandoffTypeOK
<1>16. CallWrites(w, r)
  BY <1>9, <1>10, <1>12, <1>13, <1>14, <1>15 DEF CallWrites
<1>17. CreatesAlone(w, r)
  BY <1>3, <1>4, <1>8, <1>12 DEF CreatesAlone, HandoffInv, CreatedOnce
<1>18. ForgetsNoChild(w, r)
  <2>1. \A t \in Tasks : ~Exists(t) => origin'[t] = "none"
    BY <1>2 DEF HandoffInv, TreeOK
  <2> QED BY <1>1, <1>8, <2>1 DEF ForgetsNoChild
<1>19. OpensOwnRecord(w, r)
  BY <1>1, <1>2 DEF OpensOwnRecord
<1> QED BY <1>7, <1>11, <1>16, <1>17, <1>18, <1>19, CallStep

\* A step of no call.
LEMMA NoCallStep ==
  ASSUME HandoffInv, HandoffTypeOK', TasksKept, TreeOK',
         UNCHANGED <<handoff, delegation, origin, hFailures, worker>>,
         \A t \in Tasks : task[t].status = "created" => task'[t].status = "created"
  PROVE  HandoffInv'
<1>1. HandoffsKept /\ RowsOK' /\ hFailures <= hFailures'
  BY HandoffAssumption DEF HandoffInv, HandoffTypeOK, HandoffsKept, RowsOK, RowOK
<1>2. ASSUME NEW v \in Workers PROVE WorkerOK(worker[v])'
  <2>1. PICK u : u = worker[v]
    OBVIOUS
  <2>2. WorkerOK(u)'
    BY <1>1, <2>1, WorkerFacts, WorkerKept DEF HandoffInv
  <2>3. worker'[v] = u
    BY <2>1
  <2> QED BY <2>2, <2>3 DEF WorkerOK, Linked
<1>3. CreatedOnce'
  BY DEF HandoffInv, CreatedOnce, Creates
<1>4. RecordsOpen'
  BY DEF HandoffInv, RecordsOpen
<1>5. NoOrphanChild'
  BY DEF HandoffInv, NoOrphanChild, TasksKept, TreeOK
<1>6. NoDelegationCycle'
  <2>1. \A c \in Tasks : ~Exists(c) => origin'[c] # "delegate"
    BY DEF HandoffInv, TreeOK
  <2> QED BY <2>1, CycleKept DEF HandoffInv
<1> QED BY <1>1, <1>2, <1>3, <1>4, <1>5, <1>6 DEF HandoffInv

LEMMA EndRunStep ==
  ASSUME HandoffInv, NEW t \in Tasks, NEW status \in Ended, EndRun(t, status)
  PROVE  HandoffInv'
<1>1. /\ UNCHANGED <<handoff, delegation, origin, hFailures, worker>> /\ task[t].status = "running"
      /\ task' = [task EXCEPT ![t].status = status] /\ status \in Final \cup {"running"}
  BY DEF EndRun, Final
<1>2. /\ task' \in [Tasks -> TaskRows] /\ TasksKept /\ TreeOK'
      /\ \A u \in Tasks : task'[u].status = IF u = t THEN status ELSE task[u].status
  BY <1>1, TaskStatusWritten DEF Exists
<1>3. HandoffTypeOK'
  BY <1>1, <1>2 DEF HandoffInv, HandoffTypeOK
<1> QED BY <1>1, <1>2, <1>3, NoCallStep

-----------------------------------------------------------------------------
(* The steps that create a task.                                           *)

LEMMA NewIDs ==
  /\ (\E t \in Tasks : task[t].status = "absent") => NewTaskID \in Tasks /\ ~Exists(NewTaskID)
  /\ IdsLeft => /\ NewTaskID \in Tasks /\ ~Exists(NewTaskID)
                /\ NewHandoffID \in Handoffs /\ handoff[NewHandoffID].status = "absent"
BY DEF NewTaskID, NewHandoffID, IdsLeft, Exists

\* A new task: its parent is there, and the chain of one that is delegated was checked.
LEMMA TaskCreated ==
  ASSUME HandoffInv, NEW c \in Tasks, ~Exists(c), NEW agent \in Agents,
         NEW parent \in Tasks \cup {NoOne}, parent # NoOne => Exists(parent),
         NEW status \in {"created", "running"}, NEW how \in {"delegate", "command", "agent_tool"},
         how = "delegate" => parent # NoOne /\ validateHandoffChain(parent, agent),
         task' = [task EXCEPT ![c] = [agent |-> agent, parent |-> parent, status |-> status]],
         origin' = [origin EXCEPT ![c] = how]
  PROVE  /\ task' \in [Tasks -> TaskRows] /\ TasksKept /\ TreeOK'
         /\ origin' \in [Tasks -> {"none", "root", "delegate", "command", "agent_tool"}]
         /\ task'[c].status = status /\ origin'[c] = how
         /\ \A u \in Tasks : u # c => task'[u] = task[u] /\ origin'[u] = origin[u]
         /\ \A u \in Tasks : ~Exists(u) /\ origin'[u] = "delegate" =>
              \E p \in Tasks : /\ Exists(p) /\ task'[u].parent = p /\ task'[u].agent \in Agents
                               /\ validateHandoffChain(p, task'[u].agent)
<1>1. /\ task \in [Tasks -> TaskRows]
      /\ origin \in [Tasks -> {"none", "root", "delegate", "command", "agent_tool"}]
  BY DEF HandoffInv, HandoffTypeOK
<1>2. PICK new : new = [agent |-> agent, parent |-> parent, status |-> status]
  OBVIOUS
<1>3. new \in TaskRows /\ new.agent = agent /\ new.parent = parent /\ new.status = status
  BY <1>2 DEF TaskRows
<1>4. /\ task' \in [Tasks -> TaskRows] /\ task'[c] = new
      /\ \A u \in Tasks : u # c => task'[u] = task[u]
  BY <1>1, <1>2, <1>3
<1>5. /\ origin' \in [Tasks -> {"none", "root", "delegate", "command", "agent_tool"}]
      /\ origin'[c] = how /\ \A u \in Tasks : u # c => origin'[u] = origin[u]
  BY <1>1
<1>6. TasksKept
  BY <1>4, <1>5 DEF TasksKept, Exists
<1>7. TreeOK'
  <2>1. \A u \in Tasks : Exists(u) => Exists(u)'
    BY <1>6 DEF TasksKept
  <2>2. Exists(c)'
    BY <1>3, <1>4 DEF Exists
  <2>3. \A u \in Tasks : task[u].parent \in Tasks \cup {NoOne}
    BY <1>1 DEF TaskRows
  <2>4. ASSUME NEW u \in Tasks, u = c
        PROVE  task'[u].parent # NoOne => task'[task'[u].parent].status # "absent"
    BY <1>3, <1>4, <2>1, <2>4 DEF Exists
  <2>5. ASSUME NEW u \in Tasks, u # c
        PROVE  task'[u].parent # NoOne => task'[task'[u].parent].status # "absent"
    <3>1. task'[u].parent = task[u].parent
      BY <1>4, <2>5
    <3> QED BY <2>1, <2>3, <3>1 DEF HandoffInv, TreeOK, Exists
  <2>6. ASSUME NEW u \in Tasks, task'[u].status = "absent" PROVE task'[u] = NoTask /\ origin'[u] = "none"
    BY <1>4, <1>5, <2>2, <2>6 DEF HandoffInv, TreeOK, Exists
  <2> QED BY <2>4, <2>5, <2>6 DEF TreeOK, Exists
<1>8. ASSUME NEW u \in Tasks, ~Exists(u), origin'[u] = "delegate"
      PROVE  \E p \in Tasks : /\ Exists(p) /\ task'[u].parent = p /\ task'[u].agent \in Agents
                              /\ validateHandoffChain(p, task'[u].agent)
  <2>1. u = c
    BY <1>5, <1>8 DEF HandoffInv, TreeOK
  <2>2. how = "delegate" /\ parent \in Tasks
    BY <1>5, <1>8, <2>1
  <2> QED BY <1>3, <1>4, <2>1, <2>2
<1> QED BY <1>3, <1>4, <1>5, <1>6, <1>7, <1>8

LEMMA PackageFacts ==
  ASSUME NEW q \in Requests, NEW pkg, pkg = enforceTokenBudget(packageScope(q), q)
  PROVE  /\ pkg \in SUBSET {"summary", "artifacts", "memory"}
         /\ "artifacts" \in pkg => "artifacts" \in q.features
<1>1. PICK scope : scope = packageScope(q)
  OBVIOUS
<1>2. /\ scope \in SUBSET {"summary", "artifacts", "memory"}
      /\ "artifacts" \in scope => "artifacts" \in q.features
  BY <1>1 DEF packageScope
<1> QED BY <1>1, <1>2 DEF enforceTokenBudget

LEMMA DecisionFacts ==
  ASSUME NEW q \in Requests, NEW from, NEW to, "artifacts" \in q.features, "approve_artifacts" \in Grants
  PROVE  EvaluateRequest(from, to, q) # "allowed"
BY DEF EvaluateRequest

\* The row of a handoff that is not denied.
LEMMA NewRowFacts ==
  ASSUME NEW q \in Requests, NEW from, NEW to, NEW parent \in Tasks, NEW c \in Tasks, NEW row,
         row = NewHandoff(parent, EvaluateRequest(from, to, q),
                          IF EvaluateRequest(from, to, q) = "allowed" THEN c ELSE NoOne,
                          enforceTokenBudget(packageScope(q), q))
  PROVE  /\ row \in HandoffRows /\ RowOK(row) /\ row.status \in {"created", "running"}
         /\ row.parent = parent /\ row.child \in {c, NoOne}
<1>1. PICK d : d = EvaluateRequest(from, to, q)
  OBVIOUS
<1>2. PICK pkg : pkg = enforceTokenBudget(packageScope(q), q)
  OBVIOUS
<1>3. row = [status |-> IF d = "allowed" THEN "running" ELSE "created", parent |-> parent,
             child |-> IF d = "allowed" THEN c ELSE NoOne, pkg |-> pkg]
  BY <1>1, <1>2 DEF NewHandoff
<1>4. row \in HandoffRows
  BY <1>2, <1>3, PackageFacts DEF HandoffRows
<1>5. "approve_artifacts" \in Grants /\ "artifacts" \in pkg => d # "allowed"
  BY <1>1, <1>2, PackageFacts, DecisionFacts
<1>6. RowOK(row)
  BY <1>3, <1>5 DEF RowOK
<1> QED BY <1>3, <1>4, <1>6

\* The task a call at "create" creates.
LEMMA ChildCreated ==
  ASSUME HandoffInv, NEW w \in Workers, At(w, "create"), NEW c \in Tasks, ~Exists(c),
         CreateTask(c, worker[w].to, worker[w].parent, How(w))
  PROVE  /\ task' \in [Tasks -> TaskRows] /\ TasksKept /\ TreeOK'
         /\ origin' \in [Tasks -> {"none", "root", "delegate", "command", "agent_tool"}]
         /\ task'[c].status = "created"
         /\ \A u \in Tasks : u # c => task'[u] = task[u] /\ origin'[u] = origin[u]
         /\ \A u \in Tasks : ~Exists(u) /\ origin'[u] = "delegate" =>
              \E p \in Tasks : /\ Exists(p) /\ task'[u].parent = p /\ task'[u].agent \in Agents
                               /\ validateHandoffChain(p, task'[u].agent)
<1>1. PICK agent, parent, how : agent = worker[w].to /\ parent = worker[w].parent /\ how = How(w)
  OBVIOUS
<1>2. /\ parent \in Tasks /\ Exists(parent) /\ agent \in Agents
      /\ worker[w].tool => validateHandoffChain(parent, agent)
  BY <1>1, WorkerFacts DEF At, WorkerOK
<1>3. how \in {"delegate", "command"} /\ (how = "delegate" => worker[w].tool)
  BY <1>1 DEF How
<1>4. /\ task' = [task EXCEPT ![c] = [agent |-> agent, parent |-> parent, status |-> "created"]]
      /\ origin' = [origin EXCEPT ![c] = how]
  BY <1>1 DEF CreateTask
<1>5. parent # NoOne
  BY <1>2, HandoffAssumption
<1> QED BY <1>2, <1>3, <1>4, <1>5, TaskCreated

LEMMA CreateAtomicallyStep ==
  ASSUME HandoffInv, NEW w \in Workers, NEW q \in Requests, CreateAtomically(w, q)
  PROVE  HandoffInv'
<1>1. PICK d : d = EvaluateRequest(task[worker[w].parent].agent, worker[w].to, q)
  OBVIOUS
<1>2. PICK row : row = NewHandoff(worker[w].parent, d, IF d = "allowed" THEN NewTaskID ELSE NoOne,
                                  enforceTokenBudget(packageScope(q), q))
  OBVIOUS
<1>3. PICK h, c : h = NewHandoffID /\ c = NewTaskID
  OBVIOUS
<1>4. /\ worker[w].pc = "create" /\ IdsLeft /\ UNCHANGED delegation
      /\ \/ /\ Return(w) /\ UNCHANGED <<task, handoff, origin>> /\ (StoreOK \/ StoreFails)
         \/ /\ CreateWithChild(h, row, worker[w].to, How(w)) /\ StoreOK
            /\ IF row.child # NoOne /\ worker[w].tool
                 THEN worker' = [worker EXCEPT ![w].pc = "start", ![w].h = h, ![w].row = row]
                 ELSE Return(w)
  BY <1>1, <1>2, <1>3 DEF CreateAtomically, At
<1>5. PICK r0 : r0 = worker[w]
  OBVIOUS
<1>6. /\ r0 \in WorkerStates /\ WorkerOK(r0) /\ r0.row.child = NoOne /\ r0.parent \in Tasks
      /\ r0.pc = "create"
  BY <1>4, <1>5, WorkerFacts DEF WorkerOK
<1>7. c \in Tasks /\ ~Exists(c) /\ h \in Handoffs /\ handoff[h].status = "absent" /\ c # NoOne
  BY <1>3, <1>4, NewIDs, HandoffAssumption
<1>8. /\ row \in HandoffRows /\ RowOK(row) /\ row.status \in {"created", "running"}
      /\ row.child \in {c, NoOne} /\ row.parent = r0.parent
  BY <1>1, <1>2, <1>3, <1>5, <1>6, <1>7, NewRowFacts
<1>9. CASE Return(w) /\ UNCHANGED <<task, handoff, origin>> /\ (StoreOK \/ StoreFails)
  BY <1>4, <1>5, <1>6, <1>9, FailureCounts, ReturnStep
<1>10. CASE /\ CreateWithChild(h, row, worker[w].to, How(w)) /\ StoreOK
            /\ IF row.child # NoOne /\ worker[w].tool
                 THEN worker' = [worker EXCEPT ![w].pc = "start", ![w].h = h, ![w].row = row]
                 ELSE Return(w)
  <2>1. handoff' = [handoff EXCEPT ![h] = row]
    BY <1>10 DEF CreateWithChild, Save
  <2>2. /\ handoff' \in [Handoffs -> HandoffRows] /\ HandoffsKept /\ RowsOK'
        /\ handoff'[h] = row
    BY <1>7, <1>8, <2>1, RowWritten
  <2>3. hFailures' \in 0..MaxHandoffFailures /\ hFailures <= hFailures' /\ UNCHANGED hFailures
    BY <1>10, FailureCounts DEF StoreOK
  <2>4. PICK r \in WorkerStates :
          /\ worker' = [worker EXCEPT ![w] = r]
          /\ \/ r = Free
             \/ row.child # NoOne /\ r.pc = "start" /\ r.h = h /\ r.row = row
    <3>1. CASE Return(w)
      BY <3>1, FreeFacts DEF Return
    <3>2. CASE /\ row.child # NoOne
               /\ worker' = [worker EXCEPT ![w].pc = "start", ![w].h = h, ![w].row = row]
      <4>1. PICK r : r = [r0 EXCEPT !.pc = "start", !.h = h, !.row = row]
        OBVIOUS
      <4>2. r \in WorkerStates
        BY <1>6, <1>7, <1>8, <4>1 DEF WorkerStates, WorkerPCs
      <4>3. r.pc = "start" /\ r.h = h /\ r.row = row
        BY <1>6, <4>1 DEF WorkerStates
      <4>4. worker' = [worker EXCEPT ![w] = r]
        BY <1>5, <3>2, <4>1
      <4> QED BY <3>2, <4>2, <4>3, <4>4
    <3> QED BY <1>10, <3>1, <3>2
  <2>5. WorkerOK(r)'
    <3>1. CASE r = Free
      BY <3>1, FreeOK
    <3>2. CASE row.child # NoOne /\ r.pc = "start" /\ r.h = h /\ r.row = row
      BY <1>7, <1>8, <2>2, <3>2 DEF WorkerOK, RowOK, Linked
    <3> QED BY <2>4, <3>1, <3>2
  <2>6. CASE row.child = NoOne
    <3>1. UNCHANGED <<task, origin>> /\ r = Free
      BY <1>10, <2>4, <2>6 DEF CreateWithChild
    <3>2. r.pc \notin {"save", "append", "undo", "start"}
      BY <3>1, FreeFacts
    <3> QED BY <1>4, <1>5, <1>6, <2>2, <2>3, <2>4, <2>5, <3>1, <3>2, RowStep
  <2>7. CASE row.child = c
    <3>1. CreateTask(c, worker[w].to, worker[w].parent, How(w))
      BY <1>5, <1>7, <1>8, <1>10, <2>7 DEF CreateWithChild
    <3>2. /\ task' \in [Tasks -> TaskRows] /\ TasksKept /\ TreeOK'
          /\ origin' \in [Tasks -> {"none", "root", "delegate", "command", "agent_tool"}]
          /\ task'[c].status = "created"
          /\ \A u \in Tasks : u # c => task'[u] = task[u] /\ origin'[u] = origin[u]
          /\ \A u \in Tasks : ~Exists(u) /\ origin'[u] = "delegate" =>
               \E p \in Tasks : /\ Exists(p) /\ task'[u].parent = p /\ task'[u].agent \in Agents
                                /\ validateHandoffChain(p, task'[u].agent)
      BY <1>4, <1>7, <3>1, ChildCreated DEF At
    <3>3. HandoffTypeOK'
      BY <1>4, <2>2, <2>3, <2>4, <3>2 DEF HandoffInv, HandoffTypeOK
    <3>4. NoDelegationCycle'
      BY <3>2, <3>3, CycleKept DEF HandoffInv
    <3>5. CallWrites(w, r)
      BY <2>2, <2>3, <2>4, <3>2, <3>3, <3>4 DEF CallWrites
    <3>6. CreatesAlone(w, r)
      <4>1. \A v \in Workers, t \in Tasks : Creates(v, t) => t # c /\ task[t].status = "created"
        BY <1>7 DEF HandoffInv, CreatedOnce, Exists
      <4>2. r.pc \in {"save", "append", "undo", "start"} => r.row.child = c
        BY <2>4, <2>7, FreeFacts
      <4> QED BY <1>7, <3>2, <4>1, <4>2 DEF CreatesAlone
    <3>7. ForgetsNoChild(w, r)
      <4>1. \A t \in Tasks : ~Exists(t) /\ origin'[t] \in {"delegate", "command"} => t = c
        BY <3>2 DEF HandoffInv, TreeOK
      <4> QED BY <1>5, <1>6, <1>7, <2>2, <2>7, <4>1, HandoffAssumption DEF ForgetsNoChild
    <3>8. OpensOwnRecord(w, r)
      BY <1>4 DEF OpensOwnRecord
    <3> QED BY <2>5, <3>5, <3>6, <3>7, <3>8, CallStep
  <2> QED BY <1>8, <2>6, <2>7
<1> QED BY <1>4, <1>9, <1>10

LEMMA CreateChildStep ==
  ASSUME HandoffInv, NEW w \in Workers, NEW q \in Requests, CreateChild(w, q)
  PROVE  HandoffInv'
<1>1. PICK d : d = EvaluateRequest(task[worker[w].parent].agent, worker[w].to, q)
  OBVIOUS
<1>2. PICK row : row = NewHandoff(worker[w].parent, d, IF d = "allowed" THEN NewTaskID ELSE NoOne,
                                  enforceTokenBudget(packageScope(q), q))
  OBVIOUS
<1>3. PICK h, c : h = NewHandoffID /\ c = NewTaskID
  OBVIOUS
<1>4. /\ worker[w].pc = "create" /\ IdsLeft /\ UNCHANGED <<handoff, delegation>>
      /\ \/ /\ Return(w) /\ UNCHANGED <<task, origin>> /\ (StoreOK \/ StoreFails)
         \/ /\ IF row.child = NoOne THEN UNCHANGED <<task, origin>>
                                    ELSE CreateTask(row.child, worker[w].to, worker[w].parent, How(w))
            /\ StoreOK
            /\ worker' = [worker EXCEPT ![w].pc = "save", ![w].h = h, ![w].row = row]
  BY <1>1, <1>2, <1>3 DEF CreateChild, At
<1>5. PICK r0 : r0 = worker[w]
  OBVIOUS
<1>6. /\ r0 \in WorkerStates /\ WorkerOK(r0) /\ r0.row.child = NoOne /\ r0.parent \in Tasks
      /\ r0.pc = "create"
  BY <1>4, <1>5, WorkerFacts DEF WorkerOK
<1>7. c \in Tasks /\ ~Exists(c) /\ h \in Handoffs /\ c # NoOne
  BY <1>3, <1>4, NewIDs, HandoffAssumption
<1>8. /\ row \in HandoffRows /\ RowOK(row) /\ row.status \in {"created", "running"}
      /\ row.child \in {c, NoOne}
  BY <1>1, <1>2, <1>3, <1>5, <1>6, <1>7, NewRowFacts
<1>9. CASE Return(w) /\ UNCHANGED <<task, origin>> /\ (StoreOK \/ StoreFails)
  BY <1>4, <1>5, <1>6, <1>9, FailureCounts, ReturnStep
<1>10. CASE /\ IF row.child = NoOne THEN UNCHANGED <<task, origin>>
                                    ELSE CreateTask(row.child, worker[w].to, worker[w].parent, How(w))
            /\ StoreOK
            /\ worker' = [worker EXCEPT ![w].pc = "save", ![w].h = h, ![w].row = row]
  <2>1. PICK r : r = [r0 EXCEPT !.pc = "save", !.h = h, !.row = row]
    OBVIOUS
  <2>2. r \in WorkerStates
    BY <1>6, <1>7, <1>8, <2>1 DEF WorkerStates, WorkerPCs
  <2>3. r.pc = "save" /\ r.h = h /\ r.row = row
    BY <1>6, <2>1 DEF WorkerStates
  <2>4. worker' = [worker EXCEPT ![w] = r]
    BY <1>5, <1>10, <2>1
  <2>5. hFailures' \in 0..MaxHandoffFailures /\ hFailures <= hFailures' /\ UNCHANGED hFailures
    BY <1>10, FailureCounts DEF StoreOK
  <2>6. WorkerOK(r) /\ WorkerOK(r)'
    BY <1>7, <1>8, <2>3 DEF WorkerOK, RowOK
  <2>7. CASE row.child = NoOne
    BY <1>4, <1>5, <1>6, <1>10, <2>2, <2>3, <2>4, <2>5, <2>6, <2>7, QuietCall
  <2>8. CASE row.child = c
    <3>1. CreateTask(c, worker[w].to, worker[w].parent, How(w))
      BY <1>7, <1>10, <2>8
    <3>2. /\ task' \in [Tasks -> TaskRows] /\ TasksKept /\ TreeOK'
          /\ origin' \in [Tasks -> {"none", "root", "delegate", "command", "agent_tool"}]
          /\ task'[c].status = "created"
          /\ \A u \in Tasks : u # c => task'[u] = task[u] /\ origin'[u] = origin[u]
          /\ \A u \in Tasks : ~Exists(u) /\ origin'[u] = "delegate" =>
               \E p \in Tasks : /\ Exists(p) /\ task'[u].parent = p /\ task'[u].agent \in Agents
                                /\ validateHandoffChain(p, task'[u].agent)
      BY <1>4, <1>7, <3>1, ChildCreated DEF At
    <3>3. HandoffTypeOK'
      BY <1>4, <2>2, <2>4, <2>5, <3>2 DEF HandoffInv, HandoffTypeOK
    <3>4. NoDelegationCycle'
      BY <3>2, <3>3, CycleKept DEF HandoffInv
    <3>5. HandoffsKept /\ RowsOK'
      BY <1>4 DEF HandoffInv, HandoffsKept, RowsOK, RowOK
    <3>6. CallWrites(w, r)
      BY <2>4, <2>5, <3>2, <3>3, <3>4, <3>5 DEF CallWrites
    <3>7. CreatesAlone(w, r)
      <4>1. \A v \in Workers, t \in Tasks : Creates(v, t) => t # c /\ task[t].status = "created"
        BY <1>7 DEF HandoffInv, CreatedOnce, Exists
      <4> QED BY <1>7, <2>3, <2>8, <3>2, <4>1 DEF CreatesAlone
    <3>8. ForgetsNoChild(w, r)
      <4>1. \A t \in Tasks : ~Exists(t) /\ origin'[t] \in {"delegate", "command"} => t = c
        BY <3>2 DEF HandoffInv, TreeOK
      <4> QED BY <1>5, <1>6, <2>3, <2>8, <4>1, HandoffAssumption DEF ForgetsNoChild
    <3>9. OpensOwnRecord(w, r)
      BY <1>4 DEF OpensOwnRecord
    <3> QED BY <2>2, <2>6, <3>6, <3>7, <3>8, <3>9, CallStep
  <2> QED BY <1>8, <2>7, <2>8
<1> QED BY <1>4, <1>9, <1>10

LEMMA InvokeAgentToolStep ==
  ASSUME HandoffInv, NEW w \in Workers, NEW t \in Tasks, NEW provider \in Agents,
         InvokeAgentTool(w, t, provider)
  PROVE  HandoffInv'
<1>1. PICK c : c = NewTaskID
  OBVIOUS
<1>2. c \in Tasks /\ ~Exists(c)
  BY <1>1, NewIDs DEF InvokeAgentTool
<1>3. /\ task' = [task EXCEPT ![c] = [agent |-> provider, parent |-> NoOne, status |-> "running"]]
      /\ origin' = [origin EXCEPT ![c] = "agent_tool"] /\ UNCHANGED handoff
  BY <1>1 DEF InvokeAgentTool
<1>4. /\ task' \in [Tasks -> TaskRows] /\ TasksKept /\ TreeOK'
      /\ origin' \in [Tasks -> {"none", "root", "delegate", "command", "agent_tool"}]
      /\ origin'[c] = "agent_tool"
      /\ \A u \in Tasks : u # c => task'[u] = task[u] /\ origin'[u] = origin[u]
      /\ \A u \in Tasks : ~Exists(u) /\ origin'[u] = "delegate" =>
           \E p \in Tasks : /\ Exists(p) /\ task'[u].parent = p /\ task'[u].agent \in Agents
                            /\ validateHandoffChain(p, task'[u].agent)
  BY <1>2, <1>3, TaskCreated
<1>5. PICK f, row : f = Free /\ row = [NoHandoff EXCEPT !.child = c]
  OBVIOUS
<1>6. row \in HandoffRows /\ row.child = c /\ row.status = "absent" /\ row.pkg = {}
  BY <1>2, <1>5, FreeFacts DEF HandoffRows, NoHandoff
<1>7. PICK r : r = [f EXCEPT !.pc = "provider", !.run = t, !.to = provider, !.row = row]
  OBVIOUS
<1>8. f \in WorkerStates /\ f.tool = FALSE
  BY <1>5, FreeFacts
<1>9. r \in WorkerStates
  BY <1>6, <1>7, <1>8 DEF WorkerStates, WorkerPCs
<1>10. r.pc = "provider" /\ r.run = t /\ r.row = row /\ r.tool = FALSE
  BY <1>7, <1>8 DEF WorkerStates
<1>11. worker' = [worker EXCEPT ![w] = r]
  BY <1>1, <1>5, <1>7 DEF InvokeAgentTool
<1>12. WorkerOK(r)'
  BY <1>2, <1>4, <1>6, <1>10 DEF WorkerOK, RowOK
<1>13. /\ hFailures' \in 0..MaxHandoffFailures /\ hFailures <= hFailures'
       /\ delegation' \in [Tasks -> {"none", "invoked", "completed", "failed"}]
       /\ \A u \in Tasks : u # t => delegation'[u] = delegation[u]
  BY FailureCounts DEF InvokeAgentTool, Upsert, HandoffInv, HandoffTypeOK
<1>14. HandoffsKept /\ RowsOK'
  BY <1>3 DEF HandoffInv, HandoffsKept, RowsOK, RowOK
<1>15. HandoffTypeOK'
  BY <1>3, <1>4, <1>9, <1>11, <1>13 DEF HandoffInv, HandoffTypeOK
<1>16. NoDelegationCycle'
  BY <1>4, <1>15, CycleKept DEF HandoffInv
<1>17. CallWrites(w, r)
  BY <1>4, <1>11, <1>13, <1>14, <1>15, <1>16 DEF CallWrites
<1>18. CreatesAlone(w, r)
  <2>1. \A v \in Workers, u \in Tasks : Creates(v, u) => u # c /\ task[u].status = "created"
    BY <1>2 DEF HandoffInv, CreatedOnce, Exists
  <2> QED BY <1>4, <1>10, <2>1 DEF CreatesAlone
<1>19. worker[w].pc = "idle" /\ worker[w].row.child = NoOne
  BY WorkerFacts DEF InvokeAgentTool, At, WorkerOK
<1>20. ForgetsNoChild(w, r)
  <2>1. \A u \in Tasks : ~Exists(u) => origin'[u] \notin {"delegate", "command"}
    BY <1>4 DEF HandoffInv, TreeOK
  <2> QED BY <1>19, <2>1, HandoffAssumption DEF ForgetsNoChild
<1>21. OpensOwnRecord(w, r)
  BY <1>10, <1>13, <1>19 DEF OpensOwnRecord
<1> QED BY <1>9, <1>12, <1>17, <1>18, <1>20, <1>21, CallStep

LEMMA AgentToolReturnsStep ==
  ASSUME HandoffInv, NEW w \in Workers, AgentToolReturns(w)
  PROVE  HandoffInv'
<1>1. /\ worker[w].pc = "provider" /\ worker[w].run \in Tasks /\ worker[w].row.child \in Tasks
      /\ origin[worker[w].row.child] = "agent_tool"
      /\ UNCHANGED <<task, origin, handoff>>
  BY WorkerFacts DEF AgentToolReturns, At, WorkerOK
<1>2. PICK s \in {"failed", "completed"} :
        \/ delegation' = [delegation EXCEPT ![worker[w].run] = s] /\ StoreOK
        \/ UNCHANGED delegation /\ StoreFails
  BY DEF AgentToolReturns, Upsert
<1>3. /\ hFailures' \in 0..MaxHandoffFailures /\ hFailures <= hFailures'
      /\ StoreFails => hFailures' >= 1
  BY <1>2, FailureCounts
<1>4. /\ delegation' \in [Tasks -> {"none", "invoked", "completed", "failed"}]
      /\ hFailures' = 0 => \A t \in Tasks : delegation'[t] = "invoked" =>
                             t # worker[w].run /\ delegation[t] = "invoked"
  BY <1>1, <1>2, <1>3 DEF HandoffInv, HandoffTypeOK
<1>5. worker' = [worker EXCEPT ![w] = Free] /\ Free.pc \notin {"save", "append", "undo", "start"}
  BY FreeFacts DEF AgentToolReturns, Return
<1>6. HandoffTypeOK'
  BY <1>1, <1>3, <1>4, <1>5, FreeFacts DEF HandoffInv, HandoffTypeOK
<1>7. TasksKept /\ HandoffsKept
  BY <1>1 DEF TasksKept, HandoffsKept, Exists
<1>8. TreeOK' /\ RowsOK'
  BY <1>1 DEF HandoffInv, TreeOK, RowsOK, RowOK, Exists
<1>9. \A c \in Tasks : ~Exists(c) => origin'[c] = "none"
  BY <1>1 DEF HandoffInv, TreeOK
<1>10. NoDelegationCycle'
  BY <1>6, <1>7, <1>9, CycleKept DEF HandoffInv
<1>11. CallWrites(w, Free)
  BY <1>3, <1>5, <1>6, <1>7, <1>8, <1>10 DEF CallWrites
<1>12. CreatesAlone(w, Free)
  BY <1>1, <1>5 DEF CreatesAlone, HandoffInv, CreatedOnce
<1>13. ForgetsNoChild(w, Free)
  BY <1>1, <1>9 DEF ForgetsNoChild
<1>14. OpensOwnRecord(w, Free)
  BY <1>4 DEF OpensOwnRecord
<1> QED BY <1>11, <1>12, <1>13, <1>14, FreeFacts, FreeOK, CallStep

-----------------------------------------------------------------------------
LEMMA HandoffInitInv == HandoffInit => HandoffInv
<1> SUFFICES ASSUME HandoffInit PROVE HandoffInv
  OBVIOUS
<1>1. /\ \A t \in Tasks : t \in Roots \/ task[t] = NoTask
      /\ \A t \in Roots : task[t] = [agent |-> RootAgent, parent |-> NoOne, status |-> "running"]
  BY HandoffAssumption DEF HandoffInit, NoTask
<1>2. task \in [Tasks -> TaskRows]
  <2>1. /\ NoTask \in TaskRows
        /\ [NoTask EXCEPT !.agent = RootAgent, !.status = "running"] \in TaskRows
    BY HandoffAssumption DEF NoTask, TaskRows
  <2> QED BY <2>1 DEF HandoffInit
<1>3. HandoffTypeOK
  BY <1>2, FreeFacts, HandoffAssumption DEF HandoffInit, HandoffTypeOK
<1>4. TreeOK
  BY <1>1, HandoffAssumption DEF HandoffInit, TreeOK, Exists, NoTask
<1>5. RowsOK
  BY FreeFacts DEF HandoffInit, RowsOK, RowOK
<1>6. \A w \in Workers : WorkerOK(worker[w])
  BY FreeOK DEF HandoffInit
<1>7. CreatedOnce /\ RecordsOpen
  BY FreeFacts DEF HandoffInit, CreatedOnce, Creates, RecordsOpen
<1>8. NoOrphanChild /\ NoDelegationCycle
  BY DEF HandoffInit, NoOrphanChild, NoDelegationCycle
<1> QED BY <1>3, <1>4, <1>5, <1>6, <1>7, <1>8 DEF HandoffInv

LEMMA HandoffStep == HandoffInv /\ [HandoffNext]_handoffVars => HandoffInv'
<1>1. ASSUME HandoffInv, HandoffNext PROVE HandoffInv'
  <2>1. CASE \E w \in Workers : WorkerStep(w)
    <3>1. PICK w \in Workers : WorkerStep(w)
      BY <2>1
    <3>2. CASE \E q \in Requests : CreateAtomically(w, q) \/ CreateChild(w, q)
      BY <1>1, <3>2, CreateAtomicallyStep, CreateChildStep
    <3>3. CASE SaveHandoff(w) \/ AppendEvent(w)
      BY <1>1, <3>3, SaveHandoffStep, AppendEventStep
    <3>4. CASE cancelCreatedChild(w) \/ failCreatedChild(w)
      BY <1>1, <3>4, CancelCreatedChildStep, FailCreatedChildStep
    <3>5. CASE StartTaskRun(w) \/ AfterTaskRun(w)
      BY <1>1, <3>5, StartTaskRunStep, AfterTaskRunStep
    <3>6. CASE CompleteRead(w) \/ WriteBack(w)
      BY <1>1, <3>6, CompleteReadStep, WriteBackStep
    <3>7. CASE AgentToolReturns(w)
      BY <1>1, <3>7, AgentToolReturnsStep
    <3> QED BY <3>1, <3>2, <3>3, <3>4, <3>5, <3>6, <3>7 DEF WorkerStep
  <2>2. ASSUME NEW w \in Workers, NEW t \in Tasks, NEW parent \in Tasks, NEW to \in Agents,
               CallDelegate(w, t, parent, to)
        PROVE  HandoffInv'
    BY <1>1, <2>2, DelegateStep DEF CallDelegate
  <2>3. ASSUME NEW w \in Workers, NEW parent \in Tasks, NEW to \in Agents,
               CommandCreate(w, parent, to) \/ delegateAgent(w, parent, to)
        PROVE  HandoffInv'
    BY <1>1, <2>3, CommandCreateStep, DelegateStep DEF delegateAgent, Command
  <2>4. ASSUME NEW w \in Workers, NEW h \in Handoffs, CommandComplete(w, h) PROVE HandoffInv'
    BY <1>1, <2>4, CommandCompleteStep
  <2>5. ASSUME NEW w \in Workers, NEW h \in Handoffs, NEW next \in {"accepted", "rejected", "failed"},
               Transition(w, h, next)
        PROVE  HandoffInv'
    BY <1>1, <2>5, TransitionStep
  <2>6. ASSUME NEW w \in Workers, NEW t \in Tasks, NEW provider \in Agents,
               InvokeAgentTool(w, t, provider)
        PROVE  HandoffInv'
    BY <1>1, <2>6, InvokeAgentToolStep
  <2>7. ASSUME NEW t \in Tasks, NEW status \in Ended, EndRun(t, status) PROVE HandoffInv'
    BY <1>1, <2>7, EndRunStep
  <2> QED BY <1>1, <2>1, <2>2, <2>3, <2>4, <2>5, <2>6, <2>7 DEF HandoffNext
<1>2. ASSUME HandoffInv, UNCHANGED handoffVars PROVE HandoffInv'
  <2>1. UNCHANGED <<task, handoff, delegation, origin, hFailures, worker>>
    BY <1>2 DEF handoffVars
  <2>2. HandoffTypeOK' /\ TreeOK' /\ TasksKept
    BY <1>2, <2>1 DEF HandoffInv, HandoffTypeOK, TreeOK, TasksKept, Exists
  <2> QED BY <1>2, <2>1, <2>2, NoCallStep
<1> QED BY <1>1, <1>2

LEMMA HandoffInvHolds == HandoffSpec => []HandoffInv
BY HandoffInitInv, HandoffStep, PTL DEF HandoffSpec

(***************************************************************************)
(* Rows and the locals of the calls have their types, in every reachable   *)
(* state.                                                                  *)
(***************************************************************************)
THEOREM HandoffTypeCorrect == HandoffSpec => []HandoffTypeOK
<1>1. HandoffInv => HandoffTypeOK
  BY DEF HandoffInv
<1> QED BY <1>1, HandoffInvHolds, PTL

(***************************************************************************)
(* However many agents delegate at the same time, a task that the tool has *)
(* created belongs to an agent that is not on the chain above it, and the  *)
(* chain is no deeper than the limit, although both were checked before.   *)
(***************************************************************************)
THEOREM NoDelegationCycleHolds == HandoffSpec => []NoDelegationCycle
<1>1. HandoffInv => NoDelegationCycle
  BY DEF HandoffInv
<1> QED BY <1>1, HandoffInvHolds, PTL

(***************************************************************************)
(* No child that may run is left without a handoff when one store call     *)
(* fails, none belongs to a handoff that was rejected or needs approval,   *)
(* and no delegation record stays open after its call.                     *)
(***************************************************************************)
THEOREM HandoffsAccountedHolds == HandoffSpec => []HandoffsAccounted
<1>1. HandoffInv => HandoffsAccounted
  <2> SUFFICES ASSUME HandoffInv PROVE HandoffsAccounted
    OBVIOUS
  <2>1. NoOrphanChild
    BY DEF HandoffInv
  <2>2. RejectedHasNoChild /\ SensitiveNeedsApproval
    BY DEF HandoffInv, RowsOK, RowOK, RejectedHasNoChild, SensitiveNeedsApproval
  <2>3. DelegationClosed
    BY DEF HandoffInv, RecordsOpen, DelegationClosed
  <2> QED BY <2>1, <2>2, <2>3 DEF HandoffsAccounted
<1> QED BY <1>1, HandoffInvHolds, PTL

(***************************************************************************)
(* A step that completes a handoff has a completed child behind it, or a   *)
(* command that says so.                                                   *)
(***************************************************************************)
THEOREM CompletedByRunOrCommandHolds == HandoffSpec => CompletedByRunOrCommand
<1> DEFINE A(h) == handoff'[h].status = "completed" /\ handoff[h].status # "completed" =>
             \/ handoff[h].child # NoOne /\ task[handoff[h].child].status = "completed"
             \/ \E w \in Workers : At(w, "write") /\ worker[w].h = h /\ ~worker[w].tool
<1>1. HandoffInv /\ [HandoffNext]_handoffVars => [\A h \in Handoffs : A(h)]_handoffVars
  <2> SUFFICES ASSUME HandoffInv, HandoffNext, NEW h \in Handoffs,
                      handoff'[h].status = "completed", handoff[h].status # "completed"
               PROVE  A(h)
    BY DEF handoffVars
  <2>1. handoff' # handoff
    OBVIOUS
  <2>2. PICK w \in Workers : \/ SaveHandoff(w) \/ failCreatedChild(w) \/ WriteBack(w)
                             \/ \E q \in Requests : CreateAtomically(w, q)
    BY <2>1 DEF HandoffNext, WorkerStep, CreateChild, AppendEvent, cancelCreatedChild, StartTaskRun,
                AfterTaskRun, CompleteRead, AgentToolReturns, CallDelegate, delegateAgent, Delegate,
                CommandCreate, CommandComplete, Transition, InvokeAgentTool, EndRun
  <2>3. ASSUME NEW g \in Handoffs, NEW row, handoff' = [handoff EXCEPT ![g] = row]
        PROVE  g = h /\ row = handoff'[h]
    BY <2>3 DEF HandoffInv, HandoffTypeOK
  <2>4. CASE SaveHandoff(w)
    <3>1. worker[w].h \in Handoffs /\ worker[w].row.status \in {"created", "running"}
      BY <2>4, WorkerFacts DEF SaveHandoff, At, WorkerOK
    <3> QED BY <2>1, <2>3, <2>4, <3>1 DEF SaveHandoff, Save
  <2>5. CASE failCreatedChild(w)
    <3>1. worker[w].h \in Handoffs
      BY <2>5, WorkerFacts DEF failCreatedChild, At, WorkerOK, Linked
    <3>2. [worker[w].row EXCEPT !.status = "failed"].status = "failed"
      BY WorkerFacts DEF HandoffRows
    <3> QED BY <2>1, <2>3, <2>5, <3>1, <3>2 DEF failCreatedChild, Update
  <2>6. CASE WriteBack(w)
    <3>1. Linked(worker[w]) /\ worker[w].h \in Handoffs /\ worker[w].pc = "write"
      BY <2>6, WorkerFacts DEF WriteBack, At, WorkerOK, Linked
    <3>2. worker[w].h = h
      BY <2>1, <2>3, <2>6, <3>1 DEF WriteBack, Update
    <3>3. worker[w].tool => handoff[h].child # NoOne /\ task[handoff[h].child].status = "completed"
      BY <3>1, <3>2, WorkerFacts DEF WorkerOK, Linked
    <3> QED BY <3>1, <3>2, <3>3 DEF At
  <2>7. CASE \E q \in Requests : CreateAtomically(w, q)
    <3>1. PICK q \in Requests : CreateAtomically(w, q)
      BY <2>7
    <3>2. PICK d, c, pkg :
            handoff' = [handoff EXCEPT ![NewHandoffID] = NewHandoff(worker[w].parent, d, c, pkg)]
      BY <2>1, <3>1 DEF CreateAtomically, CreateWithChild, Save
    <3>3. NewHandoffID \in Handoffs
      BY <3>1, NewIDs DEF CreateAtomically
    <3>4. NewHandoff(worker[w].parent, d, c, pkg).status # "completed"
      BY DEF NewHandoff
    <3> QED BY <2>3, <3>2, <3>3, <3>4
  <2> QED BY <2>2, <2>4, <2>5, <2>6, <2>7
<1> QED BY <1>1, HandoffInvHolds, PTL DEF HandoffSpec, CompletedByRunOrCommand

-----------------------------------------------------------------------------
(* The invariant of GovernanceProcess                                      *)

RunStatuses  == {"absent", "active", "blocked", "completed"}
NormalGates  == [id : Nat, mode : Modes, policy : Consensus, escalation : Escalations,
                 required : Nat, min : Nat]
ConflictRows ==
  [status : {"absent"}] \cup [status : {"open"}, gate : Nat]
    \cup [status : {"resolved"}, gate : Nat, decision : Decisions]

\* The locals of a request, by what it is for.
CreateLocals    == [pc : {"create_run"}, gates : Seq(NormalGates)]
OpenLocals      == [pc : {"get_run", "write_open", "refresh"}, op : {"open"}, gate : GateRuns,
                    run : RunStatuses]
EscalateLocals  == [pc : {"get_run", "write_escalate", "escalate_gate"}, op : {"escalate"},
                    gate : GateRuns, run : RunStatuses]
ListLocals      == [pc : {"list_reviews"}, op : {"review"}, gate : GateRuns, review : ReviewInputs]
ReviewLocals    == [pc : {"get_run", "write_review", "consensus", "refresh"}, op : {"review"},
                    gate : GateRuns, run : RunStatuses, listed : SUBSET Nat, review : ReviewRows]
ConflictLocals  == [pc : {"get_gate"}, op : {"arbitrate"}, conflict : Conflicts, decision : Decisions]
ArbitrateLocals == [pc : {"get_run", "write_arbitrate", "arbitrate_gate", "refresh"},
                    op : {"arbitrate"}, gate : GateRuns, run : RunStatuses, conflict : Conflicts,
                    decision : Decisions]
WriteLocals     == [pc : {"write_run"}, status : {"blocked", "completed"}]

GateLocals == OpenLocals \cup EscalateLocals \cup ListLocals \cup ReviewLocals \cup ArbitrateLocals
GovLocals  == {GovIdle} \cup CreateLocals \cup GateLocals \cup ConflictLocals \cup WriteLocals

GovTables ==
  /\ govTemplate \subseteq Seq(Definitions)
  /\ govRun \in RunStatuses
  /\ gates \in [DOMAIN gates -> GateRuns]
  /\ \A g \in DOMAIN gates : gates[g].id = g
  /\ govRun = "absent" => DOMAIN gates = {}
  /\ reviews \in Seq(ReviewRows)
  /\ conflicts \in [Conflicts -> ConflictRows]
  /\ \A k \in Conflicts : conflicts[k].status # "absent" => conflicts[k].gate \in DOMAIN gates

\* What a gate asks for stays what it was when its run was created.
SameTerms(gate, copy) ==
  gate.mode = copy.mode /\ gate.policy = copy.policy /\ gate.required = copy.required /\ gate.min = copy.min

\* The reviews a request has listed, and from its save on its own, are on record for its gate.
CallerOK(r) ==
  /\ r \in GovLocals
  /\ r \in GateLocals => r.gate.id \in DOMAIN gates /\ SameTerms(gates[r.gate.id], r.gate)
  /\ r \in OpenLocals => r.gate.status \in {"pending", "open"}
  /\ r \in ListLocals => r.gate.status = "open" /\ r.review.decision \in Decisions
  /\ r \in ReviewLocals => /\ r.gate.status = "open" /\ r.review.gate = r.gate.id
                           /\ r.listed \subseteq ListReviewsByGate(r.gate.id)
  /\ r \in ConflictLocals => conflicts[r.conflict].status # "absent"
  /\ r \in ArbitrateLocals => /\ conflicts[r.conflict].status # "absent"
                              /\ conflicts[r.conflict].gate = r.gate.id
                              /\ r.pc = "arbitrate_gate" => conflicts[r.conflict].status = "resolved"
  /\ r \in WriteLocals => govRun # "absent" /\ (r.status = "completed" => DOMAIN gates \subseteq wasTerminal)

CallersOK ==
  /\ govCaller \in [GovCallers -> GovLocals]
  /\ \A c \in GovCallers : CallerOK(govCaller[c])

TerminalNoted == \A g \in DOMAIN gates : terminal(gates[g]) => g \in wasTerminal

GovInv == GovTables /\ CallersOK /\ TerminalNoted /\ DecidedOnRecord

-----------------------------------------------------------------------------
(* Reviews and consensus                                                   *)

Approvals(g) == {i \in ListReviewsByGate(g) : reviews[i].decision = "approve"}

\* As many reviews and approvals as the gate asks for.
Enough(gate, n, a) ==
  /\ n >= gate.required
  /\ gate.policy = "any" => a >= 1
  /\ gate.policy = "all" => a >= gate.required
  /\ gate.policy = "majority" => a >= gate.min

LEMMA ReviewsFinite ==
  ASSUME reviews \in Seq(ReviewRows), NEW g
  PROVE  /\ IsFiniteSet(ListReviewsByGate(g)) /\ IsFiniteSet(Approvals(g))
         /\ Cardinality(ListReviewsByGate(g)) \in Nat /\ Cardinality(Approvals(g)) \in Nat
<1>1. Len(reviews) \in Nat /\ DOMAIN reviews = 1..Len(reviews)
  OBVIOUS
<1>2. IsFiniteSet(DOMAIN reviews)
  BY <1>1, FS_Interval
<1>3. ListReviewsByGate(g) \in SUBSET DOMAIN reviews /\ Approvals(g) \in SUBSET ListReviewsByGate(g)
  BY DEF ListReviewsByGate, Approvals
<1>4. IsFiniteSet(ListReviewsByGate(g)) /\ IsFiniteSet(Approvals(g))
  BY <1>2, <1>3, FS_Subset
<1> QED BY <1>4, FS_CardinalityType

LEMMA ReviewsGrow ==
  ASSUME reviews \in Seq(ReviewRows), NEW row \in ReviewRows, NEW g,
         reviews' = reviews \/ reviews' = Append(reviews, row)
  PROVE  /\ reviews' \in Seq(ReviewRows)
         /\ ListReviewsByGate(g) \subseteq ListReviewsByGate(g)'
         /\ Approvals(g) \subseteq Approvals(g)'
<1>1. reviews' \in Seq(ReviewRows)
  OBVIOUS
<1>2. DOMAIN reviews \subseteq DOMAIN reviews' /\ \A i \in DOMAIN reviews : reviews'[i] = reviews[i]
  OBVIOUS
<1> QED BY <1>1, <1>2 DEF ListReviewsByGate, Approvals

LEMMA EnoughKept ==
  ASSUME NEW gate \in GateRuns, NEW n \in Nat, NEW a \in Nat, Enough(gate, n, a),
         NEW copy, SameTerms(gate, copy), NEW m \in Nat, NEW b \in Nat, n <= m, a <= b
  PROVE  Enough(copy, m, b)
<1>1. gate.required \in Nat /\ gate.min \in Nat
  BY DEF GateRuns
<1>2. copy.required = gate.required /\ copy.min = gate.min /\ copy.policy = gate.policy
  BY DEF SameTerms
<1> QED BY <1>1, <1>2 DEF Enough

\* A consensus that passes a gate rests on reviews on record for it.
LEMMA ConsensusPasses ==
  ASSUME reviews \in Seq(ReviewRows), NEW gate \in GateRuns, gate.status = "open",
         NEW rows, rows \subseteq ListReviewsByGate(gate.id), consensusStatus(gate, rows) = "passed"
  PROVE  Enough(gate, Cardinality(ListReviewsByGate(gate.id)), Cardinality(Approvals(gate.id)))
<1> DEFINE g == gate.id
           A == {i \in rows : reviews[i].decision \in {"approve"}}
           n == Cardinality(rows)
           a == Cardinality(A)
           neg == Count(rows, {"reject", "revise"})
           abst == Count(rows, Decisions \ {"approve", "reject", "revise"})
<1>1. /\ n \in Nat /\ n <= Cardinality(ListReviewsByGate(g))
      /\ a \in Nat /\ a <= Cardinality(Approvals(g))
  <2>1. A \subseteq Approvals(g)
    BY DEF Approvals
  <2>2. IsFiniteSet(rows) /\ IsFiniteSet(A)
    BY <2>1, ReviewsFinite, FS_Subset
  <2> QED BY <2>1, <2>2, ReviewsFinite, FS_Subset, FS_CardinalityType
<1>2. /\ Cardinality(ListReviewsByGate(g)) \in Nat /\ Cardinality(Approvals(g)) \in Nat
  BY ReviewsFinite
<1>3. /\ countReviews(rows).approvals = a
      /\ countReviews(rows).negatives = neg
      /\ countReviews(rows).abstentions = abst
  BY DEF countReviews, Count
<1>4. /\ gate.required \in Nat /\ gate.min \in Nat
      /\ required(gate) \in Nat /\ required(gate) >= gate.required
      /\ minApprovals(gate) \in Nat /\ minApprovals(gate) >= gate.min
  <2>1. gate.required \in Nat /\ gate.min \in Nat
    BY DEF GateRuns
  <2>2. required(gate) \in Nat /\ required(gate) >= gate.required
    BY <2>1 DEF required, defaultRequiredReviewers
  <2>3. defaultMinApprovals(required(gate), gate.policy) \in Nat
    BY <2>2 DEF defaultMinApprovals
  <2> QED BY <2>1, <2>2, <2>3 DEF minApprovals
<1>5. /\ ~(n < required(gate))
      /\ gate.policy = "any" => a > 0
      /\ gate.policy = "all" => a >= required(gate)
      /\ gate.policy \notin {"any", "all"} => a >= minApprovals(gate)
  BY <1>3 DEF consensusStatus, escalationOrRejected
<1> HIDE DEF n, a, g
<1> QED BY <1>1, <1>2, <1>4, <1>5 DEF Enough, g

-----------------------------------------------------------------------------
(* What every step leaves as it was                                        *)

GovGrows ==
  /\ DOMAIN gates \subseteq DOMAIN gates'
  /\ \A g \in DOMAIN gates : SameTerms(gates[g], gates'[g])
  /\ \A g \in Nat : ListReviewsByGate(g) \subseteq ListReviewsByGate(g)'
  /\ \A k \in Conflicts : conflicts[k].status # "absent" =>
       /\ conflicts'[k].status # "absent" /\ conflicts'[k].gate = conflicts[k].gate
       /\ conflicts[k].status = "resolved" => conflicts'[k].status = "resolved"
  /\ govRun # "absent" => govRun' # "absent" /\ DOMAIN gates' = DOMAIN gates
  /\ wasTerminal \subseteq wasTerminal'

LEMMA LocalsKept ==
  ASSUME GovGrows, NEW r \in GovLocals, CallerOK(r)
  PROVE  CallerOK(r)'
<1>1. r \in GateLocals => r.gate.id \in Nat
  BY DEF GateLocals, OpenLocals, EscalateLocals, ListLocals, ReviewLocals, ArbitrateLocals, GateRuns
<1>2. r \in GateLocals => r.gate.id \in DOMAIN gates' /\ SameTerms(gates'[r.gate.id], r.gate)
  BY DEF GovGrows, CallerOK, SameTerms
<1>3. r \in ReviewLocals => r.listed \subseteq ListReviewsByGate(r.gate.id)'
  <2>1. r \in ReviewLocals => r.gate.id \in Nat /\ r.listed \subseteq ListReviewsByGate(r.gate.id)
    BY <1>1 DEF GateLocals, CallerOK
  <2> QED BY <2>1 DEF GovGrows
<1>4. r \in ConflictLocals \cup ArbitrateLocals => r.conflict \in Conflicts
  BY DEF ConflictLocals, ArbitrateLocals
<1>5. /\ r \in ConflictLocals => conflicts'[r.conflict].status # "absent"
      /\ r \in ArbitrateLocals => /\ conflicts'[r.conflict].status # "absent"
                                  /\ conflicts'[r.conflict].gate = r.gate.id
                                  /\ r.pc = "arbitrate_gate" => conflicts'[r.conflict].status = "resolved"
  BY <1>4 DEF GovGrows, CallerOK
<1>6. r \in WriteLocals =>
        govRun' # "absent" /\ (r.status = "completed" => DOMAIN gates' \subseteq wasTerminal')
  BY DEF GovGrows, CallerOK
<1> QED BY <1>2, <1>3, <1>5, <1>6 DEF CallerOK

LEMMA CallersMove ==
  ASSUME CallersOK, GovGrows, NEW c \in GovCallers, NEW r \in GovLocals, GovGoes(c, r), CallerOK(r)'
  PROVE  CallersOK'
<1>1. govCaller' \in [GovCallers -> GovLocals]
  BY DEF CallersOK, GovGoes
<1>2. ASSUME NEW d \in GovCallers PROVE CallerOK(govCaller[d])'
  <2>1. PICK u : u = govCaller'[d]
    OBVIOUS
  <2>2. CallerOK(u)'
    <3>1. CASE d = c
      BY <3>1, <2>1 DEF GovGoes, CallersOK
    <3>2. CASE d # c
      <4>1. u = govCaller[d] /\ u \in GovLocals /\ CallerOK(govCaller[d])
        BY <3>2, <2>1 DEF GovGoes, CallersOK
      <4> QED BY <4>1, LocalsKept
    <3> QED BY <3>1, <3>2
  <2> QED BY <2>1, <2>2 DEF CallerOK
<1> QED BY <1>1, <1>2 DEF CallersOK

LEMMA GovKinds ==
  ASSUME CallersOK, NEW c \in GovCallers
  PROVE  LET r == govCaller[c] IN
         /\ r \in GovLocals /\ CallerOK(r)
         /\ r.pc = "create_run" => r \in CreateLocals
         /\ r.pc = "get_run" => r \in OpenLocals \cup EscalateLocals \cup ReviewLocals \cup ArbitrateLocals
         /\ r.pc = "write_open" => r \in OpenLocals
         /\ r.pc \in {"write_escalate", "escalate_gate"} => r \in EscalateLocals
         /\ r.pc = "list_reviews" => r \in ListLocals
         /\ r.pc \in {"write_review", "consensus"} => r \in ReviewLocals
         /\ r.pc = "get_gate" => r \in ConflictLocals
         /\ r.pc \in {"write_arbitrate", "arbitrate_gate"} => r \in ArbitrateLocals
         /\ r.pc = "refresh" => r \in OpenLocals \cup ReviewLocals \cup ArbitrateLocals
         /\ r.pc = "write_run" => r \in WriteLocals
<1> DEFINE r == govCaller[c]
<1>1. r \in GovLocals /\ CallerOK(r)
  BY DEF CallersOK
<1> HIDE DEF r
<1>2. /\ r \in CreateLocals => r.pc = "create_run"
      /\ r \in OpenLocals => r.pc \in {"get_run", "write_open", "refresh"}
      /\ r \in EscalateLocals => r.pc \in {"get_run", "write_escalate", "escalate_gate"}
      /\ r \in ListLocals => r.pc = "list_reviews"
      /\ r \in ReviewLocals => r.pc \in {"get_run", "write_review", "consensus", "refresh"}
      /\ r \in ConflictLocals => r.pc = "get_gate"
      /\ r \in ArbitrateLocals => r.pc \in {"get_run", "write_arbitrate", "arbitrate_gate", "refresh"}
      /\ r \in WriteLocals => r.pc = "write_run"
      /\ r = GovIdle => r.pc = "idle"
  BY DEF CreateLocals, OpenLocals, EscalateLocals, ListLocals, ReviewLocals, ConflictLocals,
         ArbitrateLocals, WriteLocals, GovIdle
<1>3. r \in GovLocals => \/ r = GovIdle \/ r \in CreateLocals \/ r \in OpenLocals \/ r \in EscalateLocals
                         \/ r \in ListLocals \/ r \in ReviewLocals \/ r \in ConflictLocals
                         \/ r \in ArbitrateLocals \/ r \in WriteLocals
  BY DEF GovLocals, GateLocals
<1> QED BY <1>1, <1>2, <1>3 DEF r

\* The kinds of locals have different program counters, or different operations.
LEMMA KindsApart ==
  ASSUME NEW r
  PROVE  /\ r \in OpenLocals => r.pc \in {"get_run", "write_open", "refresh"} /\ r.op = "open"
         /\ r \in EscalateLocals => r.pc \in {"get_run", "write_escalate", "escalate_gate"} /\ r.op = "escalate"
         /\ r \in ListLocals => r.pc = "list_reviews" /\ r.op = "review"
         /\ r \in ReviewLocals => r.pc \in {"get_run", "write_review", "consensus", "refresh"} /\ r.op = "review"
         /\ r \in ConflictLocals => r.pc = "get_gate"
         /\ r \in ArbitrateLocals =>
              r.pc \in {"get_run", "write_arbitrate", "arbitrate_gate", "refresh"} /\ r.op = "arbitrate"
         /\ r \in WriteLocals => r.pc = "write_run"
BY DEF OpenLocals, EscalateLocals, ListLocals, ReviewLocals, ConflictLocals, ArbitrateLocals, WriteLocals

LEMMA IdleCallerOK == GovIdle \in GovLocals /\ CallerOK(GovIdle)
<1>1. GovIdle.pc = "idle"
  BY DEF GovIdle
<1>2. GovIdle \in GovLocals
  BY DEF GovLocals
<1>3. /\ GovIdle \notin OpenLocals /\ GovIdle \notin EscalateLocals /\ GovIdle \notin ListLocals
      /\ GovIdle \notin ReviewLocals /\ GovIdle \notin ConflictLocals /\ GovIdle \notin ArbitrateLocals
      /\ GovIdle \notin WriteLocals
  BY <1>1, KindsApart
<1> QED BY <1>2, <1>3 DEF CallerOK, GateLocals

\* A step that changes no table keeps what is known of them.
LEMMA TablesSame ==
  ASSUME GovInv, UNCHANGED govStore
  PROVE  GovTables' /\ GovGrows /\ TerminalNoted' /\ DecidedOnRecord'
<1>1. /\ govTemplate' = govTemplate /\ govRun' = govRun /\ gates' = gates /\ reviews' = reviews
      /\ conflicts' = conflicts /\ wasTerminal' = wasTerminal
  BY DEF govStore
<1>2. GovTables'
  BY <1>1 DEF GovInv, GovTables
<1>3. GovGrows
  BY <1>1 DEF GovGrows, SameTerms, ListReviewsByGate
<1>4. TerminalNoted'
  BY <1>1 DEF GovInv, TerminalNoted, terminal
<1>5. PassedOnRecord' /\ CompletedGatesDecided' /\ ArbitratedAfterConflict'
  BY <1>1 DEF GovInv, DecidedOnRecord, PassedOnRecord, CompletedGatesDecided, ArbitratedAfterConflict,
              ListReviewsByGate
<1> QED BY <1>2, <1>3, <1>4, <1>5 DEF DecidedOnRecord

\* A call that only reads.
LEMMA CallReads ==
  ASSUME GovInv, UNCHANGED govStore, NEW c \in GovCallers, NEW r \in GovLocals, CallerOK(r), GovGoes(c, r)
  PROVE  GovInv'
<1>1. GovTables' /\ GovGrows /\ TerminalNoted' /\ DecidedOnRecord'
  BY TablesSame
<1>2. CallerOK(r)'
  BY <1>1, LocalsKept
<1>3. CallersOK'
  BY <1>1, <1>2, CallersMove DEF GovInv
<1> QED BY <1>1, <1>3 DEF GovInv

\* A call that writes a gate: what it writes is within the terms of the gate, and a gate
\* that it passes or arbitrates has its reviews or its conflict on record.
LEMMA GateWritten ==
  ASSUME GovInv, NEW gate \in GateRuns, gate.id \in DOMAIN gates, SameTerms(gates[gate.id], gate),
         UpdateGate(gate), UNCHANGED <<govTemplate, govRun, reviews, conflicts>>,
         gate.status = "passed" /\ gate.mode # "none" =>
           Enough(gate, Cardinality(ListReviewsByGate(gate.id)), Cardinality(Approvals(gate.id))),
         gate.status = "arbitrated" =>
           \E k \in Conflicts : conflicts[k].status = "resolved" /\ conflicts[k].gate = gate.id
  PROVE  GovTables' /\ GovGrows /\ TerminalNoted' /\ DecidedOnRecord'
<1>1. /\ gates' \in [DOMAIN gates -> GateRuns] /\ DOMAIN gates' = DOMAIN gates
      /\ gates'[gate.id] = gate
      /\ \A g \in DOMAIN gates : g # gate.id => gates'[g] = gates[g]
  BY DEF GovInv, GovTables, UpdateGate
<1>2. /\ wasTerminal \subseteq wasTerminal'
      /\ terminal(gate) => gate.id \in wasTerminal'
  BY DEF UpdateGate, terminal
<1>3. govTemplate' = govTemplate /\ govRun' = govRun /\ reviews' = reviews /\ conflicts' = conflicts
  OBVIOUS
<1>4. GovTables'
  BY <1>1, <1>3 DEF GovInv, GovTables
<1>5. GovGrows
  <2>1. \A g \in DOMAIN gates : SameTerms(gates[g], gates'[g])
    BY <1>1 DEF SameTerms
  <2>2. \A g \in Nat : ListReviewsByGate(g)' = ListReviewsByGate(g)
    BY <1>3 DEF ListReviewsByGate
  <2> QED BY <1>1, <1>2, <1>3, <2>1, <2>2 DEF GovGrows
<1>6. TerminalNoted'
  <2> SUFFICES ASSUME NEW g \in DOMAIN gates', terminal(gates'[g]) PROVE g \in wasTerminal'
    BY DEF TerminalNoted, terminal
  <2> QED BY <1>1, <1>2 DEF GovInv, TerminalNoted
<1>7. PassedOnRecord'
  <2> SUFFICES ASSUME NEW g \in DOMAIN gates', gates'[g].status = "passed", gates'[g].mode # "none"
               PROVE  Enough(gates'[g], Cardinality(ListReviewsByGate(g)), Cardinality(Approvals(g)))
    BY <1>3 DEF PassedOnRecord, Enough, Approvals, ListReviewsByGate
  <2>1. CASE g = gate.id
    BY <1>1, <2>1
  <2>2. CASE g # gate.id
    BY <1>1, <2>2 DEF GovInv, DecidedOnRecord, PassedOnRecord, Enough, Approvals
  <2> QED BY <2>1, <2>2
<1>8. CompletedGatesDecided'
  BY <1>1, <1>2, <1>3 DEF GovInv, DecidedOnRecord, CompletedGatesDecided
<1>9. ArbitratedAfterConflict'
  BY <1>1, <1>3 DEF GovInv, DecidedOnRecord, ArbitratedAfterConflict
<1> QED BY <1>4, <1>5, <1>6, <1>7, <1>8, <1>9 DEF DecidedOnRecord

\* A request that wrote and goes on.
LEMMA CallWrote ==
  ASSUME GovInv, GovTables', GovGrows, TerminalNoted', DecidedOnRecord',
         NEW c \in GovCallers, NEW r \in GovLocals, CallerOK(r)', GovGoes(c, r)
  PROVE  GovInv'
BY CallersMove DEF GovInv

-----------------------------------------------------------------------------
(* Templates and runs                                                      *)

LEMMA Normalized ==
  ASSUME NEW list \in Seq(Definitions), validGates(list)
  PROVE  normalizeGates(list) \in Seq(NormalGates) /\ normalizeGates(list) \in Seq(Definitions)
<1>1. ASSUME NEW i \in DOMAIN list PROVE normalizeGates(list)[i] \in NormalGates
  <2> DEFINE gate == list[i]
             m == IF gate.mode = "" THEN "none" ELSE gate.mode
             pol == IF gate.policy # "" THEN gate.policy ELSE IF m = "single" THEN "any" ELSE "majority"
             asked == IF gate.required <= 0 THEN defaultRequiredReviewers(m) ELSE gate.required
             req == IF m = "multi" /\ asked < 2 THEN 2 ELSE asked
             mn == IF gate.min <= 0 THEN defaultMinApprovals(req, pol) ELSE gate.min
             esc == IF gate.escalation = "" THEN "none" ELSE gate.escalation
             ident == IF gate.id = 0 THEN i ELSE gate.id
  <2>1. gate \in Definitions /\ i \in Nat
    OBVIOUS
  <2>2. normalizeGates(list)[i]
          = [id |-> ident, mode |-> m, policy |-> pol, escalation |-> esc, required |-> req, min |-> mn]
    BY DEF normalizeGates, normalizeGate
  <2>3. m \in Modes
    <3>1. normalizeGates(list)[i].mode \in Modes
      BY DEF validGates, validateReviewMode
    <3> HIDE DEF gate, m, pol, asked, req, mn, esc, ident
    <3> QED BY <2>2, <3>1
  <2> HIDE DEF gate
  <2>4. pol \in Consensus /\ esc \in Escalations /\ ident \in Nat
    BY <2>1 DEF Definitions, Consensus, Escalations
  <2>5. gate.required \in Nat /\ gate.min \in Nat
    BY <2>1 DEF Definitions
  <2> HIDE DEF m, pol
  <2>6. asked \in Nat
    BY <2>5 DEF defaultRequiredReviewers
  <2> HIDE DEF asked
  <2>7. req \in Nat
    BY <2>6
  <2> HIDE DEF req
  <2>8. mn \in Nat
    BY <2>5, <2>7 DEF defaultMinApprovals
  <2> HIDE DEF mn, esc, ident
  <2> QED BY <2>2, <2>3, <2>4, <2>7, <2>8 DEF NormalGates
<1>2. Len(list) \in Nat /\ DOMAIN list = 1..Len(list)
  OBVIOUS
<1>3. normalizeGates(list) \in [1..Len(list) -> NormalGates]
  BY <1>1, <1>2 DEF normalizeGates
<1>4. normalizeGates(list) \in Seq(NormalGates)
  BY <1>2, <1>3
<1>5. NormalGates \subseteq Definitions
  BY DEF NormalGates, Definitions
<1> QED BY <1>4, <1>5

LEMMA UpsertTemplateInv ==
  ASSUME GovInv, NEW c \in GovCallers, UpsertTemplate(c)
  PROVE  GovInv'
<1>1. govTemplate' \subseteq Seq(Definitions)
  <2>1. PICK list \in GateDefinitions :
          govTemplate' = IF validGates(list) THEN {normalizeGates(list)} ELSE govTemplate
    BY DEF UpsertTemplate
  <2>2. list \in Seq(Definitions)
    BY GovernanceAssumption
  <2>3. govTemplate \subseteq Seq(Definitions)
    BY DEF GovInv, GovTables
  <2> QED BY <2>1, <2>2, <2>3, Normalized
<1>2. /\ govRun' = govRun /\ gates' = gates /\ reviews' = reviews
      /\ conflicts' = conflicts /\ wasTerminal' = wasTerminal
  BY DEF UpsertTemplate
<1>3. GovTables'
  BY <1>1, <1>2 DEF GovInv, GovTables
<1>4. GovGrows
  BY <1>2 DEF GovGrows, SameTerms, ListReviewsByGate
<1>5. TerminalNoted'
  BY <1>2 DEF GovInv, TerminalNoted, terminal
<1>6. DecidedOnRecord'
  BY <1>2 DEF GovInv, DecidedOnRecord, PassedOnRecord, CompletedGatesDecided, ArbitratedAfterConflict,
              ListReviewsByGate
<1>7. CallerOK(GovIdle)'
  BY <1>4, IdleCallerOK, LocalsKept
<1>8. GovGoes(c, GovIdle)
  BY DEF UpsertTemplate, GovAnswer
<1> QED BY <1>3, <1>4, <1>5, <1>6, <1>7, <1>8, IdleCallerOK, CallWrote

LEMMA StartRunInv ==
  ASSUME GovInv, NEW c \in GovCallers, StartRun(c)
  PROVE  GovInv'
<1>1. PICK list \in GateDefinitions \cup govTemplate :
        IF validGates(list) THEN GovGoes(c, [pc |-> "create_run", gates |-> normalizeGates(list)])
        ELSE GovAnswer(c)
  BY DEF StartRun
<1>2. UNCHANGED govStore
  BY DEF StartRun
<1>3. list \in Seq(Definitions)
  BY GovernanceAssumption DEF GovInv, GovTables
<1>4. CASE ~validGates(list)
  BY <1>1, <1>2, <1>4, IdleCallerOK, CallReads DEF GovAnswer
<1>5. CASE validGates(list)
  <2> DEFINE r == [pc |-> "create_run", gates |-> normalizeGates(list)]
  <2>1. r \in CreateLocals /\ r.pc = "create_run"
    BY <1>3, <1>5, Normalized DEF CreateLocals
  <2> HIDE DEF r
  <2>2. r \in GovLocals
    BY <2>1 DEF GovLocals
  <2>3. CallerOK(r)
    BY <2>1, <2>2, KindsApart DEF CallerOK, GateLocals
  <2>4. GovGoes(c, r)
    BY <1>1, <1>5 DEF r
  <2> QED BY <1>2, <2>2, <2>3, <2>4, CallReads
<1> QED BY <1>4, <1>5

\* A run is created with all its gates pending, when there are no rows about it yet.
LEMMA StartRunCreatesInv ==
  ASSUME GovInv, NEW c \in GovCallers, StartRunCreates(c)
  PROVE  GovInv'
<1> DEFINE list == govCaller[c].gates
<1>1. list \in Seq(NormalGates)
  BY GovKinds DEF StartRunCreates, GovAt, GovInv, CreateLocals
<1>2. GovGoes(c, GovIdle)
  BY DEF StartRunCreates, GovAnswer
<1>3. CASE GetRun /\ UNCHANGED <<govRun, gates>>
  <2>1. UNCHANGED govStore
    BY <1>3 DEF StartRunCreates, govStore
  <2> QED BY <1>2, <2>1, IdleCallerOK, CallReads
<1>4. CASE ~GetRun /\ CreateRun(list)
  <2> HIDE DEF list
  <2> DEFINE ids == {list[i].id : i \in DOMAIN list}
             of(g) == list[CHOOSE i \in DOMAIN list : list[i].id = g]
  <2>1. /\ govTemplate' = govTemplate /\ reviews' = reviews
        /\ conflicts' = conflicts /\ wasTerminal' = wasTerminal
    BY DEF StartRunCreates
  <2>2. gates' = [g \in ids |->
          [id |-> g, status |-> "pending", mode |-> of(g).mode, policy |-> of(g).policy,
           escalation |-> of(g).escalation, required |-> of(g).required, min |-> of(g).min, decision |-> ""]]
    BY <1>4 DEF CreateRun
  <2>3. govRun' = IF list = <<>> THEN "completed" ELSE "active"
    BY <1>4 DEF CreateRun
  <2>4. ASSUME NEW g \in ids PROVE of(g) \in NormalGates /\ g \in Nat
    <3>1. PICK place \in DOMAIN list : list[place].id = g
      OBVIOUS
    <3>2. (CHOOSE i \in DOMAIN list : list[i].id = g) \in DOMAIN list
      BY <3>1
    <3>3. list[place] \in NormalGates
      BY <1>1
    <3>4. of(g) \in NormalGates
      BY <1>1, <3>2
    <3> QED BY <3>1, <3>3, <3>4 DEF NormalGates
  <2> HIDE DEF of, ids
  <2>5. ASSUME NEW g \in ids
        PROVE  gates'[g] \in GateRuns /\ gates'[g].id = g /\ gates'[g].status = "pending"
    BY <2>2, <2>4 DEF NormalGates, GateRuns, GateStatuses
  <2>6. DOMAIN gates' = ids /\ gates' \in [ids -> GateRuns]
    BY <2>2, <2>5
  <2>7. DOMAIN gates = {} /\ govRun = "absent"
    BY <1>4 DEF GetRun, GovInv, GovTables
  <2>8. \A k \in Conflicts : conflicts[k].status = "absent"
    BY <2>7 DEF GovInv, GovTables
  <2>9. GovTables'
    BY <2>1, <2>3, <2>5, <2>6, <2>8 DEF GovInv, GovTables, RunStatuses
  <2>10. GovGrows
    BY <2>1, <2>7, <2>8 DEF GovGrows, ListReviewsByGate
  <2>11. TerminalNoted'
    BY <2>5, <2>6 DEF TerminalNoted, terminal
  <2>12. DecidedOnRecord'
    <3>1. PassedOnRecord' /\ ArbitratedAfterConflict'
      BY <2>5, <2>6 DEF PassedOnRecord, ArbitratedAfterConflict
    <3>2. CompletedGatesDecided'
      <4>1. list = <<>> => ids = {}
        BY DEF ids
      <4> QED BY <2>3, <2>6, <4>1 DEF CompletedGatesDecided
    <3> QED BY <3>1, <3>2 DEF DecidedOnRecord
  <2>13. CallerOK(GovIdle)'
    BY <2>10, IdleCallerOK, LocalsKept
  <2> QED BY <1>2, <2>9, <2>10, <2>11, <2>12, <2>13, IdleCallerOK, CallWrote
<1> QED BY <1>3, <1>4 DEF StartRunCreates

-----------------------------------------------------------------------------
(* Gates                                                                   *)

\* A request that found a gate works on a copy within its terms.
LEMMA FoundGate ==
  ASSUME GovInv, NEW g \in DOMAIN gates
  PROVE  /\ gates[g] \in GateRuns /\ gates[g].id = g /\ g \in Nat
         /\ SameTerms(gates[gates[g].id], gates[g])
<1>1. gates[g] \in GateRuns /\ gates[g].id = g
  BY DEF GovInv, GovTables
<1> QED BY <1>1 DEF GateRuns, SameTerms

LEMMA OpenGateInv ==
  ASSUME GovInv, NEW c \in GovCallers, OpenGate(c)
  PROVE  GovInv'
<1>1. PICK g \in DOMAIN gates : gates[g].status \in {"pending", "open"} /\ findGate(c, "open", g)
  BY DEF OpenGate, ListGates
<1> DEFINE r == [pc |-> "get_run", op |-> "open", gate |-> gates[g], run |-> "absent"]
<1>2. GovGoes(c, r) /\ UNCHANGED govStore
  BY <1>1 DEF OpenGate, findGate, ListGates
<1>3. r \in OpenLocals /\ r.gate = gates[g] /\ r.op = "open" /\ r.pc = "get_run"
  BY FoundGate DEF OpenLocals, RunStatuses
<1> HIDE DEF r
<1>4. r \in GovLocals
  BY <1>3 DEF GovLocals, GateLocals
<1>5. CallerOK(r)
  BY <1>1, <1>3, <1>4, FoundGate, KindsApart DEF CallerOK
<1> QED BY <1>2, <1>4, <1>5, CallReads

LEMMA EscalateInv ==
  ASSUME GovInv, NEW c \in GovCallers, Escalate(c)
  PROVE  GovInv'
<1>1. PICK g \in DOMAIN gates : findGate(c, "escalate", g)
  BY DEF Escalate
<1> DEFINE r == [pc |-> "get_run", op |-> "escalate", gate |-> gates[g], run |-> "absent"]
<1>2. GovGoes(c, r) /\ UNCHANGED govStore
  BY <1>1 DEF Escalate, findGate, ListGates
<1>3. r \in EscalateLocals /\ r.gate = gates[g] /\ r.op = "escalate" /\ r.pc = "get_run"
  BY FoundGate DEF EscalateLocals, RunStatuses
<1> HIDE DEF r
<1>4. r \in GovLocals
  BY <1>3 DEF GovLocals, GateLocals
<1>5. CallerOK(r)
  BY <1>1, <1>3, <1>4, FoundGate, KindsApart DEF CallerOK
<1> QED BY <1>2, <1>4, <1>5, CallReads

\* Every request that has a gate has one of the run, and the run exists.
LEMMA CallerGate ==
  ASSUME GovInv, NEW c \in GovCallers, govCaller[c] \in GateLocals
  PROVE  LET gate == govCaller[c].gate IN
         /\ gate \in GateRuns /\ gate.id \in DOMAIN gates /\ gate.id \in Nat
         /\ SameTerms(gates[gate.id], gate) /\ govRun # "absent"
<1> DEFINE r == govCaller[c]
<1>1. CallerOK(r)
  BY DEF GovInv, CallersOK
<1> HIDE DEF r
<1>2. r \in GateLocals => r.gate \in GateRuns
  BY DEF GateLocals, OpenLocals, EscalateLocals, ListLocals, ReviewLocals, ArbitrateLocals
<1>3. r \in GateLocals
  BY DEF r
<1>4. r.gate.id \in DOMAIN gates /\ SameTerms(gates[r.gate.id], r.gate)
  BY <1>1, <1>3 DEF CallerOK
<1>5. govRun # "absent"
  BY <1>4 DEF GovInv, GovTables
<1>6. r.gate.id \in Nat
  BY <1>2, <1>3 DEF GateRuns
<1> QED BY <1>2, <1>3, <1>4, <1>5, <1>6 DEF r

LEMMA OpenGateWritesInv ==
  ASSUME GovInv, NEW c \in GovCallers, OpenGateWrites(c)
  PROVE  GovInv'
<1> DEFINE r == govCaller[c]
<1>0. PICK next : next = [r EXCEPT !.pc = "refresh"]
  OBVIOUS
<1>1. r \in OpenLocals /\ r \in GovLocals /\ CallerOK(r) /\ r \in GateLocals
  BY GovKinds DEF OpenGateWrites, GovAt, GovInv, GateLocals
<1>2. /\ r.gate \in GateRuns /\ r.gate.id \in DOMAIN gates /\ SameTerms(gates[r.gate.id], r.gate)
  BY <1>1, CallerGate
<1> DEFINE gate == IF r.gate.mode = "none" THEN [r.gate EXCEPT !.status = "passed", !.decision = "approve"]
                   ELSE [r.gate EXCEPT !.status = "open"]
<1>3. /\ UpdateGate(gate) /\ GovGoes(c, next)
      /\ UNCHANGED <<govTemplate, govRun, reviews, conflicts>>
  BY <1>0 DEF OpenGateWrites
<1> HIDE DEF r
<1>4. /\ gate \in GateRuns /\ gate.id = r.gate.id
      /\ SameTerms(r.gate, gate)
      /\ gate.status # "arbitrated" /\ (gate.status = "passed" => gate.mode = "none")
  BY <1>2 DEF GateRuns, GateStatuses, Decisions, SameTerms
<1> HIDE DEF gate
<1>5. SameTerms(gates[gate.id], gate)
  BY <1>2, <1>4 DEF SameTerms
<1>6. GovTables' /\ GovGrows /\ TerminalNoted' /\ DecidedOnRecord'
  BY <1>2, <1>3, <1>4, <1>5, GateWritten
<1>7. /\ next \in OpenLocals /\ next.gate = r.gate
  BY <1>0, <1>1 DEF OpenLocals
<1>8. next \in GovLocals
  BY <1>7 DEF GovLocals, GateLocals
<1>9. CallerOK(next)
  <2>1. r.gate.status \in {"pending", "open"}
    BY <1>1 DEF CallerOK
  <2> QED BY <1>2, <1>7, <1>8, <2>1, KindsApart DEF CallerOK
<1>10. CallerOK(next)'
  BY <1>6, <1>8, <1>9, LocalsKept
<1> QED BY <1>3, <1>6, <1>8, <1>10, CallWrote

LEMMA EscalateWritesInv ==
  ASSUME GovInv, NEW c \in GovCallers, EscalateWrites(c)
  PROVE  GovInv'
<1> DEFINE r == govCaller[c]
           gate == [r.gate EXCEPT !.status = "escalation_pending"]
<1>1. r \in GateLocals
  BY GovKinds DEF EscalateWrites, GovAt, GovInv, GateLocals
<1>2. /\ r.gate \in GateRuns /\ r.gate.id \in DOMAIN gates /\ SameTerms(gates[r.gate.id], r.gate)
  BY <1>1, CallerGate
<1>3. /\ UpdateGate(gate) /\ GovGoes(c, GovIdle)
      /\ UNCHANGED <<govTemplate, govRun, reviews, conflicts>>
  BY DEF EscalateWrites, GovAnswer
<1> HIDE DEF r
<1>4. /\ gate \in GateRuns /\ gate.id = r.gate.id /\ SameTerms(r.gate, gate)
      /\ gate.status = "escalation_pending"
  BY <1>2 DEF GateRuns, GateStatuses, SameTerms
<1> HIDE DEF gate
<1>5. SameTerms(gates[gate.id], gate)
  BY <1>2, <1>4 DEF SameTerms
<1>6. GovTables' /\ GovGrows /\ TerminalNoted' /\ DecidedOnRecord'
  BY <1>2, <1>3, <1>4, <1>5, GateWritten
<1>7. CallerOK(GovIdle)'
  BY <1>6, IdleCallerOK, LocalsKept
<1> QED BY <1>3, <1>6, <1>7, IdleCallerOK, CallWrote

\* An escalation adds a conflict for its gate.
LEMMA EscalateSavesInv ==
  ASSUME GovInv, NEW c \in GovCallers, EscalateSaves(c)
  PROVE  GovInv'
<1> DEFINE r == govCaller[c]
<1>0. PICK next : next = [r EXCEPT !.pc = "escalate_gate"]
  OBVIOUS
<1>1. r \in EscalateLocals /\ r \in GateLocals
  BY GovKinds DEF EscalateSaves, GovAt, GovInv, GateLocals
<1>2. /\ r.gate \in GateRuns /\ r.gate.id \in DOMAIN gates /\ r.gate.id \in Nat
      /\ SameTerms(gates[r.gate.id], r.gate)
  BY <1>1, CallerGate
<1>3. PICK k \in Conflicts : ~GetConflict(k) /\ SaveConflict(k, r.gate.id)
  BY DEF EscalateSaves
<1>4. /\ govTemplate' = govTemplate /\ govRun' = govRun /\ gates' = gates /\ reviews' = reviews
      /\ wasTerminal' = wasTerminal /\ GovGoes(c, next)
  BY <1>0 DEF EscalateSaves
<1> HIDE DEF r
<1>5. /\ conflicts' = [conflicts EXCEPT ![k] = [status |-> "open", gate |-> r.gate.id]]
      /\ conflicts[k].status = "absent" /\ conflicts \in [Conflicts -> ConflictRows]
  BY <1>3 DEF SaveConflict, GetConflict, GovInv, GovTables
<1>6. /\ \A j \in Conflicts : j # k => conflicts'[j] = conflicts[j]
      /\ conflicts'[k] = [status |-> "open", gate |-> r.gate.id]
      /\ conflicts' \in [Conflicts -> ConflictRows]
  BY <1>2, <1>5 DEF ConflictRows
<1>7. GovTables'
  <2>1. \A j \in Conflicts : conflicts'[j].status # "absent" => conflicts'[j].gate \in DOMAIN gates
    <3> SUFFICES ASSUME NEW j \in Conflicts, conflicts'[j].status # "absent"
                 PROVE  conflicts'[j].gate \in DOMAIN gates
      OBVIOUS
    <3>1. CASE j = k
      BY <1>2, <1>6, <3>1
    <3>2. CASE j # k
      BY <1>6, <3>2 DEF GovInv, GovTables
    <3> QED BY <3>1, <3>2
  <2> QED BY <1>4, <1>6, <2>1 DEF GovInv, GovTables
<1>8. GovGrows
  BY <1>4, <1>5, <1>6 DEF GovGrows, SameTerms, ListReviewsByGate
<1>9. TerminalNoted'
  BY <1>4 DEF GovInv, TerminalNoted, terminal
<1>10. PassedOnRecord' /\ CompletedGatesDecided'
  BY <1>4 DEF GovInv, DecidedOnRecord, PassedOnRecord, CompletedGatesDecided, ListReviewsByGate
<1>11. ArbitratedAfterConflict'
  <2> SUFFICES ASSUME NEW g \in DOMAIN gates, gates[g].status = "arbitrated"
               PROVE  \E j \in Conflicts : conflicts'[j].status = "resolved" /\ conflicts'[j].gate = g
    BY <1>4 DEF ArbitratedAfterConflict
  <2>1. PICK j \in Conflicts : conflicts[j].status = "resolved" /\ conflicts[j].gate = g
    BY DEF GovInv, DecidedOnRecord, ArbitratedAfterConflict
  <2>2. j # k
    BY <1>5, <2>1
  <2> QED BY <1>6, <2>1, <2>2
<1>12. next \in EscalateLocals /\ next.gate = r.gate
  BY <1>0, <1>1 DEF EscalateLocals
<1>13. next \in GovLocals
  BY <1>12 DEF GovLocals, GateLocals
<1>14. CallerOK(next)
  BY <1>2, <1>12, <1>13, KindsApart DEF CallerOK
<1>15. CallerOK(next)'
  BY <1>8, <1>13, <1>14, LocalsKept
<1>16. DecidedOnRecord'
  BY <1>10, <1>11 DEF DecidedOnRecord
<1> QED BY <1>4, <1>7, <1>8, <1>9, <1>13, <1>15, <1>16, CallWrote

-----------------------------------------------------------------------------
(* Reviews                                                                 *)

LEMMA SubmitReviewInv ==
  ASSUME GovInv, NEW c \in GovCallers, SubmitReview(c)
  PROVE  GovInv'
<1>1. PICK g \in DOMAIN gates, input \in ReviewInputs :
        /\ input.decision \in Decisions /\ gates[g].status = "open"
        /\ GovGoes(c, [pc |-> "list_reviews", op |-> "review", gate |-> gates[g], review |-> input])
  BY DEF SubmitReview, ListGates, validateReviewDecision
<1> DEFINE r == [pc |-> "list_reviews", op |-> "review", gate |-> gates[g], review |-> input]
<1>2. UNCHANGED govStore
  BY DEF SubmitReview
<1>3. r \in ListLocals /\ r.gate = gates[g] /\ r.review = input
  BY FoundGate DEF ListLocals
<1>4. GovGoes(c, r)
  BY <1>1
<1> HIDE DEF r
<1>5. r \in GovLocals
  BY <1>3 DEF GovLocals, GateLocals
<1>6. CallerOK(r)
  BY <1>1, <1>3, <1>5, FoundGate, KindsApart DEF CallerOK
<1> QED BY <1>2, <1>4, <1>5, <1>6, CallReads

LEMMA SubmitReviewListsInv ==
  ASSUME GovInv, NEW c \in GovCallers, SubmitReviewLists(c)
  PROVE  GovInv'
<1> DEFINE r     == govCaller[c]
           rows  == ListReviewsByGate(r.gate.id)
           given == [gate |-> r.gate.id, reviewer |-> r.review.reviewer,
                     type |-> IF r.review.type = "" THEN "agent" ELSE r.review.type,
                     decision |-> r.review.decision]
           next  == [pc |-> "get_run", op |-> "review", gate |-> r.gate, run |-> "absent",
                     listed |-> rows, review |-> given]
<1>1. r \in ListLocals /\ r \in GateLocals /\ CallerOK(r)
  BY GovKinds DEF SubmitReviewLists, GovAt, GovInv, GateLocals
<1>2. /\ r.gate \in GateRuns /\ r.gate.id \in DOMAIN gates /\ r.gate.id \in Nat
      /\ SameTerms(gates[r.gate.id], r.gate)
  BY <1>1, CallerGate
<1>3. UNCHANGED govStore /\ (GovGoes(c, GovIdle) \/ GovGoes(c, next))
  BY DEF SubmitReviewLists, GovAnswer
<1>4. r.gate.status = "open" /\ r.review.decision \in Decisions /\ r.review \in ReviewInputs
  BY <1>1 DEF CallerOK, ListLocals
<1>5. rows \subseteq Nat
  <2>1. reviews \in Seq(ReviewRows)
    BY DEF GovInv, GovTables
  <2> QED BY <2>1 DEF ListReviewsByGate
<1>6. given \in ReviewRows /\ given.gate = r.gate.id
  <2>1. PICK type \in {"agent"} \cup {input.type : input \in ReviewInputs} :
          type = IF r.review.type = "" THEN "agent" ELSE r.review.type
    BY <1>4
  <2>2. r.review.reviewer \in {input.reviewer : input \in ReviewInputs}
    BY <1>4
  <2> HIDE DEF r
  <2> QED BY <1>2, <1>4, <2>1, <2>2 DEF ReviewRows
<1> HIDE DEF r, given, rows
<1>7. /\ next \in ReviewLocals /\ next.gate = r.gate /\ next.review = given /\ next.listed = rows
  BY <1>2, <1>5, <1>6 DEF ReviewLocals, RunStatuses
<1> HIDE DEF next
<1>8. next \in GovLocals
  BY <1>7 DEF GovLocals, GateLocals
<1>9. CallerOK(next)
  <2>1. next.listed \subseteq ListReviewsByGate(next.gate.id)
    BY <1>7 DEF rows
  <2> QED BY <1>2, <1>4, <1>6, <1>7, <1>8, <2>1, KindsApart DEF CallerOK
<1>10. CASE GovGoes(c, GovIdle)
  BY <1>3, <1>10, IdleCallerOK, CallReads
<1>11. CASE GovGoes(c, next)
  BY <1>3, <1>8, <1>9, <1>11, CallReads
<1> QED BY <1>3, <1>10, <1>11

\* A review is added to the table, and its request counts it with those it has listed.
LEMMA SubmitReviewSavesInv ==
  ASSUME GovInv, NEW c \in GovCallers, SubmitReviewSaves(c)
  PROVE  GovInv'
<1> DEFINE r == govCaller[c]
<1>0. PICK next : next = [r EXCEPT !.pc = "consensus", !.listed = @ \cup {Len(reviews) + 1}]
  OBVIOUS
<1>1. r \in ReviewLocals /\ r \in GateLocals /\ CallerOK(r)
  BY GovKinds DEF SubmitReviewSaves, GovAt, GovInv, GateLocals
<1>2. /\ r.gate \in GateRuns /\ r.gate.id \in DOMAIN gates /\ r.gate.id \in Nat
      /\ SameTerms(gates[r.gate.id], r.gate)
  BY <1>1, CallerGate
<1>3. /\ reviews' = Append(reviews, r.review) /\ GovGoes(c, next)
      /\ govTemplate' = govTemplate /\ govRun' = govRun /\ gates' = gates
      /\ conflicts' = conflicts /\ wasTerminal' = wasTerminal
  BY <1>0 DEF SubmitReviewSaves, SaveReview
<1> HIDE DEF r
<1>4. reviews \in Seq(ReviewRows) /\ r.review \in ReviewRows
  BY <1>1 DEF GovInv, GovTables, ReviewLocals
<1>5. /\ reviews' \in Seq(ReviewRows)
      /\ \A g : ListReviewsByGate(g) \subseteq ListReviewsByGate(g)' /\ Approvals(g) \subseteq Approvals(g)'
  BY <1>3, <1>4, ReviewsGrow
<1>6. GovTables'
  BY <1>3, <1>5 DEF GovInv, GovTables
<1>7. GovGrows
  BY <1>3, <1>5 DEF GovGrows, SameTerms
<1>8. TerminalNoted'
  BY <1>3 DEF GovInv, TerminalNoted, terminal
<1>9. CompletedGatesDecided' /\ ArbitratedAfterConflict'
  BY <1>3 DEF GovInv, DecidedOnRecord, CompletedGatesDecided, ArbitratedAfterConflict
<1>10. PassedOnRecord'
  <2> SUFFICES ASSUME NEW g \in DOMAIN gates, gates[g].status = "passed", gates[g].mode # "none"
               PROVE  Enough(gates[g], Cardinality(ListReviewsByGate(g)'), Cardinality(Approvals(g)'))
    BY <1>3 DEF PassedOnRecord, Enough, Approvals, ListReviewsByGate
  <2>1. Enough(gates[g], Cardinality(ListReviewsByGate(g)), Cardinality(Approvals(g)))
    BY DEF GovInv, DecidedOnRecord, PassedOnRecord, Enough, Approvals
  <2>2. /\ Cardinality(ListReviewsByGate(g)) \in Nat /\ Cardinality(Approvals(g)) \in Nat
    BY <1>4, ReviewsFinite
  <2>3. /\ IsFiniteSet(ListReviewsByGate(g)') /\ IsFiniteSet(Approvals(g)')
        /\ Cardinality(ListReviewsByGate(g)') \in Nat /\ Cardinality(Approvals(g)') \in Nat
    <3>1. DOMAIN reviews' = 1..Len(reviews') /\ Len(reviews') \in Nat
      BY <1>5
    <3>2. IsFiniteSet(DOMAIN reviews')
      BY <3>1, FS_Interval
    <3>3. ListReviewsByGate(g)' \in SUBSET DOMAIN reviews' /\ Approvals(g)' \in SUBSET ListReviewsByGate(g)'
      BY DEF ListReviewsByGate, Approvals
    <3>4. IsFiniteSet(ListReviewsByGate(g)') /\ IsFiniteSet(Approvals(g)')
      BY <3>2, <3>3, FS_Subset
    <3> QED BY <3>4, FS_CardinalityType
  <2>4. /\ Cardinality(ListReviewsByGate(g)) <= Cardinality(ListReviewsByGate(g)')
        /\ Cardinality(Approvals(g)) <= Cardinality(Approvals(g)')
    BY <1>5, <2>3, FS_Subset
  <2>5. gates[g] \in GateRuns /\ SameTerms(gates[g], gates[g])
    BY DEF GovInv, GovTables, SameTerms
  <2> QED BY <2>1, <2>2, <2>3, <2>4, <2>5, EnoughKept
<1>11. /\ next \in ReviewLocals /\ next.gate = r.gate /\ next.review = r.review
       /\ next.listed = r.listed \cup {Len(reviews) + 1}
  <2>1. Len(reviews) + 1 \in Nat
    BY <1>4
  <2> QED BY <1>0, <1>1, <2>1 DEF ReviewLocals
<1>12. next \in GovLocals
  BY <1>11 DEF GovLocals, GateLocals
<1>13. CallerOK(next)'
  <2>1. r.gate.status = "open" /\ r.review.gate = r.gate.id /\ r.listed \subseteq ListReviewsByGate(r.gate.id)
    BY <1>1 DEF CallerOK
  <2>2. PICK g : g = r.gate.id
    OBVIOUS
  <2>3. next.listed \subseteq ListReviewsByGate(next.gate.id)'
    <3>1. Len(reviews) + 1 \in DOMAIN reviews' /\ reviews'[Len(reviews) + 1] = r.review
      BY <1>3, <1>4
    <3>2. Len(reviews) + 1 \in ListReviewsByGate(g)'
      BY <2>1, <2>2, <3>1 DEF ListReviewsByGate
    <3>3. r.listed \subseteq ListReviewsByGate(g)'
      BY <1>5, <2>1, <2>2
    <3> QED BY <1>11, <2>2, <3>2, <3>3
  <2>4. SameTerms(gates'[next.gate.id], next.gate) /\ next.gate.id \in DOMAIN gates'
    BY <1>2, <1>3, <1>11
  <2> QED BY <1>11, <1>12, <2>1, <2>3, <2>4, KindsApart DEF CallerOK
<1>14. DecidedOnRecord'
  BY <1>9, <1>10 DEF DecidedOnRecord
<1> QED BY <1>3, <1>6, <1>7, <1>8, <1>12, <1>13, <1>14, CallWrote

LEMMA ConsensusInv ==
  ASSUME GovInv, NEW c \in GovCallers, applyConsensus(c)
  PROVE  GovInv'
<1> DEFINE r == govCaller[c]
           status == consensusStatus(r.gate, r.listed)
           gate == [r.gate EXCEPT !.status = status,
                      !.decision = IF status = "passed" THEN "approve"
                                   ELSE IF status = "rejected" THEN "reject" ELSE @]
<1>0. PICK next : next = [r EXCEPT !.pc = "refresh"]
  OBVIOUS
<1>1. r \in ReviewLocals /\ r \in GateLocals /\ CallerOK(r)
  BY GovKinds DEF applyConsensus, GovAt, GovInv, GateLocals
<1>2. /\ r.gate \in GateRuns /\ r.gate.id \in DOMAIN gates /\ r.gate.id \in Nat
      /\ SameTerms(gates[r.gate.id], r.gate)
  BY <1>1, CallerGate
<1>3. /\ IF status = r.gate.status THEN UNCHANGED <<gates, wasTerminal>> ELSE UpdateGate(gate)
      /\ GovGoes(c, next) /\ UNCHANGED <<govTemplate, govRun, reviews, conflicts>>
  BY <1>0 DEF applyConsensus
<1>4. r.gate.status = "open" /\ r.review.gate = r.gate.id /\ r.listed \subseteq ListReviewsByGate(r.gate.id)
  BY <1>1 DEF CallerOK
<1>5. /\ next \in ReviewLocals /\ next.gate = r.gate /\ next.review = r.review /\ next.listed = r.listed
  BY <1>0, <1>1 DEF ReviewLocals
<1>6. next \in GovLocals
  BY <1>5 DEF GovLocals, GateLocals
<1>7. CallerOK(next)
  BY <1>2, <1>4, <1>5, <1>6, KindsApart DEF CallerOK
<1>8. GovTables' /\ GovGrows /\ TerminalNoted' /\ DecidedOnRecord'
  <2>1. CASE status = r.gate.status
    <3>1. UNCHANGED govStore
      BY <1>3, <2>1 DEF govStore
    <3> QED BY <3>1, TablesSame
  <2>2. CASE status # r.gate.status
    <3>1. status \in {"open", "passed", "rejected", "escalation_pending"}
      BY <1>4 DEF consensusStatus, escalationOrRejected
    <3>2. status = "passed" =>
            Enough(r.gate, Cardinality(ListReviewsByGate(r.gate.id)), Cardinality(Approvals(r.gate.id)))
      <4>1. reviews \in Seq(ReviewRows)
        BY DEF GovInv, GovTables
      <4> QED BY <1>2, <1>4, <4>1, ConsensusPasses
    <3> HIDE DEF r, status
    <3>3. /\ gate \in GateRuns /\ gate.id = r.gate.id /\ gate.status = status
          /\ gate.policy = r.gate.policy /\ gate.required = r.gate.required /\ gate.min = r.gate.min
          /\ gate.mode = r.gate.mode
      BY <1>2, <3>1 DEF GateRuns, GateStatuses, Decisions
    <3> HIDE DEF gate
    <3>4. SameTerms(gates[gate.id], gate)
      BY <1>2, <3>3 DEF SameTerms
    <3>5. gate.status = "passed" =>
            Enough(gate, Cardinality(ListReviewsByGate(gate.id)), Cardinality(Approvals(gate.id)))
      BY <3>2, <3>3 DEF Enough
    <3>6. UpdateGate(gate) /\ gate.status # "arbitrated"
      BY <1>3, <2>2, <3>1, <3>3
    <3> QED BY <1>2, <1>3, <3>3, <3>4, <3>5, <3>6, GateWritten
  <2> QED BY <2>1, <2>2
<1>9. CallerOK(next)'
  BY <1>6, <1>7, <1>8, LocalsKept
<1> QED BY <1>3, <1>6, <1>8, <1>9, CallWrote

-----------------------------------------------------------------------------
(* Arbitration                                                             *)

LEMMA ArbitrateInv ==
  ASSUME GovInv, NEW c \in GovCallers, Arbitrate(c)
  PROVE  GovInv'
<1>1. PICK k \in Conflicts, decision \in Arbitrations :
        /\ decision \in Decisions /\ conflicts[k].status = "open"
        /\ GovGoes(c, [pc |-> "get_gate", op |-> "arbitrate", conflict |-> k, decision |-> decision])
  BY DEF Arbitrate, validateReviewDecision
<1> DEFINE r == [pc |-> "get_gate", op |-> "arbitrate", conflict |-> k, decision |-> decision]
<1>2. UNCHANGED govStore
  BY DEF Arbitrate
<1>3. r \in ConflictLocals /\ r.conflict = k
  BY <1>1 DEF ConflictLocals
<1>4. GovGoes(c, r)
  BY <1>1
<1> HIDE DEF r
<1>5. r \in GovLocals
  BY <1>3 DEF GovLocals
<1>6. CallerOK(r)
  BY <1>1, <1>3, <1>5, KindsApart DEF CallerOK, GateLocals
<1> QED BY <1>2, <1>4, <1>5, <1>6, CallReads

LEMMA ArbitrateReadsGateInv ==
  ASSUME GovInv, NEW c \in GovCallers, ArbitrateReadsGate(c)
  PROVE  GovInv'
<1> DEFINE r == govCaller[c]
           g == conflicts[r.conflict].gate
           next == [pc |-> "get_run", op |-> "arbitrate", gate |-> gates[g], run |-> "absent",
                    conflict |-> r.conflict, decision |-> r.decision]
<1>1. r \in ConflictLocals /\ CallerOK(r)
  BY GovKinds DEF ArbitrateReadsGate, GovAt, GovInv
<1>2. UNCHANGED govStore /\ GovGoes(c, next)
  BY DEF ArbitrateReadsGate, ListGates
<1>3. /\ r.conflict \in Conflicts /\ r.decision \in Decisions
      /\ conflicts[r.conflict].status # "absent"
  BY <1>1 DEF CallerOK, ConflictLocals
<1>4. g \in DOMAIN gates
  BY <1>3 DEF GovInv, GovTables
<1> HIDE DEF r, g
<1>5. /\ next \in ArbitrateLocals /\ next.gate = gates[g] /\ next.conflict = r.conflict
      /\ next.pc = "get_run"
  BY <1>3, <1>4, FoundGate DEF ArbitrateLocals, RunStatuses
<1> HIDE DEF next
<1>6. next \in GovLocals
  BY <1>5 DEF GovLocals, GateLocals
<1>7. CallerOK(next)
  BY <1>3, <1>4, <1>5, <1>6, FoundGate, KindsApart DEF CallerOK, g
<1> QED BY <1>2, <1>6, <1>7, CallReads

\* The conflict is resolved, with the gate it was opened for.
LEMMA ArbitrateResolvesInv ==
  ASSUME GovInv, NEW c \in GovCallers, ArbitrateResolves(c)
  PROVE  GovInv'
<1> DEFINE r == govCaller[c]
           k == r.conflict
<1>0. PICK next : next = [r EXCEPT !.pc = "arbitrate_gate"]
  OBVIOUS
<1>1. r \in ArbitrateLocals /\ r \in GateLocals /\ CallerOK(r)
  BY GovKinds DEF ArbitrateResolves, GovAt, GovInv, GateLocals
<1>2. /\ r.gate \in GateRuns /\ r.gate.id \in DOMAIN gates /\ r.gate.id \in Nat
      /\ SameTerms(gates[r.gate.id], r.gate)
  BY <1>1, CallerGate
<1>3. /\ conflicts' = [conflicts EXCEPT ![k] =
             [status |-> "resolved", gate |-> conflicts[k].gate, decision |-> r.decision]]
      /\ GovGoes(c, next) /\ reviews' = reviews
      /\ govTemplate' = govTemplate /\ govRun' = govRun /\ gates' = gates /\ wasTerminal' = wasTerminal
  BY <1>0 DEF ArbitrateResolves, UpdateConflict
<1>4. /\ k \in Conflicts /\ r.decision \in Decisions
      /\ conflicts[k].status # "absent" /\ conflicts[k].gate = r.gate.id
  BY <1>1 DEF CallerOK, ArbitrateLocals
<1> HIDE DEF r, k
<1>5. conflicts \in [Conflicts -> ConflictRows]
  BY DEF GovInv, GovTables
<1>6. /\ \A j \in Conflicts : j # k => conflicts'[j] = conflicts[j]
      /\ conflicts'[k] = [status |-> "resolved", gate |-> r.gate.id, decision |-> r.decision]
      /\ conflicts' \in [Conflicts -> ConflictRows]
  BY <1>2, <1>3, <1>4, <1>5 DEF ConflictRows
<1>7. \A j \in Conflicts : /\ conflicts'[j].status = conflicts[j].status \/ conflicts'[j].status = "resolved"
                           /\ conflicts[j].status # "absent" => conflicts'[j].gate = conflicts[j].gate
                           /\ conflicts'[j].status # "absent" => conflicts[j].status # "absent"
  <2> SUFFICES ASSUME NEW j \in Conflicts
               PROVE  /\ conflicts'[j].status = conflicts[j].status \/ conflicts'[j].status = "resolved"
                      /\ conflicts[j].status # "absent" => conflicts'[j].gate = conflicts[j].gate
                      /\ conflicts'[j].status # "absent" => conflicts[j].status # "absent"
    OBVIOUS
  <2>1. CASE j = k
    BY <1>4, <1>6, <2>1
  <2>2. CASE j # k
    BY <1>6, <2>2
  <2> QED BY <2>1, <2>2
<1>8. GovTables'
  BY <1>3, <1>6, <1>7 DEF GovInv, GovTables
<1>9. GovGrows
  BY <1>3, <1>7 DEF GovGrows, SameTerms, ListReviewsByGate
<1>10. TerminalNoted'
  BY <1>3 DEF GovInv, TerminalNoted, terminal
<1>11. PassedOnRecord' /\ CompletedGatesDecided'
  BY <1>3 DEF GovInv, DecidedOnRecord, PassedOnRecord, CompletedGatesDecided, ListReviewsByGate
<1>12. ArbitratedAfterConflict'
  <2> SUFFICES ASSUME NEW g \in DOMAIN gates, gates[g].status = "arbitrated"
               PROVE  \E j \in Conflicts : conflicts'[j].status = "resolved" /\ conflicts'[j].gate = g
    BY <1>3 DEF ArbitratedAfterConflict
  <2>1. PICK j \in Conflicts : conflicts[j].status = "resolved" /\ conflicts[j].gate = g
    BY DEF GovInv, DecidedOnRecord, ArbitratedAfterConflict
  <2> QED BY <1>7, <2>1
<1>13. /\ next \in ArbitrateLocals /\ next.gate = r.gate /\ next.conflict = k
  BY <1>0, <1>1 DEF ArbitrateLocals, k
<1>14. next \in GovLocals
  BY <1>13 DEF GovLocals, GateLocals
<1>15. CallerOK(next)'
  <2>1. conflicts'[next.conflict].status = "resolved" /\ conflicts'[next.conflict].gate = next.gate.id
    BY <1>6, <1>13
  <2>2. SameTerms(gates'[next.gate.id], next.gate) /\ next.gate.id \in DOMAIN gates'
    BY <1>2, <1>3, <1>13
  <2> QED BY <1>13, <1>14, <2>1, <2>2, KindsApart DEF CallerOK
<1>16. DecidedOnRecord'
  BY <1>11, <1>12 DEF DecidedOnRecord
<1> QED BY <1>3, <1>8, <1>9, <1>10, <1>14, <1>15, <1>16, CallWrote

LEMMA ArbitrateWritesInv ==
  ASSUME GovInv, NEW c \in GovCallers, ArbitrateWrites(c)
  PROVE  GovInv'
<1> DEFINE r == govCaller[c]
           gate == [r.gate EXCEPT !.status = "arbitrated", !.decision = r.decision]
<1>0. PICK next : next = [r EXCEPT !.pc = "refresh"]
  OBVIOUS
<1>1. r \in ArbitrateLocals /\ r \in GateLocals /\ CallerOK(r) /\ r.pc = "arbitrate_gate"
  BY GovKinds DEF ArbitrateWrites, GovAt, GovInv, GateLocals
<1>2. /\ r.gate \in GateRuns /\ r.gate.id \in DOMAIN gates /\ SameTerms(gates[r.gate.id], r.gate)
  BY <1>1, CallerGate
<1>3. /\ UpdateGate(gate) /\ GovGoes(c, next)
      /\ UNCHANGED <<govTemplate, govRun, reviews, conflicts>>
  BY <1>0 DEF ArbitrateWrites
<1>4. /\ r.conflict \in Conflicts /\ r.decision \in Decisions
      /\ conflicts[r.conflict].status = "resolved" /\ conflicts[r.conflict].gate = r.gate.id
  BY <1>1 DEF CallerOK, ArbitrateLocals
<1> HIDE DEF r
<1>5. /\ gate \in GateRuns /\ gate.id = r.gate.id /\ SameTerms(r.gate, gate) /\ gate.status = "arbitrated"
  BY <1>2, <1>4 DEF GateRuns, GateStatuses, SameTerms
<1> HIDE DEF gate
<1>6. SameTerms(gates[gate.id], gate)
  BY <1>2, <1>5 DEF SameTerms
<1>7. GovTables' /\ GovGrows /\ TerminalNoted' /\ DecidedOnRecord'
  BY <1>2, <1>3, <1>4, <1>5, <1>6, GateWritten
<1>8. /\ next \in ArbitrateLocals /\ next.gate = r.gate /\ next.conflict = r.conflict /\ next.pc = "refresh"
  BY <1>0, <1>1 DEF ArbitrateLocals
<1>9. next \in GovLocals
  BY <1>8 DEF GovLocals, GateLocals
<1>10. CallerOK(next)
  BY <1>2, <1>4, <1>8, <1>9, KindsApart DEF CallerOK
<1>11. CallerOK(next)'
  BY <1>7, <1>9, <1>10, LocalsKept
<1> QED BY <1>3, <1>7, <1>9, <1>11, CallWrote

-----------------------------------------------------------------------------
(* The status of the run                                                   *)

LEMMA ReadRunInv ==
  ASSUME GovInv, NEW c \in GovCallers, ReadRun(c)
  PROVE  GovInv'
<1> DEFINE r == govCaller[c]
           next == [r EXCEPT !.run = govRun, !.pc = WritesAt(r.op)]
<1>1. /\ r \in OpenLocals \cup EscalateLocals \cup ReviewLocals \cup ArbitrateLocals
      /\ r \in GovLocals /\ CallerOK(r) /\ r.pc = "get_run"
  BY GovKinds DEF ReadRun, GovAt, GovInv
<1>2. UNCHANGED govStore /\ GovGoes(c, next)
  BY DEF ReadRun
<1>3. govRun \in RunStatuses
  BY DEF GovInv, GovTables
<1>4. r \in GateLocals
  BY <1>1 DEF GateLocals
<1>5. r.gate.id \in DOMAIN gates /\ SameTerms(gates[r.gate.id], r.gate)
  BY <1>1, <1>4 DEF CallerOK
<1> HIDE DEF r
<1>6. CASE r \in OpenLocals
  <2>1. next \in OpenLocals /\ next.gate = r.gate
    BY <1>3, <1>6 DEF OpenLocals, WritesAt
  <2>2. r.gate.status \in {"pending", "open"}
    BY <1>1, <1>6 DEF CallerOK
  <2> HIDE DEF next
  <2>3. next \in GovLocals
    BY <2>1 DEF GovLocals, GateLocals
  <2>4. CallerOK(next)
    BY <1>5, <2>1, <2>2, <2>3, KindsApart DEF CallerOK
  <2> QED BY <1>2, <2>3, <2>4, CallReads
<1>7. CASE r \in EscalateLocals
  <2>1. next \in EscalateLocals /\ next.gate = r.gate
    BY <1>3, <1>7 DEF EscalateLocals, WritesAt
  <2> HIDE DEF next
  <2>2. next \in GovLocals
    BY <2>1 DEF GovLocals, GateLocals
  <2>3. CallerOK(next)
    BY <1>5, <2>1, <2>2, KindsApart DEF CallerOK
  <2> QED BY <1>2, <2>2, <2>3, CallReads
<1>8. CASE r \in ReviewLocals
  <2>1. next \in ReviewLocals /\ next.gate = r.gate /\ next.review = r.review /\ next.listed = r.listed
    BY <1>3, <1>8 DEF ReviewLocals, WritesAt
  <2>2. /\ r.gate.status = "open" /\ r.review.gate = r.gate.id
        /\ r.listed \subseteq ListReviewsByGate(r.gate.id)
    BY <1>1, <1>8 DEF CallerOK
  <2> HIDE DEF next
  <2>3. next \in GovLocals
    BY <2>1 DEF GovLocals, GateLocals
  <2>4. CallerOK(next)
    BY <1>5, <2>1, <2>2, <2>3, KindsApart DEF CallerOK
  <2> QED BY <1>2, <2>3, <2>4, CallReads
<1>9. CASE r \in ArbitrateLocals
  <2>1. /\ next \in ArbitrateLocals /\ next.gate = r.gate /\ next.conflict = r.conflict
        /\ next.pc = "write_arbitrate"
    BY <1>3, <1>9 DEF ArbitrateLocals, WritesAt
  <2>2. conflicts[r.conflict].status # "absent" /\ conflicts[r.conflict].gate = r.gate.id
    BY <1>1, <1>9 DEF CallerOK
  <2> HIDE DEF next
  <2>3. next \in GovLocals
    BY <2>1 DEF GovLocals, GateLocals
  <2>4. CallerOK(next)
    BY <1>5, <2>1, <2>2, <2>3, KindsApart DEF CallerOK
  <2> QED BY <1>2, <2>3, <2>4, CallReads
<1> QED BY <1>1, <1>6, <1>7, <1>8, <1>9

LEMMA RefreshInv ==
  ASSUME GovInv, NEW c \in GovCallers, refreshRunStatus(c)
  PROVE  GovInv'
<1> DEFINE r == govCaller[c]
           status == refreshedStatus(r.run)
           next == [pc |-> "write_run", status |-> status]
<1>1. r \in GateLocals
  BY GovKinds DEF refreshRunStatus, GovAt, GovInv, GateLocals
<1>2. govRun # "absent"
  BY <1>1, CallerGate
<1>3. UNCHANGED govStore /\ (IF status = r.run THEN GovGoes(c, GovIdle) ELSE GovGoes(c, next))
  BY DEF refreshRunStatus, GovAnswer
<1>4. CASE status = r.run
  BY <1>3, <1>4, IdleCallerOK, CallReads
<1>5. CASE status # r.run
  <2>1. /\ status \in {"blocked", "completed"}
        /\ status = "completed" => \A g \in DOMAIN gates : terminal(gates[g])
    BY <1>5 DEF refreshedStatus, ListGates
  <2>2. status = "completed" => DOMAIN gates \subseteq wasTerminal
    BY <2>1 DEF GovInv, TerminalNoted
  <2> HIDE DEF status, r
  <2>3. next \in WriteLocals /\ next.status = status
    BY <2>1 DEF WriteLocals
  <2> HIDE DEF next
  <2>4. next \in GovLocals
    BY <2>3 DEF GovLocals
  <2>5. CallerOK(next)
    BY <1>2, <2>2, <2>3, <2>4, KindsApart DEF CallerOK, GateLocals
  <2> QED BY <1>3, <1>5, <2>4, <2>5, CallReads
<1> QED BY <1>4, <1>5

LEMMA RefreshWritesInv ==
  ASSUME GovInv, NEW c \in GovCallers, refreshWrites(c)
  PROVE  GovInv'
<1> DEFINE r == govCaller[c]
<1>1. r \in WriteLocals /\ CallerOK(r)
  BY GovKinds DEF refreshWrites, GovAt, GovInv
<1>2. /\ r.status \in {"blocked", "completed"} /\ govRun # "absent"
      /\ r.status = "completed" => DOMAIN gates \subseteq wasTerminal
  BY <1>1 DEF CallerOK, WriteLocals
<1>3. /\ govRun' = r.status /\ GovGoes(c, GovIdle)
      /\ govTemplate' = govTemplate /\ gates' = gates /\ reviews' = reviews
      /\ conflicts' = conflicts /\ wasTerminal' = wasTerminal
  BY DEF refreshWrites, UpdateRun, GovAnswer
<1> HIDE DEF r
<1>4. GovTables'
  BY <1>2, <1>3 DEF GovInv, GovTables, RunStatuses
<1>5. GovGrows
  BY <1>2, <1>3 DEF GovGrows, SameTerms, ListReviewsByGate
<1>6. TerminalNoted'
  BY <1>3 DEF GovInv, TerminalNoted, terminal
<1>7. DecidedOnRecord'
  BY <1>2, <1>3 DEF GovInv, DecidedOnRecord, PassedOnRecord, CompletedGatesDecided,
                    ArbitratedAfterConflict, ListReviewsByGate
<1>8. CallerOK(GovIdle)'
  BY <1>5, IdleCallerOK, LocalsKept
<1> QED BY <1>3, <1>4, <1>5, <1>6, <1>7, <1>8, IdleCallerOK, CallWrote

-----------------------------------------------------------------------------
(* The theorem about GovernanceProcess                                     *)

LEMMA GovInitInv == GovInit => GovInv
<1> SUFFICES ASSUME GovInit PROVE GovInv
  OBVIOUS
<1>1. /\ govTemplate = {} /\ reviews = <<>> /\ wasTerminal = {}
      /\ conflicts = [k \in Conflicts |-> [status |-> "absent"]]
      /\ govCaller = [c \in GovCallers |-> GovIdle]
      /\ \/ govRun = "absent" /\ gates = <<>>
         \/ govRun = "active" /\ gates \in InitialGates
  BY DEF GovInit
<1>2. /\ gates \in [DOMAIN gates -> GateRuns] /\ govRun \in {"absent", "active"}
      /\ \A g \in DOMAIN gates : gates[g].id = g /\ gates[g].status \in {"pending", "open"}
      /\ govRun = "absent" => DOMAIN gates = {}
  <2>1. CASE govRun = "absent" /\ gates = <<>>
    <3>1. DOMAIN gates = {} /\ gates \in Seq(GateRuns)
      BY <2>1
    <3> QED BY <2>1, <3>1
  <2>2. CASE govRun = "active" /\ gates \in InitialGates
    BY <2>2, GovernanceAssumption
  <2> QED BY <1>1, <2>1, <2>2
<1>3. GovTables
  <2>1. reviews \in Seq(ReviewRows)
    BY <1>1
  <2>2. /\ conflicts \in [Conflicts -> ConflictRows]
        /\ \A k \in Conflicts : conflicts[k].status = "absent"
    BY <1>1 DEF ConflictRows
  <2> QED BY <1>1, <1>2, <2>1, <2>2 DEF GovTables, RunStatuses
<1>4. CallersOK
  BY <1>1, IdleCallerOK DEF CallersOK
<1>5. TerminalNoted
  BY <1>2 DEF TerminalNoted, terminal
<1>6. DecidedOnRecord
  BY <1>2 DEF DecidedOnRecord, PassedOnRecord, CompletedGatesDecided, ArbitratedAfterConflict
<1> QED BY <1>3, <1>4, <1>5, <1>6 DEF GovInv

LEMMA GovNextInv == GovInv /\ [GovNext]_govVars => GovInv'
<1> SUFFICES ASSUME GovInv, [GovNext]_govVars PROVE GovInv'
  OBVIOUS
<1>1. CASE UNCHANGED govVars
  <2>1. UNCHANGED govStore /\ govCaller' = govCaller
    BY <1>1 DEF govVars
  <2>2. GovTables' /\ GovGrows /\ TerminalNoted' /\ DecidedOnRecord'
    BY <2>1, TablesSame
  <2>3. CallersOK'
    BY <2>1 DEF GovInv, CallersOK, CallerOK, govStore, SameTerms, ListReviewsByGate
  <2> QED BY <2>2, <2>3 DEF GovInv
<1>2. ASSUME NEW c \in GovCallers,
             \/ handleGovernanceTemplates(c) \/ handleGovernanceRuns(c) \/ StartRunCreates(c)
             \/ handleGovernanceRunResource(c) \/ OpenGateWrites(c)
             \/ handleGovernanceGateResource(c)
      PROVE  GovInv'
  BY <1>2, UpsertTemplateInv, StartRunInv, StartRunCreatesInv, OpenGateInv, OpenGateWritesInv,
     SubmitReviewInv, EscalateInv
     DEF handleGovernanceTemplates, handleGovernanceRuns, handleGovernanceRunResource,
         handleGovernanceGateResource
<1>3. ASSUME NEW c \in GovCallers,
             \/ SubmitReviewLists(c) \/ SubmitReviewSaves(c) \/ applyConsensus(c)
             \/ EscalateSaves(c) \/ EscalateWrites(c)
             \/ handleGovernanceConflictResource(c)
      PROVE  GovInv'
  BY <1>3, SubmitReviewListsInv, SubmitReviewSavesInv, ConsensusInv, EscalateSavesInv,
     EscalateWritesInv, ArbitrateInv
     DEF handleGovernanceConflictResource
<1>4. ASSUME NEW c \in GovCallers,
             \/ ArbitrateReadsGate(c) \/ ArbitrateResolves(c) \/ ArbitrateWrites(c)
             \/ ReadRun(c) \/ refreshRunStatus(c) \/ refreshWrites(c)
      PROVE  GovInv'
  BY <1>4, ArbitrateReadsGateInv, ArbitrateResolvesInv, ArbitrateWritesInv, ReadRunInv, RefreshInv,
     RefreshWritesInv
<1> QED BY <1>1, <1>2, <1>3, <1>4 DEF GovNext

(***************************************************************************)
(* For any callers, gates, reviews and conflicts: a reviewed gate passes   *)
(* on reviews on record, an arbitrated one after its conflict is resolved, *)
(* and a run is completed when each of its gates has been decided, however *)
(* requests interleave between their calls (process/service.go             *)
(* SubmitReview, Arbitrate, refreshRunStatus).                             *)
(***************************************************************************)
THEOREM DecidedOnRecordHolds == GovSpec => []DecidedOnRecord
<1>1. GovInv => DecidedOnRecord
  BY DEF GovInv
<1> QED BY <1>1, GovInitInv, GovNextInv, PTL DEF GovSpec

-----------------------------------------------------------------------------
(* The invariant of Sharing                                                *)

\* Requests that carry a document they have remembered.
Ingesting(r) == r.pc \in {"save_document", "save_job"} \/ (r.pc = "save_base" /\ r.op = "ingest")

\* What requests carry.
AskingPCs == {"check", "check_memory", "decided", "read_base", "upsert", "save_draft_request"}
SharerShape(r) ==
  /\ r.pc \in AskingPCs =>
       /\ r = [pc |-> r.pc, op |-> r.op, server |-> r.server, ask |-> r.ask, arg |-> r.arg, decision |-> r.decision]
       /\ r.server \in SharingServers
  /\ r.pc = "remember" => r.server \in SharingServers
  /\ Ingesting(r) => r = [pc |-> r.pc, op |-> r.op, id |-> r.id, base |-> r.base, document |-> r.document,
                          name |-> r.name, remembered |-> r.remembered]
  /\ r.pc = "save_document" => r.op = "ingest"
  /\ r.pc = "documents" => r.op = "search"

SharingShapes ==
  /\ sharer = [c \in Sharers |-> sharer[c]]
  /\ grants = [c \in Sharers |-> [explicit |-> grants[c].explicit, some |-> grants[c].some, all |-> grants[c].all]]
  /\ permissionMemory = [s \in SharingServers |-> permissionMemory[s]]
  /\ baseMemory = [s \in SharingServers |-> baseMemory[s]]
  /\ documentMemory = [s \in SharingServers |-> documentMemory[s]]
  /\ DOMAIN permissionRows \subseteq PermissionKeys
  /\ \A s \in SharingServers : DOMAIN permissionMemory[s] \subseteq PermissionKeys
  /\ \A c \in Sharers : SharerShape(sharer[c])

\* The document of a request: a name of its own, saved before its base, the base before the job.
DocumentFits(r) ==
  /\ Ingesting(r) => \E s \in SharingServers : r.name \in DOMAIN documentMemory[s]
  /\ r.pc = "save_document" => r.name \notin DOMAIN documentRows /\ r.document.base = r.id
  /\ Ingesting(r) /\ r.pc # "save_document" => r.name \in DOMAIN documentRows /\ documentRows[r.name].base = r.id
  /\ r.pc = "save_job" => r.id \in DOMAIN baseRows
OwnNames == \A c, k \in Sharers :
  Ingesting(sharer[c]) /\ Ingesting(sharer[k]) /\ sharer[c].name = sharer[k].name => c = k
IngestFits == OwnNames /\ IngestedIsFound /\ \A c \in Sharers : DocumentFits(sharer[c])

\* Who owns a base, by the rows, a memory, a request that has read it or a snapshot.
HoldsBase(r, b) == (r.pc = "remember" /\ r.arg.base = b) \/ (r.pc \in {"save_document", "save_base"} /\ r.id = b)
ListsBase(r, b) == r.pc = "documents" /\ b \in DOMAIN r.bases
RowOwner(b, g)     == b \in DOMAIN baseRows /\ baseRows[b].owner = g
MemoryOwner(b, g)  == \E s \in SharingServers : b \in DOMAIN baseMemory[s] /\ baseMemory[s][b].owner = g
RequestOwner(r, b, g) == (HoldsBase(r, b) /\ r.base.owner = g) \/ (ListsBase(r, b) /\ r.bases[b].owner = g)
OwnedBy(b, g) == RowOwner(b, g) \/ MemoryOwner(b, g) \/ \E c \in Sharers : RequestOwner(sharer[c], b, g)

\* A base that a request carries has been remembered or saved; a listed one is on record.
KnownBase(b) == b \in DOMAIN baseRows \/ \E s \in SharingServers : b \in DOMAIN baseMemory[s]
BaseFits(r) == \A b : (HoldsBase(r, b) => KnownBase(b)) /\ (ListsBase(r, b) => b \in DOMAIN baseRows)
OneOwner == \A b, g, h : OwnedBy(b, g) /\ OwnedBy(b, h) => g = h
BasesFit == OneOwner /\ \A c \in Sharers : BaseFits(sharer[c])

\* A search in another group, before it looks at the share policies: the history has what is in force.
Crossing(r) == r.pc \in {"check", "check_memory", "decided"} /\ r.op = "cross"
CrossFits(r, g) ==
  Crossing(r) =>
    /\ r.arg.source # "" /\ r.ask.action = "cross_group.search"
    /\ Explicit(r.ask, permissionRows, permissionMemory[r.server]) => g.explicit
    /\ r.pc = "decided" => g.explicit
    /\ Enabled(shareRows, r.arg.source, r.arg.requester) \subseteq g.some
    /\ g.all \subseteq Enabled(shareRows, r.arg.source, r.arg.requester)

\* And after: it keeps the policies it found, which is all it has to go by.
Searching(r) == /\ r.pc \in {"check", "check_memory", "decided", "documents"} /\ r.op = "search"
                /\ "shares" \in DOMAIN r.arg
SearchFits(r, g) ==
  Searching(r) =>
    /\ r.arg.source # "" /\ g.explicit
    /\ r.arg.shares # {} /\ r.arg.shares \subseteq g.some /\ g.all \subseteq r.arg.shares
    /\ r.arg.bases = allowedKnowledgeBaseIDs(r.arg.shares)

\* The answer, and what it was granted.
DocumentGranted(r, g, d) ==
  LET document == documentRows[d]
  IN /\ d \in DOMAIN documentRows /\ document.base \in DOMAIN baseRows
     /\ document.group = r.source
     /\ \E share \in g.some : share.bases = {} \/ document.base \in share.bases
     /\ \/ document.visibility \in {"shared", "tenant"}
        \/ r.requester \in {document.group, baseRows[document.base].owner}
AnswerFits(r, g) ==
  r.pc = "answered" /\ r.shared =>
    /\ g.explicit
    /\ \A d \in r.docs : DocumentGranted(r, g, d)
    /\ \A share \in g.all : priority(r.redaction) >= priority(share.redaction)

GrantsFit == \A c \in Sharers : /\ CrossFits(sharer[c], grants[c]) /\ SearchFits(sharer[c], grants[c])
                                /\ AnswerFits(sharer[c], grants[c])

SharingInv == SharingShapes /\ IngestFits /\ BasesFit /\ GrantsFit

LEMMA SharerMoves ==
  ASSUME SharingShapes, NEW c \in Sharers, NEW r, SharerStep(c, r)
  PROVE  /\ sharer' = [k \in Sharers |-> sharer'[k]] /\ sharer'[c] = r
         /\ \A k \in Sharers : k # c => sharer'[k] = sharer[k]
BY DEF SharingShapes, SharerStep

LEMMA PutIs ==
  ASSUME NEW rows, NEW id, NEW row
  PROVE  /\ DOMAIN Put(rows, id, row) = DOMAIN rows \cup {id} /\ Put(rows, id, row)[id] = row
         /\ \A i \in DOMAIN rows : i # id => Put(rows, id, row)[i] = rows[i]
BY DEF Put

\* A request that goes on.
LEMMA AskingGoes ==
  ASSUME NEW r, NEW p, NEW d,
         r = [pc |-> r.pc, op |-> r.op, server |-> r.server, ask |-> r.ask, arg |-> r.arg, decision |-> r.decision]
  PROVE  /\ [r EXCEPT !.pc = p] =
              [pc |-> p, op |-> r.op, server |-> r.server, ask |-> r.ask, arg |-> r.arg, decision |-> r.decision]
         /\ [r EXCEPT !.pc = p, !.decision = d] =
              [pc |-> p, op |-> r.op, server |-> r.server, ask |-> r.ask, arg |-> r.arg, decision |-> d]
<1>1. [r EXCEPT !.pc = p] =
        [pc |-> p, op |-> r.op, server |-> r.server, ask |-> r.ask, arg |-> r.arg, decision |-> r.decision]
  OBVIOUS
<1>2. [r EXCEPT !.pc = p, !.decision = d] =
        [pc |-> p, op |-> r.op, server |-> r.server, ask |-> r.ask, arg |-> r.arg, decision |-> d]
  <2> DEFINE q == [r EXCEPT !.pc = p]
  <2>1. [r EXCEPT !.pc = p, !.decision = d] = [q EXCEPT !.decision = d]
    BY Zenon
  <2>2. q = [pc |-> p, op |-> r.op, server |-> r.server, ask |-> r.ask, arg |-> r.arg, decision |-> r.decision]
    BY <1>1
  <2> HIDE DEF q
  <2>3. [q EXCEPT !.decision = d] =
          [pc |-> p, op |-> r.op, server |-> r.server, ask |-> r.ask, arg |-> r.arg, decision |-> d]
    BY <2>2
  <2> QED BY <2>1, <2>3
<1> QED BY <1>1, <1>2

LEMMA IngestingGoes ==
  ASSUME NEW r, NEW p,
         r = [pc |-> r.pc, op |-> r.op, id |-> r.id, base |-> r.base, document |-> r.document,
              name |-> r.name, remembered |-> r.remembered]
  PROVE  [r EXCEPT !.pc = p] =
           [pc |-> p, op |-> r.op, id |-> r.id, base |-> r.base, document |-> r.document,
            name |-> r.name, remembered |-> r.remembered]
OBVIOUS

\* Nothing that concerns documents has moved, and the request carries none.
LEMMA IngestMoves ==
  ASSUME SharingShapes, IngestFits, NEW c \in Sharers, NEW r, SharerStep(c, r), ~Ingesting(r),
         UNCHANGED <<baseRows, documentRows, documentMemory, ingested>>
  PROVE  IngestFits'
<1>1. sharer'[c] = r /\ \A k \in Sharers : k # c => sharer'[k] = sharer[k]
  BY SharerMoves
<1>2. ~Ingesting(sharer'[c]) /\ \A k \in Sharers : Ingesting(sharer'[k]) => k # c /\ sharer'[k] = sharer[k]
  BY <1>1
<1>3. OwnNames'
  BY <1>2 DEF OwnNames, IngestFits
<1>4. IngestedIsFound'
  BY DEF IngestFits, IngestedIsFound
<1>5. ASSUME NEW k \in Sharers PROVE DocumentFits(sharer[k])'
  <2>1. CASE Ingesting(sharer'[k])
    <3>1. sharer'[k] = sharer[k] /\ DocumentFits(sharer[k])
      BY <2>1, <1>2 DEF IngestFits
    <3> QED BY <3>1 DEF DocumentFits, Ingesting
  <2>2. CASE ~Ingesting(sharer'[k])
    BY <2>2 DEF DocumentFits, Ingesting
  <2> QED BY <2>1, <2>2
<1> QED BY <1>3, <1>4, <1>5 DEF IngestFits

LEMMA OwnersKept ==
  ASSUME OneOwner, \A b, g : OwnedBy(b, g)' => OwnedBy(b, g)
  PROVE  OneOwner'
BY Zenon DEF OneOwner

\* Nor has anything that concerns bases: what the request carries of them was there.
LEMMA BasesMove ==
  ASSUME SharingShapes, BasesFit, NEW c \in Sharers, NEW r, SharerStep(c, r), BaseFits(r),
         \A b, g : RequestOwner(r, b, g) => OwnedBy(b, g), UNCHANGED <<baseRows, baseMemory>>
  PROVE  BasesFit'
<1>1. sharer'[c] = r /\ \A k \in Sharers : k # c => sharer'[k] = sharer[k]
  BY SharerMoves
<1>2. ASSUME NEW b, NEW g, OwnedBy(b, g)' PROVE OwnedBy(b, g)
  <2>1. CASE RowOwner(b, g)' \/ MemoryOwner(b, g)'
    BY <2>1 DEF OwnedBy, RowOwner, MemoryOwner
  <2>2. CASE \E k \in Sharers : RequestOwner(sharer'[k], b, g)
    <3>1. PICK k \in Sharers : RequestOwner(sharer'[k], b, g)
      BY <2>2
    <3>2. CASE k = c
      BY <3>1, <3>2, <1>1
    <3>3. CASE k # c
      BY <3>1, <3>3, <1>1 DEF OwnedBy
    <3> QED BY <3>2, <3>3
  <2> QED BY <1>2, <2>1, <2>2 DEF OwnedBy, RequestOwner, HoldsBase, ListsBase
<1>3. OneOwner'
  BY <1>2, OwnersKept DEF BasesFit
<1>4. ASSUME NEW k \in Sharers PROVE BaseFits(sharer[k])'
  <2>1. BaseFits(sharer'[k])
    BY <1>1 DEF BasesFit
  <2> QED BY <2>1 DEF BaseFits, KnownBase, HoldsBase, ListsBase
<1> QED BY <1>3, <1>4 DEF BasesFit

\* What is granted and what is on record are as before, but for the request's own history.
LEMMA GrantsMove ==
  ASSUME SharingShapes, GrantsFit, NEW c \in Sharers, NEW r, SharerStep(c, r),
         UNCHANGED <<permissionRows, permissionMemory, shareRows, baseRows, documentRows>>,
         \A k \in Sharers : k # c => grants'[k] = grants[k],
         CrossFits(r, grants'[c]), SearchFits(r, grants'[c]), AnswerFits(r, grants'[c])
  PROVE  GrantsFit'
<1>1. sharer'[c] = r /\ \A k \in Sharers : k # c => sharer'[k] = sharer[k]
  BY SharerMoves
<1>2. \A k \in Sharers : /\ CrossFits(sharer'[k], grants'[k]) /\ SearchFits(sharer'[k], grants'[k])
                         /\ AnswerFits(sharer'[k], grants'[k])
  BY <1>1 DEF GrantsFit
<1>3. ASSUME NEW k \in Sharers
      PROVE  CrossFits(sharer[k], grants[k])' /\ SearchFits(sharer[k], grants[k])' /\ AnswerFits(sharer[k], grants[k])'
  <2>1. CrossFits(sharer[k], grants[k])'
    BY <1>2 DEF CrossFits, Crossing
  <2>2. SearchFits(sharer[k], grants[k])'
    BY <1>2 DEF SearchFits, Searching
  <2>3. AnswerFits(sharer[k], grants[k])'
    BY <1>2 DEF AnswerFits, DocumentGranted
  <2> QED BY <2>1, <2>2, <2>3
<1> QED BY <1>3 DEF GrantsFit

\* A request moves: nobody else's state has changed.
LEMMA RequestStep ==
  ASSUME SharingInv, NEW c \in Sharers, NEW r, SharerStep(c, r), SharerShape(r),
         ~Ingesting(r), BaseFits(r), \A b, g : RequestOwner(r, b, g) => OwnedBy(b, g),
         UNCHANGED <<permissionRows, permissionMemory, baseRows, baseMemory, documentRows, documentMemory,
                     ingested, shareRows>>,
         \A k \in Sharers : k # c => grants'[k] = grants[k],
         grants' = [k \in Sharers |-> [explicit |-> grants'[k].explicit, some |-> grants'[k].some,
                                       all |-> grants'[k].all]],
         CrossFits(r, grants'[c]), SearchFits(r, grants'[c]), AnswerFits(r, grants'[c])
  PROVE  SharingInv'
<1>1. IngestFits'
  BY IngestMoves DEF SharingInv
<1>2. BasesFit'
  BY BasesMove DEF SharingInv
<1>3. GrantsFit'
  BY GrantsMove DEF SharingInv
<1>4. SharingShapes'
  <2>1. /\ sharer' = [k \in Sharers |-> sharer'[k]]
        /\ \A k \in Sharers : sharer'[k] = r \/ sharer'[k] = sharer[k]
    BY SharerMoves DEF SharingInv
  <2>2. \A k \in Sharers : SharerShape(sharer'[k])
    BY <2>1 DEF SharingInv, SharingShapes
  <2> QED BY <2>1, <2>2 DEF SharingInv, SharingShapes, SharerShape, Ingesting
<1> QED BY <1>1, <1>2, <1>3, <1>4 DEF SharingInv

\* A request that asks: it holds no base, no list and no document.
LEMMA AskingStep ==
  ASSUME SharingInv, NEW c \in Sharers, NEW r, SharerStep(c, r), SharerShape(r), r.pc \in AskingPCs,
         UNCHANGED <<permissionRows, permissionMemory, baseRows, baseMemory, documentRows, documentMemory,
                     ingested, shareRows>>,
         \A k \in Sharers : k # c => grants'[k] = grants[k],
         grants' = [k \in Sharers |-> [explicit |-> grants'[k].explicit, some |-> grants'[k].some,
                                       all |-> grants'[k].all]],
         CrossFits(r, grants'[c]), SearchFits(r, grants'[c])
  PROVE  SharingInv'
<1>1. ~Ingesting(r) /\ BaseFits(r) /\ \A b, g : ~RequestOwner(r, b, g)
  BY DEF AskingPCs, Ingesting, HoldsBase, ListsBase, BaseFits, RequestOwner
<1>2. AnswerFits(r, grants'[c])
  BY DEF AskingPCs, AnswerFits
<1> QED BY <1>1, <1>2, RequestStep

\* A request that ends.
LEMMA AnswerStep ==
  ASSUME SharingInv, NEW c \in Sharers, SharerStep(c, SharerIdle),
         UNCHANGED <<permissionRows, permissionMemory, baseRows, baseMemory, documentRows, documentMemory,
                     ingested, shareRows, grants>>
  PROVE  SharingInv'
<1> DEFINE r == SharerIdle
<1>1. r.pc = "idle"
  BY DEF SharerIdle
<1> HIDE DEF r
<1>2. /\ ~Ingesting(r) /\ SharerShape(r) /\ BaseFits(r) /\ \A b, g : ~RequestOwner(r, b, g)
      /\ CrossFits(r, grants'[c]) /\ SearchFits(r, grants'[c]) /\ AnswerFits(r, grants'[c])
  BY <1>1 DEF AskingPCs, Ingesting, HoldsBase, ListsBase, CrossFits, SearchFits, AnswerFits, SharerShape,
              Crossing, Searching, BaseFits, RequestOwner
<1>3. SharerStep(c, r)
  BY DEF r
<1>4. grants' = [k \in Sharers |-> [explicit |-> grants'[k].explicit, some |-> grants'[k].some,
                                    all |-> grants'[k].all]]
  BY DEF SharingInv, SharingShapes
<1> QED BY <1>2, <1>3, <1>4, RequestStep

LEMMA RequestIs ==
  ASSUME NEW s \in SharingServers, NEW op, NEW p, NEW ask, NEW arg
  PROVE  LET r == Request(s, op, p, ask, arg)
         IN /\ r.pc = p /\ r.op = op /\ r.server = s /\ r.ask = ask /\ r.arg = arg
            /\ p \in {"check", "read_base"} => r.pc \in AskingPCs /\ SharerShape(r)
BY DEF Request, AskingPCs, SharerShape, Ingesting

\* A request is received that is no search.
LEMMA PlainBegins ==
  ASSUME SharingInv, NEW c \in Sharers, NEW s \in SharingServers, NEW op, NEW p \in {"check", "read_base"},
         NEW ask, NEW arg, op \notin {"cross", "search"},
         SharerBegin(c, Request(s, op, p, ask, arg)), UNCHANGED grants
  PROVE  SharingInv'
<1> DEFINE r == Request(s, op, p, ask, arg)
<1>1. r.op = op /\ r.pc \in AskingPCs /\ SharerShape(r)
  BY RequestIs
<1>2. /\ SharerStep(c, r)
      /\ UNCHANGED <<permissionRows, permissionMemory, baseRows, baseMemory, documentRows, documentMemory,
                     ingested, shareRows>>
  BY DEF SharerBegin, permissionVars, knowledgeVars, shareVars
<1> HIDE DEF r
<1>3. CrossFits(r, grants'[c]) /\ SearchFits(r, grants'[c])
  BY <1>1 DEF CrossFits, SearchFits, Crossing, Searching
<1>4. grants' = [k \in Sharers |-> [explicit |-> grants'[k].explicit, some |-> grants'[k].some,
                                    all |-> grants'[k].all]]
  BY DEF SharingInv, SharingShapes
<1> QED BY <1>1, <1>2, <1>3, <1>4, AskingStep

LEMMA GrantsOf ==
  ASSUME SharingInv, NEW c \in Sharers, NEW e, NEW some, NEW all,
         grants' = [grants EXCEPT ![c] = [explicit |-> e, some |-> some, all |-> all]]
  PROVE  /\ grants' = [k \in Sharers |-> [explicit |-> grants'[k].explicit, some |-> grants'[k].some,
                                          all |-> grants'[k].all]]
         /\ \A k \in Sharers : k # c => grants'[k] = grants[k]
         /\ grants'[c] = [explicit |-> e, some |-> some, all |-> all]
BY DEF SharingInv, SharingShapes

\* A search within the group carries no share policies.
LEMMA SearchBegins ==
  ASSUME SharingInv, NEW c \in Sharers, NEW s \in SharingServers, NEW roles, NEW query \in SharingInputs.queries,
         SearchRequest(c, s, roles, query)
  PROVE  SharingInv'
<1> DEFINE r == Request(s, "search", "check", SearchAsk(query, roles), query)
<1>1. r.op = "search" /\ r.arg = query /\ r.pc \in AskingPCs /\ SharerShape(r)
  BY RequestIs
<1>2. /\ SharerStep(c, r)
      /\ UNCHANGED <<permissionRows, permissionMemory, baseRows, baseMemory, documentRows, documentMemory,
                     ingested, shareRows>>
  BY DEF SharerBegin, SearchRequest, permissionVars, knowledgeVars, shareVars
<1> HIDE DEF r
<1>3. CrossFits(r, grants'[c]) /\ SearchFits(r, grants'[c])
  BY <1>1, SharingAssumption DEF CrossFits, SearchFits, Crossing, Searching
<1>4. /\ grants' = [k \in Sharers |-> [explicit |-> grants'[k].explicit, some |-> grants'[k].some,
                                       all |-> grants'[k].all]]
      /\ \A k \in Sharers : k # c => grants'[k] = grants[k]
  BY GrantsOf DEF SearchRequest, NotGranted
<1> QED BY <1>1, <1>2, <1>3, <1>4, AskingStep

\* A search in another group starts its history with what is in force.
LEMMA CrossBegins ==
  ASSUME SharingInv, NEW c \in Sharers, NEW s \in SharingServers, NEW roles, NEW pair \in SharingInputs.pairs,
         CrossRequest(c, s, roles, pair)
  PROVE  SharingInv'
<1> DEFINE r == Request(s, "cross", "check", CrossAsk(pair, roles), pair)
<1>1. /\ r.op = "cross" /\ r.arg = pair /\ r.ask = CrossAsk(pair, roles) /\ r.server = s /\ r.pc = "check"
      /\ r.pc \in AskingPCs /\ SharerShape(r)
  BY RequestIs
<1>2. /\ SharerStep(c, r)
      /\ UNCHANGED <<permissionRows, permissionMemory, baseRows, baseMemory, documentRows, documentMemory,
                     ingested, shareRows>>
  BY DEF SharerBegin, CrossRequest, permissionVars, knowledgeVars, shareVars
<1> HIDE DEF r
<1>3. r.ask.action = "cross_group.search"
  BY <1>1 DEF CrossAsk, Ask
<1> DEFINE e == Explicit(CrossAsk(pair, roles), permissionRows, permissionMemory[s])
           now == Enabled(shareRows, pair.source, pair.requester)
<1>4. grants' = [grants EXCEPT ![c] = [explicit |-> e, some |-> now, all |-> now]]
  BY DEF CrossRequest
<1> HIDE DEF e, now
<1>5. /\ grants' = [k \in Sharers |-> [explicit |-> grants'[k].explicit, some |-> grants'[k].some,
                                       all |-> grants'[k].all]]
      /\ \A k \in Sharers : k # c => grants'[k] = grants[k]
      /\ grants'[c] = [explicit |-> e, some |-> now, all |-> now]
  BY <1>4, GrantsOf
<1>6. grants'[c].explicit = e /\ grants'[c].some = now /\ grants'[c].all = now
  BY <1>5
<1>7. CrossFits(r, grants'[c]) /\ SearchFits(r, grants'[c])
  BY <1>1, <1>3, <1>6, SharingAssumption DEF CrossFits, SearchFits, Crossing, Searching, e, now
<1> QED BY <1>1, <1>2, <1>5, <1>7, AskingStep

LEMMA ReceivedKeeps ==
  ASSUME SharingInv, NEW c \in Sharers, NEW s \in SharingServers, Received(c, s)
  PROVE  SharingInv'
<1>1. ASSUME NEW roles, NEW input, CreateRequest(c, s, roles, input) PROVE SharingInv'
  <2> DEFINE ask == Ask(input.owner, Member, roles, "knowledge.create", {"knowledge_base"})
  <2>1. SharerBegin(c, Request(s, "create", "check", ask, input)) /\ UNCHANGED grants
    BY <1>1 DEF CreateRequest
  <2> HIDE DEF ask
  <2>2. "create" \notin {"cross", "search"} /\ "check" \in {"check", "read_base"}
    OBVIOUS
  <2> QED BY <2>1, <2>2, PlainBegins, Zenon
<1>2. ASSUME NEW input, IngestRequest(c, s, input) PROVE SharingInv'
  <2> DEFINE ask == {}
  <2>1. SharerBegin(c, Request(s, "ingest", "read_base", ask, input)) /\ UNCHANGED grants
    BY <1>2 DEF IngestRequest
  <2> HIDE DEF ask
  <2> QED BY <2>1, PlainBegins
<1>3. ASSUME NEW share, NEW roles, NEW op \in {"post", "put"}, UNCHANGED grants,
             SharerBegin(c, requireCrossGroupPolicyPermission(c, s, op, share, roles))
      PROVE  SharingInv'
  BY <1>3, PlainBegins DEF requireCrossGroupPolicyPermission
<1>4. ASSUME SharerBegin(c, SharerIdle), UNCHANGED grants PROVE SharingInv'
  BY <1>4, AnswerStep DEF SharerBegin, permissionVars, knowledgeVars, shareVars
<1>5. ASSUME NEW id \in Shares, DeleteSharePolicy(c, s, id) PROVE SharingInv'
  <2>1. CASE GetSharePolicy(id) = {}
    BY <1>4, <1>5, <2>1 DEF DeleteSharePolicy
  <2>2. CASE GetSharePolicy(id) # {}
    BY <1>3, <1>5, <2>2 DEF DeleteSharePolicy
  <2> QED BY <2>1, <2>2
<1>6. CASE handleCrossGroupSharePolicyResource(c, s)
  BY <1>3, <1>5, <1>6 DEF handleCrossGroupSharePolicyResource, PutSharePolicy
<1>7. CASE \E share \in SharingInputs.shares : handleCrossGroupSharePolicies(c, s, share)
  BY <1>3, <1>7 DEF handleCrossGroupSharePolicies
<1>8. CASE \E input \in SharingInputs.bases : handleKnowledgeBases(c, s, input) \/ knowledgeCreateTool(c, s, input)
  BY <1>1, <1>8 DEF handleKnowledgeBases, knowledgeCreateTool
<1>9. CASE \E input \in SharingInputs.documents :
             handleKnowledgeBaseDocuments(c, s, input) \/ knowledgeIngestTool(c, s, input)
  BY <1>2, <1>9 DEF handleKnowledgeBaseDocuments, knowledgeIngestTool
<1>10. CASE \E query \in SharingInputs.queries : handleKnowledgeSearch(c, s, query) \/ knowledgeSearchTool(c, s, query)
  BY <1>10, SearchBegins DEF handleKnowledgeSearch, knowledgeSearchTool
<1>11. CASE \E pair \in SharingInputs.pairs : handleCrossGroupSearch(c, s, pair) \/ crossGroupSearchTool(c, s, pair)
  BY <1>11, CrossBegins DEF handleCrossGroupSearch, crossGroupSearchTool
<1>12. CASE \E group \in Groups : skillProposeTool(c, s, group) \/ agentCreateDraftTool(c, s, group)
  BY <1>12, PlainBegins DEF skillProposeTool, agentCreateDraftTool
<1> QED BY <1>6, <1>7, <1>8, <1>9, <1>10, <1>11, <1>12 DEF Received

\* A check that allows has found a policy that allows, without approval.
LEMMA AllowedIsExplicit ==
  ASSUME NEW ask, NEW policies, DOMAIN policies \subseteq PermissionKeys, firstMatch(ask, policies) = "allowed"
  PROVE  \E key \in DOMAIN policies : policyMatches(ask, key, policies[key]) /\ ~policies[key].approval
<1> DEFINE matching == {key \in DOMAIN policies : policyMatches(ask, key, policies[key])}
           first == CHOOSE key \in matching : \A other \in matching : key[2] <= other[2]
           places == {key[2] : key \in matching}
<1>1. matching # {}
  BY DEF firstMatch
<1>2. \A key \in matching : key[2] \in Nat
  <2>1. \A S : \A list \in Seq(S) : DOMAIN list \subseteq Nat
    OBVIOUS
  <2>2. DOMAIN PermissionSubjects \subseteq Nat
    BY <2>1, SharingAssumption, Zenon
  <2> QED BY <2>2 DEF PermissionKeys
<1>3. places \in SUBSET Nat /\ places # {}
  BY <1>1, <1>2
<1>4. \E key \in matching : \A other \in matching : key[2] <= other[2]
  <2>1. PICK x \in places : \A y \in places : x <= y
    BY <1>3, LeastElement
  <2> QED BY <2>1
<1>5. first \in matching
  BY <1>4
<1>6. firstMatch(ask, policies) = IF policies[first].approval THEN "approval_required" ELSE "allowed"
  BY <1>1 DEF firstMatch
<1>7. ~policies[first].approval
  BY <1>6
<1> QED BY <1>5, <1>7

LEMMA DecideKeeps ==
  ASSUME SharingInv, NEW c \in Sharers, sharer[c].pc \in {"check", "check_memory"}, NEW decision,
         Decide(c, decision), SharingQuiet,
         sharer[c].op = "cross" /\ decision = "allowed" => grants[c].explicit
  PROVE  SharingInv'
<1>1. /\ UNCHANGED <<permissionRows, permissionMemory, baseRows, baseMemory, documentRows, documentMemory,
                     ingested, shareRows, grants>>
      /\ grants' = [k \in Sharers |-> [explicit |-> grants'[k].explicit, some |-> grants'[k].some,
                                       all |-> grants'[k].all]]
  BY DEF SharingQuiet, permissionVars, knowledgeVars, shareVars, SharingInv, SharingShapes
<1>2. CASE SharerAnswer(c)
  BY <1>1, <1>2, AnswerStep DEF SharerAnswer
<1>3. ASSUME decision = "allowed" \/ (decision = "approval_required" /\ sharer[c].op = "skill"),
             SharerStep(c, [sharer[c] EXCEPT !.pc = "decided", !.decision = decision])
      PROVE  SharingInv'
  <2> DEFINE old == sharer[c]
             r == [old EXCEPT !.pc = "decided", !.decision = decision]
  <2>1. /\ old = [pc |-> old.pc, op |-> old.op, server |-> old.server, ask |-> old.ask, arg |-> old.arg,
                  decision |-> old.decision]
        /\ old.server \in SharingServers /\ CrossFits(old, grants[c]) /\ SearchFits(old, grants[c])
    BY DEF SharingInv, SharingShapes, SharerShape, AskingPCs, GrantsFit
  <2>2. r = [pc |-> "decided", op |-> old.op, server |-> old.server, ask |-> old.ask, arg |-> old.arg,
             decision |-> decision]
    <3> HIDE DEF old
    <3> QED BY <2>1, AskingGoes, Zenon
  <2> HIDE DEF r
  <2>3. r.pc = "decided" /\ r.op = old.op /\ r.server = old.server /\ r.ask = old.ask /\ r.arg = old.arg
    BY <2>2
  <2>4. r.pc \in AskingPCs /\ SharerShape(r)
    BY <2>1, <2>2, <2>3 DEF AskingPCs, SharerShape, Ingesting
  <2>5. CrossFits(r, grants'[c])
    BY <2>1, <2>3, <1>1, <1>3 DEF CrossFits, Crossing
  <2>6. SearchFits(r, grants'[c])
    BY <2>1, <2>3, <1>1 DEF SearchFits, Searching
  <2>7. SharerStep(c, r)
    BY <1>3 DEF r
  <2> QED BY <2>4, <2>5, <2>6, <2>7, <1>1, AskingStep
<1> QED BY <1>2, <1>3 DEF Decide

LEMMA CheckKeeps ==
  ASSUME SharingInv, NEW c \in Sharers, Check(c)
  PROVE  SharingInv'
<1> DEFINE old == sharer[c]
           listed == ListPolicies(old.ask.group)
           policies == Restrict(permissionRows, listed)
<1>1. /\ CrossFits(old, grants[c]) /\ SearchFits(old, grants[c])
      /\ old = [pc |-> old.pc, op |-> old.op, server |-> old.server, ask |-> old.ask, arg |-> old.arg,
                decision |-> old.decision]
      /\ old.server \in SharingServers
      /\ old.pc = "check" /\ SharingQuiet
  BY DEF SharingInv, SharingShapes, SharerShape, AskingPCs, GrantsFit, Check
<1>2. CASE adminAllowed(old.ask)
  <2>1. Decide(c, "allowed")
    BY <1>2 DEF Check
  <2>2. old.op # "cross"
    BY <1>1, <1>2 DEF CrossFits, Crossing, adminAllowed, requiresExplicitPolicy
  <2> QED BY <2>1, <2>2, <1>1, DecideKeeps
<1>3. CASE ~adminAllowed(old.ask) /\ listed = {}
  <2> DEFINE r == [old EXCEPT !.pc = "check_memory"]
  <2>1. r = [pc |-> "check_memory", op |-> old.op, server |-> old.server, ask |-> old.ask, arg |-> old.arg,
             decision |-> old.decision]
    BY <1>1, AskingGoes
  <2>2. SharerStep(c, r)
    BY <1>3 DEF Check, SharerGoes
  <2> HIDE DEF r
  <2>3. /\ r.pc = "check_memory" /\ r.op = old.op /\ r.server = old.server /\ r.ask = old.ask
        /\ r.arg = old.arg
    BY <2>1
  <2>4. r.pc \in AskingPCs /\ SharerShape(r)
    BY <1>1, <2>1, <2>3 DEF AskingPCs, SharerShape, Ingesting
  <2>5. /\ UNCHANGED <<permissionRows, permissionMemory, baseRows, baseMemory, documentRows, documentMemory,
                       ingested, shareRows, grants>>
        /\ grants' = [k \in Sharers |-> [explicit |-> grants'[k].explicit, some |-> grants'[k].some,
                                         all |-> grants'[k].all]]
    BY <1>1 DEF SharingQuiet, permissionVars, knowledgeVars, shareVars, SharingInv, SharingShapes
  <2>6. CrossFits(r, grants'[c]) /\ SearchFits(r, grants'[c])
    BY <1>1, <2>3, <2>5 DEF CrossFits, Crossing, SearchFits, Searching
  <2> QED BY <2>2, <2>4, <2>5, <2>6, AskingStep
<1>4. CASE ~adminAllowed(old.ask) /\ listed # {}
  <2>1. Decide(c, firstMatch(old.ask, policies))
    BY <1>4 DEF Check
  <2>2. ASSUME old.op = "cross", firstMatch(old.ask, policies) = "allowed" PROVE grants[c].explicit
    <3>1. DOMAIN policies = listed /\ \A key \in listed : policies[key] = permissionRows[key]
      BY DEF Restrict
    <3>2. listed \subseteq DOMAIN permissionRows /\ DOMAIN permissionRows \subseteq PermissionKeys
      BY DEF ListPolicies, SharingInv, SharingShapes
    <3>3. PICK key \in listed : policyMatches(old.ask, key, policies[key]) /\ ~policies[key].approval
      BY <2>2, <3>1, <3>2, AllowedIsExplicit
    <3>4. Explicit(old.ask, permissionRows, permissionMemory[old.server])
      BY <3>1, <3>2, <3>3 DEF Explicit
    <3> QED BY <3>4, <1>1, <2>2 DEF CrossFits, Crossing
  <2> QED BY <2>1, <2>2, <1>1, DecideKeeps
<1> QED BY <1>2, <1>3, <1>4

LEMMA CheckMemoryKeeps ==
  ASSUME SharingInv, NEW c \in Sharers, CheckMemory(c)
  PROVE  SharingInv'
<1> DEFINE old == sharer[c]
           policies == permissionMemory[old.server]
<1>1. /\ CrossFits(old, grants[c]) /\ old.server \in SharingServers /\ old.pc = "check_memory" /\ SharingQuiet
      /\ Decide(c, firstMatch(old.ask, policies))
  BY DEF SharingInv, SharingShapes, SharerShape, AskingPCs, GrantsFit, CheckMemory
<1>2. ASSUME old.op = "cross", firstMatch(old.ask, policies) = "allowed" PROVE grants[c].explicit
  <2>1. DOMAIN policies \subseteq PermissionKeys
    BY <1>1 DEF SharingInv, SharingShapes
  <2>2. PICK key \in DOMAIN policies : policyMatches(old.ask, key, policies[key]) /\ ~policies[key].approval
    BY <1>2, <2>1, AllowedIsExplicit
  <2>3. Explicit(old.ask, permissionRows, policies)
    BY <2>2 DEF Explicit
  <2> QED BY <2>3, <1>1, <1>2 DEF CrossFits, Crossing
<1> QED BY <1>1, <1>2, DecideKeeps

\* A request that goes on after the check, to a write of its own.
LEMMA GoesKeeps ==
  ASSUME SharingInv, NEW c \in Sharers, sharer[c].pc = "decided", NEW p \in {"upsert", "save_draft_request"},
         SharerGoes(c, p),
         UNCHANGED <<permissionRows, permissionMemory, baseRows, baseMemory, documentRows, documentMemory,
                     ingested, shareRows, grants>>
  PROVE  SharingInv'
<1> DEFINE old == sharer[c]
           r == [old EXCEPT !.pc = p]
<1>1. /\ old = [pc |-> old.pc, op |-> old.op, server |-> old.server, ask |-> old.ask, arg |-> old.arg,
                decision |-> old.decision]
      /\ old.server \in SharingServers
  BY DEF SharingInv, SharingShapes, SharerShape, AskingPCs
<1>2. SharerStep(c, r)
  BY DEF SharerGoes
<1>3. r = [pc |-> p, op |-> old.op, server |-> old.server, ask |-> old.ask, arg |-> old.arg,
           decision |-> old.decision]
  BY <1>1, AskingGoes
<1> HIDE DEF r
<1>4. r.pc = p /\ r.server = old.server
  BY <1>3
<1>5. r.pc \in AskingPCs /\ SharerShape(r)
  BY <1>1, <1>3, <1>4 DEF AskingPCs, SharerShape, Ingesting
<1>6. CrossFits(r, grants'[c]) /\ SearchFits(r, grants'[c])
  BY <1>4 DEF CrossFits, Crossing, SearchFits, Searching
<1>7. grants' = [k \in Sharers |-> [explicit |-> grants'[k].explicit, some |-> grants'[k].some,
                                    all |-> grants'[k].all]]
  BY DEF SharingInv, SharingShapes
<1> QED BY <1>2, <1>5, <1>6, <1>7, AskingStep

\* The approval gate, proposals and drafts write nothing that the invariant is about.
LEMMA OthersKeep ==
  ASSUME SharingInv, NEW c \in Sharers,
         \/ crossGroupSharePolicyApprovalGate(c) \/ Propose(c) \/ CreateDraft(c) \/ SaveDraftRequest(c)
  PROVE  SharingInv'
<1>1. UNCHANGED <<permissionRows, permissionMemory, baseRows, baseMemory, documentRows, documentMemory,
                  ingested, shareRows, grants>>
  BY DEF crossGroupSharePolicyApprovalGate, Propose, CreateDraft, SaveDraftRequest, permissionVars, knowledgeVars,
         shareVars
<1>2. \/ SharerStep(c, SharerIdle)
      \/ sharer[c].pc = "decided" /\ \E p \in {"upsert", "save_draft_request"} : SharerGoes(c, p)
  BY DEF crossGroupSharePolicyApprovalGate, Propose, CreateDraft, SaveDraftRequest, SharerAnswer
<1> QED BY <1>1, <1>2, AnswerStep, GoesKeeps

LEMMA MatchingIsEnabled ==
  ASSUME NEW source, NEW target
  PROVE  matchingPolicies(source, target) = Enabled(shareRows, source, target)
BY DEF matchingPolicies, ListSharePolicies, Enabled

\* The policies in force are kept with the search, and the history has them.
LEMMA CrossKeeps ==
  ASSUME SharingInv, NEW c \in Sharers, CrossGroupSearch(c)
  PROVE  SharingInv'
<1> DEFINE old == sharer[c]
           pair == old.arg
           policies == matchingPolicies(pair.source, pair.requester)
           query == [requester |-> pair.requester, source |-> pair.source, cross |-> TRUE,
                     bases |-> allowedKnowledgeBaseIDs(policies), shares |-> policies]
           r == Request(old.server, "search", "check", SearchAsk(query, old.ask.roles), query)
<1>1. /\ old.pc = "decided" /\ old.op = "cross" /\ CrossFits(old, grants[c]) /\ old.server \in SharingServers
      /\ UNCHANGED <<permissionRows, permissionMemory, baseRows, baseMemory, documentRows, documentMemory,
                     ingested, shareRows, grants>>
      /\ grants' = [k \in Sharers |-> [explicit |-> grants'[k].explicit, some |-> grants'[k].some,
                                       all |-> grants'[k].all]]
  BY DEF SharingInv, SharingShapes, SharerShape, AskingPCs, GrantsFit, CrossGroupSearch, SharingQuiet,
         permissionVars, knowledgeVars, shareVars
<1>2. CASE policies = {}
  BY <1>1, <1>2, AnswerStep DEF CrossGroupSearch, SharerAnswer
<1>3. CASE policies # {}
  <2>1. SharerStep(c, r)
    BY <1>3 DEF CrossGroupSearch
  <2>2. /\ pair.source # "" /\ grants[c].explicit
        /\ policies \subseteq grants[c].some /\ grants[c].all \subseteq policies
    BY <1>1, MatchingIsEnabled DEF CrossFits, Crossing
  <2>3. r.arg = query /\ r.op = "search" /\ r.pc \in AskingPCs /\ SharerShape(r)
    BY <1>1, RequestIs
  <2> HIDE DEF r, policies
  <2>4. query.source = pair.source /\ query.shares = policies /\ query.bases = allowedKnowledgeBaseIDs(policies)
    OBVIOUS
  <2> HIDE DEF query
  <2>5. CrossFits(r, grants'[c])
    BY <2>3 DEF CrossFits, Crossing
  <2>6. SearchFits(r, grants'[c])
    BY <1>1, <1>3, <2>2, <2>3, <2>4 DEF SearchFits
  <2> QED BY <1>1, <2>1, <2>3, <2>5, <2>6, AskingStep
<1> QED BY <1>2, <1>3

\* The bases are listed from the rows.
LEMMA SnapshotKeeps ==
  ASSUME SharingInv, NEW c \in Sharers, snapshotBases(c)
  PROVE  SharingInv'
<1> DEFINE old == sharer[c]
           r == [pc |-> "documents", op |-> "search", arg |-> old.arg, bases |-> baseRows]
<1>1. /\ old.pc = "decided" /\ old.op = "search" /\ SearchFits(old, grants[c]) /\ SharerStep(c, r)
      /\ UNCHANGED <<permissionRows, permissionMemory, baseRows, baseMemory, documentRows, documentMemory,
                     ingested, shareRows, grants>>
      /\ grants' = [k \in Sharers |-> [explicit |-> grants'[k].explicit, some |-> grants'[k].some,
                                       all |-> grants'[k].all]]
  BY DEF SharingInv, SharingShapes, GrantsFit, snapshotBases, SharingQuiet, ListKnowledgeBases,
         permissionVars, knowledgeVars, shareVars
<1>2. r.pc = "documents" /\ r.op = "search" /\ r.arg = old.arg /\ r.bases = baseRows
  OBVIOUS
<1> HIDE DEF r
<1>3. SharerShape(r) /\ ~Ingesting(r) /\ BaseFits(r) /\ \A b, g : RequestOwner(r, b, g) => OwnedBy(b, g)
  BY <1>2 DEF SharerShape, AskingPCs, Ingesting, BaseFits, HoldsBase, ListsBase, RequestOwner, OwnedBy, RowOwner
<1>4. CrossFits(r, grants'[c]) /\ AnswerFits(r, grants'[c])
  BY <1>2 DEF CrossFits, Crossing, AnswerFits
<1>5. SearchFits(r, grants'[c])
  BY <1>1, <1>2 DEF SearchFits, Searching
<1> QED BY <1>1, <1>3, <1>4, <1>5, RequestStep

\* The base is taken from the memory or from the rows.
LEMMA IngestReadsKeeps ==
  ASSUME SharingInv, NEW c \in Sharers, IngestReadsBase(c)
  PROVE  SharingInv'
<1> DEFINE old == sharer[c]
           s == old.server
           b == old.arg.base
           known == GetKnowledgeBase(s, b)
<1>1. /\ s \in SharingServers
      /\ UNCHANGED <<permissionRows, permissionMemory, baseRows, baseMemory, documentRows, documentMemory,
                     ingested, shareRows, grants>>
      /\ grants' = [k \in Sharers |-> [explicit |-> grants'[k].explicit, some |-> grants'[k].some,
                                       all |-> grants'[k].all]]
  BY DEF SharingInv, SharingShapes, SharerShape, AskingPCs, IngestReadsBase, SharingQuiet,
         permissionVars, knowledgeVars, shareVars
<1>2. CASE known = {}
  BY <1>1, <1>2, AnswerStep DEF IngestReadsBase, SharerAnswer
<1>3. ASSUME NEW base \in known,
             SharerStep(c, [pc |-> "remember", op |-> "ingest", server |-> s, arg |-> old.arg, base |-> base,
                            remembered |-> b \in DOMAIN baseMemory[s]])
      PROVE  SharingInv'
  <2> DEFINE r == [pc |-> "remember", op |-> "ingest", server |-> s, arg |-> old.arg, base |-> base,
                   remembered |-> b \in DOMAIN baseMemory[s]]
  <2>1. r.pc = "remember" /\ r.server = s /\ r.arg.base = b /\ r.base = base /\ r.op = "ingest" /\ SharerStep(c, r)
    BY <1>3
  <2>2. \/ b \in DOMAIN baseRows /\ base = baseRows[b]
        \/ b \in DOMAIN baseMemory[s] /\ base = baseMemory[s][b]
    BY DEF GetKnowledgeBase, ListKnowledgeBases
  <2> HIDE DEF r
  <2>3. SharerShape(r) /\ ~Ingesting(r)
    BY <1>1, <2>1 DEF SharerShape, AskingPCs, Ingesting
  <2>4. BaseFits(r)
    BY <1>1, <2>1, <2>2 DEF BaseFits, HoldsBase, ListsBase, KnownBase
  <2>5. \A x, g : RequestOwner(r, x, g) => OwnedBy(x, g)
    BY <1>1, <2>1, <2>2 DEF HoldsBase, ListsBase, RequestOwner, OwnedBy, RowOwner, MemoryOwner
  <2>6. CrossFits(r, grants'[c]) /\ SearchFits(r, grants'[c]) /\ AnswerFits(r, grants'[c])
    BY <2>1 DEF CrossFits, Crossing, SearchFits, Searching, AnswerFits
  <2> QED BY <1>1, <2>1, <2>3, <2>4, <2>5, <2>6, RequestStep
<1> QED BY <1>2, <1>3 DEF IngestReadsBase

LEMMA StrongestIs ==
  ASSUME NEW policies, policies # {}
  PROVE  \A p \in policies : priority(strongestRedactionPolicy(policies)) >= priority(p.redaction)
<1> DEFINE strongest == CHOOSE policy \in policies : \A p \in policies : priority(p.redaction) <= priority(policy.redaction)
<1>1. \A x : priority(x) \in {1, 2, 3}
  BY DEF priority
<1>2. \E policy \in policies : \A p \in policies : priority(p.redaction) <= priority(policy.redaction)
  <2>1. CASE \E policy \in policies : priority(policy.redaction) = 3
    BY <1>1, <2>1
  <2>2. CASE /\ ~\E policy \in policies : priority(policy.redaction) = 3
             /\ \E policy \in policies : priority(policy.redaction) = 2
    BY <1>1, <2>2
  <2>3. CASE ~\E policy \in policies : priority(policy.redaction) \in {2, 3}
    BY <1>1, <2>3
  <2> QED BY <2>1, <2>2, <2>3
<1>3. \A p \in policies : priority(p.redaction) <= priority(strongest.redaction)
  BY <1>2
<1>4. strongestRedactionPolicy(policies) = strongest.redaction
  BY DEF strongestRedactionPolicy
<1> QED BY <1>1, <1>3, <1>4

\* A base that the policies allow is allowed by one of them.
LEMMA AllowedByOne ==
  ASSUME NEW policies, policies # {}, NEW b,
         allowedKnowledgeBaseIDs(policies) = {} \/ b \in allowedKnowledgeBaseIDs(policies)
  PROVE  \E policy \in policies : policy.bases = {} \/ b \in policy.bases
<1>1. CASE \E policy \in policies : policy.bases = {}
  BY <1>1
<1>2. CASE ~\E policy \in policies : policy.bases = {}
  <2>1. allowedKnowledgeBaseIDs(policies) = UNION {policy.bases : policy \in policies}
    BY <1>2 DEF allowedKnowledgeBaseIDs
  <2>2. PICK policy \in policies : policy.bases # {}
    BY <1>2
  <2>3. policy.bases \subseteq allowedKnowledgeBaseIDs(policies)
    BY <2>1
  <2>4. b \in UNION {p.bases : p \in policies}
    BY <2>1, <2>2, <2>3
  <2> QED BY <2>4
<1> QED BY <1>1, <1>2

\* The answer: documents of the snapshot, under the policies the search has kept.
LEMMA AnswerKeeps ==
  ASSUME SharingInv, NEW c \in Sharers, snapshotDocuments(c)
  PROVE  SharingInv'
<1> DEFINE old == sharer[c]
           g == grants[c]
           found == LocalSearch(documentRows, candidates(old.bases, documentRows, old.arg))
           shared == "shares" \in DOMAIN old.arg
           redaction == redactResults(IF shared THEN old.arg.shares ELSE {})
           r == [pc |-> "answered", source |-> old.arg.source, requester |-> old.arg.requester,
                 shared |-> shared, docs |-> found, redaction |-> redaction]
<1>1. /\ old.pc = "documents" /\ SearchFits(old, g) /\ BaseFits(old) /\ OneOwner /\ SharerStep(c, r)
      /\ UNCHANGED <<permissionRows, permissionMemory, baseRows, baseMemory, documentRows, documentMemory,
                     ingested, shareRows, grants>>
      /\ grants' = [k \in Sharers |-> [explicit |-> grants'[k].explicit, some |-> grants'[k].some,
                                       all |-> grants'[k].all]]
  BY DEF SharingInv, SharingShapes, GrantsFit, BasesFit, snapshotDocuments, SharingQuiet, ListDocuments,
         permissionVars, knowledgeVars, shareVars
<1>2. /\ r.pc = "answered" /\ r.source = old.arg.source /\ r.requester = old.arg.requester
      /\ r.shared = shared /\ r.docs = found /\ r.redaction = redaction
  OBVIOUS
<1> HIDE DEF r
<1>3. SharerShape(r) /\ ~Ingesting(r) /\ BaseFits(r) /\ \A b, x : ~RequestOwner(r, b, x)
  BY <1>2 DEF SharerShape, AskingPCs, Ingesting, BaseFits, HoldsBase, ListsBase, RequestOwner
<1>4. CrossFits(r, g) /\ SearchFits(r, g)
  BY <1>2 DEF CrossFits, Crossing, SearchFits, Searching
<1>5. AnswerFits(r, g)
  <2> SUFFICES ASSUME shared PROVE AnswerFits(r, g)
    BY <1>2 DEF AnswerFits
  <2>0. old.op = "search"
    BY <1>1 DEF SharingInv, SharingShapes, SharerShape
  <2>1. /\ old.arg.source # "" /\ g.explicit
        /\ old.arg.shares # {} /\ old.arg.shares \subseteq g.some /\ g.all \subseteq old.arg.shares
        /\ old.arg.bases = allowedKnowledgeBaseIDs(old.arg.shares)
    BY <1>1, <2>0 DEF SearchFits, Searching
  <2>2. ASSUME NEW d \in found PROVE DocumentGranted(r, g, d)
    <3> DEFINE document == documentRows[d]
               b == document.base
    <3>1. /\ d \in DOMAIN documentRows
          /\ old.arg.bases = {} \/ b \in old.arg.bases
          /\ b \in DOMAIN old.bases
          /\ visibleToGroup(old.bases[b], document, old.arg.requester, old.arg.source, old.arg.cross)
      BY DEF LocalSearch, candidates
    <3>2. b \in DOMAIN baseRows /\ old.bases[b].owner = baseRows[b].owner
      <4>1. ListsBase(old, b)
        BY <1>1, <3>1 DEF ListsBase
      <4>2. b \in DOMAIN baseRows
        BY <1>1, <4>1 DEF BaseFits
      <4>3. OwnedBy(b, old.bases[b].owner) /\ OwnedBy(b, baseRows[b].owner)
        BY <4>1, <4>2 DEF OwnedBy, RowOwner, RequestOwner
      <4> QED BY <1>1, <4>2, <4>3 DEF OneOwner
    <3>3. document.group = r.source
      BY <3>1, <2>1, <1>2 DEF visibleToGroup
    <3>4. \E share \in g.some : share.bases = {} \/ b \in share.bases
      BY <3>1, <2>1, AllowedByOne
    <3>5. \/ document.visibility \in {"shared", "tenant"}
          \/ r.requester \in {document.group, baseRows[b].owner}
      BY <3>1, <3>2, <1>2 DEF visibleToGroup
    <3> QED BY <3>1, <3>2, <3>3, <3>4, <3>5 DEF DocumentGranted
  <2>3. redaction = strongestRedactionPolicy(old.arg.shares)
    BY <2>1 DEF redactResults
  <2>4. \A share \in g.all : priority(r.redaction) >= priority(share.redaction)
    BY <1>2, <2>1, <2>3, StrongestIs
  <2> QED BY <1>2, <2>1, <2>2, <2>4 DEF AnswerFits
<1> QED BY <1>1, <1>3, <1>4, <1>5, RequestStep

\* Rows of documents stay and rows of bases keep their owner: what was granted still is.
LEMMA GrantsKept ==
  ASSUME SharingShapes, GrantsFit, NEW c \in Sharers, NEW r, SharerStep(c, r),
         r.pc \in {"idle", "save_document", "save_base", "save_job"},
         UNCHANGED <<permissionRows, permissionMemory, shareRows, grants>>,
         \A d \in DOMAIN documentRows : d \in DOMAIN documentRows' /\ documentRows'[d] = documentRows[d],
         \A b \in DOMAIN baseRows : b \in DOMAIN baseRows' /\ baseRows'[b].owner = baseRows[b].owner
  PROVE  GrantsFit'
<1>1. sharer'[c] = r /\ \A k \in Sharers : k # c => sharer'[k] = sharer[k]
  BY SharerMoves
<1>2. ASSUME NEW k \in Sharers
      PROVE  CrossFits(sharer[k], grants[k])' /\ SearchFits(sharer[k], grants[k])' /\ AnswerFits(sharer[k], grants[k])'
  <2>1. CASE k = c
    BY <1>1, <2>1 DEF CrossFits, Crossing, SearchFits, Searching, AnswerFits
  <2>2. CASE k # c
    <3>1. /\ sharer'[k] = sharer[k] /\ CrossFits(sharer[k], grants[k]) /\ SearchFits(sharer[k], grants[k])
          /\ AnswerFits(sharer[k], grants[k])
      BY <1>1, <2>2 DEF GrantsFit
    <3>2. CrossFits(sharer[k], grants[k])'
      BY <3>1 DEF CrossFits, Crossing
    <3>3. SearchFits(sharer[k], grants[k])'
      BY <3>1 DEF SearchFits, Searching
    <3>4. ASSUME NEW d, DocumentGranted(sharer[k], grants[k], d) PROVE DocumentGranted(sharer[k], grants[k], d)'
      BY <3>1, <3>4 DEF DocumentGranted
    <3>5. AnswerFits(sharer[k], grants[k])'
      BY <3>1, <3>4 DEF AnswerFits
    <3> QED BY <3>2, <3>3, <3>5
  <2> QED BY <2>1, <2>2
<1> QED BY <1>2 DEF GrantsFit

\* One base gets an owner, or has had this one.
LEMMA OwnerAdded ==
  ASSUME OneOwner, NEW b, NEW o,
         \A x, g : OwnedBy(x, g)' => OwnedBy(x, g) \/ (x = b /\ g = o),
         \A g : OwnedBy(b, g) => g = o
  PROVE  OneOwner'
<1> SUFFICES ASSUME NEW x, NEW g, NEW h, OwnedBy(x, g)', OwnedBy(x, h)' PROVE g = h
  BY Zenon DEF OneOwner
<1>1. OwnedBy(x, g) \/ (x = b /\ g = o)
  OBVIOUS
<1>2. OwnedBy(x, h) \/ (x = b /\ h = o)
  OBVIOUS
<1>3. CASE x = b
  <2>1. g = o /\ h = o
    BY <1>1, <1>2, <1>3
  <2> QED BY <2>1
<1>4. CASE x # b
  BY <1>1, <1>2, <1>4 DEF OneOwner
<1> QED BY <1>3, <1>4

\* Bases that are known stay known.
LEMMA BasesGrow ==
  ASSUME SharingShapes, NEW c \in Sharers, NEW r, SharerStep(c, r), BasesFit, BaseFits(r)',
         DOMAIN baseRows \subseteq DOMAIN baseRows',
         \A s \in SharingServers : DOMAIN baseMemory[s] \subseteq DOMAIN baseMemory'[s]
  PROVE  \A k \in Sharers : BaseFits(sharer[k])'
<1>1. sharer'[c] = r /\ \A k \in Sharers : k # c => sharer'[k] = sharer[k]
  BY SharerMoves
<1>2. \A b : KnownBase(b) => KnownBase(b)'
  BY DEF KnownBase
<1>3. ASSUME NEW k \in Sharers PROVE BaseFits(sharer[k])'
  <2>1. CASE k = c
    BY <1>1, <2>1 DEF BaseFits
  <2>2. CASE k # c
    <3>1. sharer'[k] = sharer[k] /\ BaseFits(sharer[k])
      BY <1>1, <2>2 DEF BasesFit
    <3> QED BY <3>1, <1>2 DEF BaseFits
  <2> QED BY <2>1, <2>2
<1> QED BY <1>3

\* A base that nobody knows has no owner.
LEMMA UnknownUnowned ==
  ASSUME BasesFit, NEW b, ~KnownBase(b), NEW g
  PROVE  ~OwnedBy(b, g)
<1>1. ~RowOwner(b, g) /\ ~MemoryOwner(b, g)
  BY DEF KnownBase, RowOwner, MemoryOwner
<1>2. ASSUME NEW c \in Sharers PROVE ~RequestOwner(sharer[c], b, g)
  BY DEF BasesFit, BaseFits, KnownBase, RequestOwner
<1> QED BY <1>1, <1>2 DEF OwnedBy

\* A memory gets a base, and the request that put it there carries it.
LEMMA OwnersAfterRemember ==
  ASSUME SharingShapes, BasesFit, NEW c \in Sharers, NEW s \in SharingServers, NEW b, NEW base, NEW r, SharerStep(c, r),
         r.pc \in {"save_document", "save_base"}, r.id = b, r.base = base,
         baseMemory' = [baseMemory EXCEPT ![s] = Put(baseMemory[s], b, base)], UNCHANGED baseRows,
         \A g : OwnedBy(b, g) => g = base.owner
  PROVE  BasesFit' /\ baseMemory' = [t \in SharingServers |-> baseMemory'[t]]
<1>1. sharer'[c] = r /\ \A k \in Sharers : k # c => sharer'[k] = sharer[k]
  BY SharerMoves
<1>2. /\ baseMemory' = [t \in SharingServers |-> baseMemory'[t]]
      /\ baseMemory'[s] = Put(baseMemory[s], b, base)
      /\ \A t \in SharingServers : t # s => baseMemory'[t] = baseMemory[t]
  BY DEF SharingShapes
<1>3. /\ DOMAIN baseMemory'[s] = DOMAIN baseMemory[s] \cup {b} /\ baseMemory'[s][b] = base
      /\ \A x \in DOMAIN baseMemory[s] : x # b => baseMemory'[s][x] = baseMemory[s][x]
  <2> DEFINE m == baseMemory[s]
  <2>1. /\ DOMAIN Put(m, b, base) = DOMAIN m \cup {b} /\ Put(m, b, base)[b] = base
        /\ \A x \in DOMAIN m : x # b => Put(m, b, base)[x] = m[x]
    BY DEF Put
  <2> QED BY <1>2, <2>1
<1>4. ASSUME NEW x, NEW g, OwnedBy(x, g)' PROVE OwnedBy(x, g) \/ (x = b /\ g = base.owner)
  <2>1. CASE RowOwner(x, g)'
    BY <2>1 DEF OwnedBy, RowOwner
  <2>2. CASE MemoryOwner(x, g)'
    <3>1. PICK t \in SharingServers : x \in DOMAIN baseMemory'[t] /\ baseMemory'[t][x].owner = g
      BY <2>2 DEF MemoryOwner
    <3>2. CASE t = s /\ x = b
      BY <3>1, <3>2, <1>3
    <3>3. CASE ~(t = s /\ x = b)
      <4>1. x \in DOMAIN baseMemory[t] /\ baseMemory[t][x].owner = g
        BY <3>1, <3>3, <1>2, <1>3
      <4> QED BY <4>1 DEF OwnedBy, MemoryOwner
    <3> QED BY <3>2, <3>3
  <2>3. CASE \E k \in Sharers : RequestOwner(sharer'[k], x, g)
    <3>1. PICK k \in Sharers : RequestOwner(sharer'[k], x, g)
      BY <2>3
    <3>2. CASE k = c
      BY <3>1, <3>2, <1>1 DEF RequestOwner, HoldsBase, ListsBase
    <3>3. CASE k # c
      BY <3>1, <3>3, <1>1 DEF OwnedBy
    <3> QED BY <3>2, <3>3
  <2> QED BY <1>4, <2>1, <2>2, <2>3 DEF OwnedBy, RequestOwner, HoldsBase, ListsBase
<1>5. OneOwner'
  <2> DEFINE o == base.owner
  <2>1. /\ OneOwner /\ \A x, g : OwnedBy(x, g)' => OwnedBy(x, g) \/ (x = b /\ g = o)
        /\ \A g : OwnedBy(b, g) => g = o
    BY <1>4 DEF BasesFit
  <2> HIDE DEF o
  <2> QED BY <2>1, OwnerAdded
<1>6. \A t \in SharingServers : DOMAIN baseMemory[t] \subseteq DOMAIN baseMemory'[t]
  BY <1>2, <1>3
<1>7. BaseFits(r)'
  BY <1>3 DEF BaseFits, HoldsBase, ListsBase, KnownBase
<1>8. \A k \in Sharers : BaseFits(sharer[k])'
  BY <1>6, <1>7, BasesGrow
<1> QED BY <1>2, <1>5, <1>8 DEF BasesFit

LEMMA CreateKeeps ==
  ASSUME SharingInv, NEW c \in Sharers, CreateKnowledgeBase(c)
  PROVE  SharingInv'
<1> DEFINE old == sharer[c]
           s == old.server
           base == [owner |-> old.arg.owner, status |-> "ready", count |-> 0,
                    visibility |-> Given(old.arg.visibility, "group")]
<1>1. /\ s \in SharingServers
      /\ UNCHANGED <<permissionRows, permissionMemory, baseRows, documentRows, documentMemory, ingested,
                     shareRows, grants>>
  BY DEF SharingInv, SharingShapes, SharerShape, AskingPCs, CreateKnowledgeBase, permissionVars, shareVars
<1>2. PICK b \in Bases :
        /\ b \notin DOMAIN baseRows /\ \A t \in SharingServers : b \notin DOMAIN baseMemory[t]
        /\ baseMemory' = [baseMemory EXCEPT ![s] = Put(baseMemory[s], b, base)]
        /\ SharerStep(c, [pc |-> "save_base", op |-> "create", id |-> b, base |-> base])
  BY DEF CreateKnowledgeBase
<1> DEFINE r == [pc |-> "save_base", op |-> "create", id |-> b, base |-> base]
<1>3. r.pc = "save_base" /\ r.op = "create" /\ r.id = b /\ r.base = base /\ SharerStep(c, r)
  BY <1>2
<1> HIDE DEF r, base
<1>4. \A g : ~OwnedBy(b, g)
  BY <1>2, UnknownUnowned DEF KnownBase, SharingInv
<1>5. BasesFit' /\ baseMemory' = [t \in SharingServers |-> baseMemory'[t]]
  BY <1>1, <1>2, <1>3, <1>4, OwnersAfterRemember DEF SharingInv
<1>6. SharerShape(r) /\ ~Ingesting(r)
  BY <1>3 DEF SharerShape, AskingPCs, Ingesting
<1>7. IngestFits'
  BY <1>1, <1>3, <1>6, IngestMoves DEF SharingInv
<1>8. GrantsFit'
  BY <1>1, <1>3, GrantsKept DEF SharingInv
<1>9. SharingShapes'
  <2>1. /\ sharer' = [k \in Sharers |-> sharer'[k]]
        /\ \A k \in Sharers : sharer'[k] = r \/ sharer'[k] = sharer[k]
    BY <1>3, SharerMoves DEF SharingInv
  <2>2. \A k \in Sharers : SharerShape(sharer'[k])
    BY <2>1, <1>6 DEF SharingInv, SharingShapes
  <2> QED BY <1>1, <1>5, <2>1, <2>2 DEF SharingInv, SharingShapes, SharerShape, Ingesting
<1> QED BY <1>5, <1>7, <1>8, <1>9 DEF SharingInv

\* A new document has a name that no other request carries.
LEMMA IngestKeeps ==
  ASSUME SharingInv, NEW c \in Sharers, IngestDocument(c)
  PROVE  SharingInv'
<1> DEFINE old == sharer[c]
           s == old.server
           arg == old.arg
           document == [base |-> arg.base, group |-> Given(arg.group, old.base.owner),
                        visibility |-> Given(arg.visibility, old.base.visibility), matches |-> arg.matches]
<1>1. /\ old.pc = "remember" /\ s \in SharingServers
      /\ UNCHANGED <<permissionRows, permissionMemory, baseRows, documentRows, ingested, shareRows, grants>>
  BY DEF SharingInv, SharingShapes, SharerShape, AskingPCs, IngestDocument, permissionVars, shareVars
<1>2. PICK d \in Documents :
        /\ d \notin DOMAIN documentRows
        /\ \A t \in SharingServers : d \notin DOMAIN documentMemory[t]
        /\ documentMemory' = [documentMemory EXCEPT ![s] = Put(documentMemory[s], d, document)]
        /\ LET counted == [owner |-> old.base.owner, visibility |-> old.base.visibility, status |-> "ready",
                           count |-> documentCountLocked(Put(documentMemory[s], d, document), arg.base)]
           IN /\ baseMemory' = [baseMemory EXCEPT ![s] = Put(baseMemory[s], arg.base, counted)]
              /\ SharerStep(c, [pc |-> "save_document", op |-> "ingest", id |-> arg.base,
                                base |-> counted, document |-> document, name |-> d,
                                remembered |-> old.remembered])
  BY DEF IngestDocument
<1> DEFINE b == arg.base
           counted == [owner |-> old.base.owner, visibility |-> old.base.visibility, status |-> "ready",
                       count |-> documentCountLocked(Put(documentMemory[s], d, document), arg.base)]
           r == [pc |-> "save_document", op |-> "ingest", id |-> b, base |-> counted, document |-> document,
                 name |-> d, remembered |-> old.remembered]
<1>3. /\ r.pc = "save_document" /\ r.op = "ingest" /\ r.id = b /\ r.base = counted /\ r.name = d
      /\ r.document = document /\ r.remembered = old.remembered /\ document.base = b
      /\ counted.owner = old.base.owner
  OBVIOUS
<1>4. /\ SharerStep(c, r) /\ baseMemory' = [baseMemory EXCEPT ![s] = Put(baseMemory[s], b, counted)]
      /\ documentMemory' = [documentMemory EXCEPT ![s] = Put(documentMemory[s], d, document)]
  BY <1>2
<1>5. SharerShape(r) /\ Ingesting(r)
  BY <1>3 DEF SharerShape, AskingPCs, Ingesting
<1> HIDE DEF r, counted, document
<1>6. BasesFit' /\ baseMemory' = [t \in SharingServers |-> baseMemory'[t]]
  <2>1. OwnedBy(b, old.base.owner) /\ OneOwner
    BY <1>1 DEF OwnedBy, RequestOwner, HoldsBase, SharingInv, BasesFit
  <2>2. \A g : OwnedBy(b, g) => g = counted.owner
    BY <2>1, <1>3 DEF OneOwner
  <2> QED BY <1>1, <1>3, <1>4, <2>2, OwnersAfterRemember DEF SharingInv
<1>7. sharer'[c] = r /\ \A k \in Sharers : k # c => sharer'[k] = sharer[k]
  BY <1>4, SharerMoves DEF SharingInv
<1>8. /\ documentMemory' = [t \in SharingServers |-> documentMemory'[t]]
      /\ d \in DOMAIN documentMemory'[s]
      /\ \A t \in SharingServers : DOMAIN documentMemory[t] \subseteq DOMAIN documentMemory'[t]
  <2>1. DOMAIN Put(documentMemory[s], d, document) = DOMAIN documentMemory[s] \cup {d}
    BY DEF Put
  <2> QED BY <2>1, <1>1, <1>4 DEF SharingInv, SharingShapes
<1>9. IngestFits'
  <2>1. \A k \in Sharers : k # c /\ Ingesting(sharer[k]) => sharer[k].name # d
    BY <1>2 DEF SharingInv, IngestFits, DocumentFits
  <2>2. OwnNames'
    BY <2>1, <1>3, <1>7 DEF OwnNames, SharingInv, IngestFits
  <2>3. IngestedIsFound'
    BY <1>1 DEF SharingInv, IngestFits, IngestedIsFound
  <2>4. ASSUME NEW k \in Sharers PROVE DocumentFits(sharer[k])'
    <3>1. CASE k = c
      BY <3>1, <1>1, <1>2, <1>3, <1>7, <1>8 DEF DocumentFits, Ingesting
    <3>2. CASE k # c
      <4>1. sharer'[k] = sharer[k] /\ DocumentFits(sharer[k])
        BY <3>2, <1>7 DEF SharingInv, IngestFits
      <4> QED BY <4>1, <1>1, <1>8 DEF DocumentFits, Ingesting
    <3> QED BY <3>1, <3>2
  <2> QED BY <2>2, <2>3, <2>4 DEF IngestFits
<1>10. GrantsFit'
  BY <1>1, <1>3, <1>4, GrantsKept DEF SharingInv
<1>11. SharingShapes'
  <2>1. sharer' = [k \in Sharers |-> sharer'[k]]
    BY <1>4, SharerMoves DEF SharingInv
  <2>2. \A k \in Sharers : SharerShape(sharer'[k])
    BY <1>5, <1>7 DEF SharingInv, SharingShapes
  <2> QED BY <1>1, <1>6, <1>8, <2>1, <2>2 DEF SharingInv, SharingShapes, SharerShape, Ingesting
<1> QED BY <1>6, <1>9, <1>10, <1>11 DEF SharingInv

\* The record of a request on its way through the saves.
LEMMA SavingGoes ==
  ASSUME SharingInv, NEW c \in Sharers, Ingesting(sharer[c]), NEW p \in {"save_base", "save_job"}, SharerGoes(c, p),
         sharer[c].op = "ingest"
  PROVE  LET old == sharer[c]  r == [old EXCEPT !.pc = p]
         IN /\ SharerStep(c, r) /\ SharerShape(r) /\ Ingesting(r) /\ r.pc = p /\ r.op = "ingest"
            /\ r.id = old.id /\ r.base = old.base /\ r.document = old.document /\ r.name = old.name
<1> DEFINE old == sharer[c]
           r == [old EXCEPT !.pc = p]
<1>1. old = [pc |-> old.pc, op |-> old.op, id |-> old.id, base |-> old.base, document |-> old.document,
             name |-> old.name, remembered |-> old.remembered]
  BY DEF SharingInv, SharingShapes, SharerShape
<1>2. r = [pc |-> p, op |-> old.op, id |-> old.id, base |-> old.base, document |-> old.document,
           name |-> old.name, remembered |-> old.remembered]
  BY <1>1, IngestingGoes
<1>3. SharerStep(c, r)
  BY DEF SharerGoes
<1> HIDE DEF r
<1>4. /\ r.pc = p /\ r.op = "ingest" /\ r.id = old.id /\ r.base = old.base /\ r.document = old.document
      /\ r.name = old.name /\ r.remembered = old.remembered
  BY <1>2
<1>5. SharerShape(r) /\ Ingesting(r)
  BY <1>2, <1>4 DEF SharerShape, AskingPCs, Ingesting
<1> QED BY <1>3, <1>4, <1>5 DEF r

\* The document is saved under a name that had no row.
LEMMA SaveDocumentKeeps ==
  ASSUME SharingInv, NEW c \in Sharers, SaveDocument(c)
  PROVE  SharingInv'
<1> DEFINE old == sharer[c]
           r == [old EXCEPT !.pc = "save_base"]
<1>1. /\ old.pc = "save_document" /\ old.op = "ingest" /\ Ingesting(old) /\ DocumentFits(old)
      /\ UNCHANGED <<permissionRows, permissionMemory, baseRows, baseMemory, documentMemory, ingested,
                     shareRows, grants>>
  BY DEF SharingInv, SharingShapes, SharerShape, Ingesting, IngestFits, SaveDocument, permissionVars, shareVars
<1>2. CASE UNCHANGED documentRows /\ SharerAnswer(c)
  BY <1>1, <1>2, AnswerStep DEF SharerAnswer
<1>3. ASSUME documentRows' = Put(documentRows, old.name, old.document), SharerGoes(c, "save_base")
      PROVE  SharingInv'
  <2>1. /\ SharerStep(c, r) /\ SharerShape(r) /\ Ingesting(r) /\ r.pc = "save_base" /\ r.op = "ingest"
        /\ r.id = old.id /\ r.base = old.base /\ r.document = old.document /\ r.name = old.name
    BY <1>1, <1>3, SavingGoes
  <2> HIDE DEF r
  <2>2. sharer'[c] = r /\ \A k \in Sharers : k # c => sharer'[k] = sharer[k]
    BY <2>1, SharerMoves DEF SharingInv
  <2>3. old.name \notin DOMAIN documentRows /\ old.document.base = old.id
    BY <1>1 DEF DocumentFits
  <2>4. /\ DOMAIN documentRows' = DOMAIN documentRows \cup {old.name} /\ documentRows'[old.name] = old.document
        /\ \A d \in DOMAIN documentRows : documentRows'[d] = documentRows[d]
    BY <1>3, <2>3 DEF Put
  <2>5. IngestFits'
    <3>1. OwnNames'
      BY <2>1, <2>2, <1>1 DEF OwnNames, SharingInv, IngestFits
    <3>2. IngestedIsFound'
      BY <1>1, <2>4 DEF SharingInv, IngestFits, IngestedIsFound
    <3>3. ASSUME NEW k \in Sharers PROVE DocumentFits(sharer[k])'
      <4>1. CASE k = c
        <5>1. \E s \in SharingServers : r.name \in DOMAIN documentMemory'[s]
          BY <1>1, <2>1 DEF DocumentFits
        <5>2. r.name \in DOMAIN documentRows' /\ documentRows'[r.name].base = r.id
          BY <2>1, <2>3, <2>4
        <5> QED BY <4>1, <5>1, <5>2, <2>1, <2>2 DEF DocumentFits
      <4>2. CASE k # c
        <5>1. sharer'[k] = sharer[k] /\ DocumentFits(sharer[k])
          BY <4>2, <2>2 DEF SharingInv, IngestFits
        <5>2. Ingesting(sharer[k]) => sharer[k].name # old.name
          BY <4>2, <1>1 DEF SharingInv, IngestFits, OwnNames
        <5> QED BY <5>1, <5>2, <1>1, <2>4 DEF DocumentFits, Ingesting
      <4> QED BY <4>1, <4>2
    <3> QED BY <3>1, <3>2, <3>3 DEF IngestFits
  <2>6. BasesFit'
    <3>1. BaseFits(old)
      BY DEF SharingInv, BasesFit
    <3>2. \A b : HoldsBase(r, b) => HoldsBase(old, b)
      BY <1>1, <2>1 DEF HoldsBase
    <3>3. \A b : ~ListsBase(r, b)
      BY <2>1 DEF ListsBase
    <3>4. BaseFits(r)
      BY <3>1, <3>2, <3>3 DEF BaseFits
    <3>5. \A b, g : RequestOwner(r, b, g) => OwnedBy(b, g)
      BY <2>1, <3>2, <3>3 DEF RequestOwner, OwnedBy
    <3> QED BY <1>1, <2>1, <3>4, <3>5, BasesMove DEF SharingInv
  <2>7. GrantsFit'
    BY <1>1, <2>1, <2>4, GrantsKept DEF SharingInv
  <2>8. SharingShapes'
    <3>1. sharer' = [k \in Sharers |-> sharer'[k]]
      BY <2>1, SharerMoves DEF SharingInv
    <3>2. \A k \in Sharers : SharerShape(sharer'[k])
      BY <2>1, <2>2 DEF SharingInv, SharingShapes
    <3> QED BY <1>1, <3>1, <3>2 DEF SharingInv, SharingShapes, SharerShape, Ingesting
  <2> QED BY <2>5, <2>6, <2>7, <2>8 DEF SharingInv
<1> QED BY <1>2, <1>3 DEF SaveDocument

\* The row of a base is written by whoever carries it: its owner is the one it had.
LEMMA OwnersAfterSave ==
  ASSUME SharingInv, NEW c \in Sharers, sharer[c].pc = "save_base", NEW r, SharerStep(c, r), r.pc \in {"idle", "save_job"},
         baseRows' = Put(baseRows, sharer[c].id, sharer[c].base), UNCHANGED baseMemory
  PROVE  /\ BasesFit' /\ DOMAIN baseRows' = DOMAIN baseRows \cup {sharer[c].id}
         /\ \A b \in DOMAIN baseRows : baseRows'[b].owner = baseRows[b].owner
<1> DEFINE id == sharer[c].id
           o == sharer[c].base.owner
<1>1. /\ DOMAIN baseRows' = DOMAIN baseRows \cup {id} /\ baseRows'[id] = sharer[c].base
      /\ \A b \in DOMAIN baseRows : b # id => baseRows'[b] = baseRows[b]
  BY DEF Put
<1>2. OneOwner /\ OwnedBy(id, o)
  BY DEF SharingInv, BasesFit, OwnedBy, RequestOwner, HoldsBase
<1>3. \A b \in DOMAIN baseRows : baseRows'[b].owner = baseRows[b].owner
  <2> SUFFICES ASSUME NEW b \in DOMAIN baseRows PROVE baseRows'[b].owner = baseRows[b].owner
    OBVIOUS
  <2>1. CASE b = id
    <3>1. OwnedBy(id, baseRows[id].owner)
      BY <2>1 DEF OwnedBy, RowOwner
    <3>2. baseRows[id].owner = o
      BY <3>1, <1>2 DEF OneOwner
    <3> QED BY <2>1, <3>2, <1>1
  <2>2. CASE b # id
    BY <2>2, <1>1
  <2> QED BY <2>1, <2>2
<1>4. sharer'[c] = r /\ \A k \in Sharers : k # c => sharer'[k] = sharer[k]
  BY SharerMoves DEF SharingInv
<1>5. \A b, g : ~RequestOwner(r, b, g)
  BY DEF RequestOwner, HoldsBase, ListsBase
<1>6. ASSUME NEW b, NEW g, OwnedBy(b, g)' PROVE OwnedBy(b, g) \/ (b = id /\ g = o)
  <2>1. CASE RowOwner(b, g)'
    BY <2>1, <1>1 DEF OwnedBy, RowOwner
  <2>2. CASE MemoryOwner(b, g)'
    BY <2>2 DEF OwnedBy, MemoryOwner
  <2>3. CASE \E k \in Sharers : RequestOwner(sharer'[k], b, g)
    BY <2>3, <1>4, <1>5 DEF OwnedBy
  <2> QED BY <1>6, <2>1, <2>2, <2>3 DEF OwnedBy, RequestOwner, HoldsBase, ListsBase
<1>7. OneOwner'
  <2>1. \A g : OwnedBy(id, g) => g = o
    BY <1>2 DEF OneOwner
  <2> HIDE DEF id, o
  <2> QED BY <2>1, <1>2, <1>6, OwnerAdded
<1>8. BaseFits(r)'
  BY DEF BaseFits, HoldsBase, ListsBase
<1>9. \A k \in Sharers : BaseFits(sharer[k])'
  BY <1>1, <1>8, BasesGrow DEF SharingInv
<1> QED BY <1>1, <1>3, <1>7, <1>9 DEF BasesFit

LEMMA SaveBaseKeeps ==
  ASSUME SharingInv, NEW c \in Sharers, SaveKnowledgeBase(c)
  PROVE  SharingInv'
<1> DEFINE old == sharer[c]
<1>1. /\ old.pc = "save_base" /\ DocumentFits(old)
      /\ UNCHANGED <<permissionRows, permissionMemory, documentRows, baseMemory, documentMemory, ingested,
                     shareRows, grants>>
  BY DEF SharingInv, IngestFits, SaveKnowledgeBase, permissionVars, shareVars
<1>2. CASE UNCHANGED baseRows /\ SharerAnswer(c)
  BY <1>1, <1>2, AnswerStep DEF SharerAnswer
<1>3. ASSUME baseRows' = Put(baseRows, old.id, old.base), NEW r, SharerStep(c, r), r.pc \in {"idle", "save_job"},
             SharerShape(r),
             r.pc = "save_job" => Ingesting(old) /\ r.id = old.id /\ r.name = old.name
      PROVE  SharingInv'
  <2>1. sharer'[c] = r /\ \A k \in Sharers : k # c => sharer'[k] = sharer[k]
    BY <1>3, SharerMoves DEF SharingInv
  <2>2. /\ BasesFit' /\ DOMAIN baseRows' = DOMAIN baseRows \cup {old.id}
        /\ \A b \in DOMAIN baseRows : baseRows'[b].owner = baseRows[b].owner
    BY <1>1, <1>3, OwnersAfterSave
  <2>3. Ingesting(r) <=> r.pc = "save_job"
    BY <1>3 DEF Ingesting
  <2>4. IngestFits'
    <3>1. OwnNames'
      BY <2>1, <2>3, <1>3 DEF OwnNames, SharingInv, IngestFits
    <3>2. IngestedIsFound'
      BY <1>1, <2>2 DEF SharingInv, IngestFits, IngestedIsFound
    <3>3. ASSUME NEW k \in Sharers PROVE DocumentFits(sharer[k])'
      <4>1. CASE k = c
        BY <4>1, <1>1, <1>3, <2>1, <2>2, <2>3 DEF DocumentFits, Ingesting
      <4>2. CASE k # c
        <5>1. sharer'[k] = sharer[k] /\ DocumentFits(sharer[k])
          BY <4>2, <2>1 DEF SharingInv, IngestFits
        <5> QED BY <5>1, <1>1, <2>2 DEF DocumentFits, Ingesting
      <4> QED BY <4>1, <4>2
    <3> QED BY <3>1, <3>2, <3>3 DEF IngestFits
  <2>5. GrantsFit'
    BY <1>1, <1>3, <2>2, GrantsKept DEF SharingInv
  <2>6. SharingShapes'
    <3>1. sharer' = [k \in Sharers |-> sharer'[k]]
      BY <1>3, SharerMoves DEF SharingInv
    <3>2. \A k \in Sharers : SharerShape(sharer'[k])
      BY <2>1, <1>3 DEF SharingInv, SharingShapes
    <3> QED BY <1>1, <3>1, <3>2 DEF SharingInv, SharingShapes, SharerShape, Ingesting
  <2> QED BY <2>2, <2>4, <2>5, <2>6 DEF SharingInv
<1>4. CASE baseRows' = Put(baseRows, old.id, old.base) /\ old.op # "ingest" /\ SharerAnswer(c)
  <2> DEFINE r == SharerIdle
  <2>1. r.pc = "idle" /\ SharerStep(c, r)
    BY <1>4 DEF SharerIdle, SharerAnswer
  <2> HIDE DEF r
  <2>2. SharerShape(r)
    BY <2>1 DEF SharerShape, AskingPCs, Ingesting
  <2> QED BY <1>3, <1>4, <2>1, <2>2
<1>5. CASE baseRows' = Put(baseRows, old.id, old.base) /\ old.op = "ingest" /\ SharerGoes(c, "save_job")
  <2> DEFINE r == [old EXCEPT !.pc = "save_job"]
  <2>1. Ingesting(old)
    BY <1>1, <1>5 DEF Ingesting
  <2>2. SharerStep(c, r) /\ SharerShape(r) /\ r.pc = "save_job" /\ r.id = old.id /\ r.name = old.name
    BY <1>5, <2>1, SavingGoes
  <2> HIDE DEF r
  <2> QED BY <1>3, <1>5, <2>1, <2>2
<1> QED BY <1>2, <1>4, <1>5 DEF SaveKnowledgeBase

\* The job is saved last: by then the document and its base are on record.
LEMMA SaveJobKeeps ==
  ASSUME SharingInv, NEW c \in Sharers, saveJob(c)
  PROVE  SharingInv'
<1> DEFINE old == sharer[c]
           r == SharerIdle
<1>1. /\ old.pc = "save_job" /\ DocumentFits(old) /\ Ingesting(old)
      /\ UNCHANGED <<permissionRows, permissionMemory, baseRows, baseMemory, documentRows, documentMemory,
                     shareRows, grants>>
      /\ SharerStep(c, r)
      /\ ingested' = ingested \cup {old.name} \/ ingested' = ingested
  BY DEF SharingInv, IngestFits, Ingesting, saveJob, SharerAnswer, permissionVars, shareVars
<1>2. r.pc = "idle"
  BY DEF SharerIdle
<1> HIDE DEF r
<1>3. sharer'[c] = r /\ \A k \in Sharers : k # c => sharer'[k] = sharer[k]
  BY <1>1, SharerMoves DEF SharingInv
<1>4. ~Ingesting(r) /\ SharerShape(r) /\ BaseFits(r) /\ \A b, g : ~RequestOwner(r, b, g)
  BY <1>2 DEF Ingesting, SharerShape, AskingPCs, BaseFits, HoldsBase, ListsBase, RequestOwner
<1>5. IngestFits'
  <2>1. OwnNames'
    BY <1>3, <1>4 DEF OwnNames, SharingInv, IngestFits
  <2>2. old.name \in DOMAIN documentRows /\ documentRows[old.name].base \in DOMAIN baseRows
    BY <1>1 DEF DocumentFits
  <2>3. IngestedIsFound'
    BY <1>1, <2>2 DEF SharingInv, IngestFits, IngestedIsFound
  <2>4. ASSUME NEW k \in Sharers PROVE DocumentFits(sharer[k])'
    <3>1. CASE k = c
      BY <3>1, <1>2, <1>3, <1>4 DEF DocumentFits
    <3>2. CASE k # c
      <4>1. sharer'[k] = sharer[k] /\ DocumentFits(sharer[k])
        BY <3>2, <1>3 DEF SharingInv, IngestFits
      <4> QED BY <4>1, <1>1 DEF DocumentFits, Ingesting
    <3> QED BY <3>1, <3>2
  <2> QED BY <2>1, <2>3, <2>4 DEF IngestFits
<1>6. BasesFit'
  BY <1>1, <1>4, BasesMove DEF SharingInv
<1>7. GrantsFit'
  BY <1>1, <1>2, GrantsKept DEF SharingInv
<1>8. SharingShapes'
  <2>1. sharer' = [k \in Sharers |-> sharer'[k]]
    BY <1>1, SharerMoves DEF SharingInv
  <2>2. \A k \in Sharers : SharerShape(sharer'[k])
    BY <1>3, <1>4 DEF SharingInv, SharingShapes
  <2> QED BY <1>1, <2>1, <2>2 DEF SharingInv, SharingShapes, SharerShape, Ingesting
<1> QED BY <1>5, <1>6, <1>7, <1>8 DEF SharingInv

\* A history of which more was granted, and less all the time.
LEMMA GrantGrows ==
  ASSUME NEW g, NEW more, g = [explicit |-> g.explicit, some |-> g.some, all |-> g.all]
  PROVE  [g EXCEPT !.some = g.some \cup more, !.all = g.all \cap more] =
           [explicit |-> g.explicit, some |-> g.some \cup more, all |-> g.all \cap more]
<1> DEFINE a == g.some \cup more
           b == g.all \cap more
           q == [g EXCEPT !.some = a]
<1> HIDE DEF a, b
<1>1. [g EXCEPT !.some = a, !.all = b] = [q EXCEPT !.all = b]
  BY Zenon
<1>2. q = [explicit |-> g.explicit, some |-> a, all |-> g.all]
  OBVIOUS
<1> HIDE DEF q
<1>3. [q EXCEPT !.all = b] = [explicit |-> g.explicit, some |-> a, all |-> b]
  BY <1>2
<1> QED BY <1>1, <1>3 DEF a, b

\* What a request's history says of the share policies for its groups.
PairOf(r, rows) ==
  IF r.pc \in {"idle", "answered"} THEN {}
  ELSE IF r.op = "cross" \/ (r.op = "search" /\ r.arg.cross /\ r.arg.source # "")
    THEN Enabled(rows, r.arg.source, r.arg.requester) ELSE {}

LEMMA UpsertShareKeeps ==
  ASSUME SharingInv, NEW c \in Sharers, UpsertSharePolicy(c)
  PROVE  SharingInv'
<1> DEFINE r == SharerIdle
<1>1. /\ UNCHANGED <<permissionRows, permissionMemory, baseRows, baseMemory, documentRows, documentMemory, ingested>>
      /\ SharerStep(c, r)
  BY DEF UpsertSharePolicy, SharerAnswer, permissionVars, knowledgeVars
<1>2. grants' = [k \in Sharers |->
        IF sharer[k].pc \in {"idle", "answered"} THEN grants[k]
        ELSE [grants[k] EXCEPT !.some = grants[k].some \cup PairOf(sharer[k], shareRows'),
                               !.all = grants[k].all \cap PairOf(sharer[k], shareRows')]]
  BY DEF UpsertSharePolicy, PairOf
<1>3. r.pc = "idle"
  BY DEF SharerIdle
<1> HIDE DEF r
<1>4. /\ sharer' = [k \in Sharers |-> sharer'[k]] /\ sharer'[c] = r
      /\ \A k \in Sharers : k # c => sharer'[k] = sharer[k]
  BY <1>1, SharerMoves DEF SharingInv
<1>5. ~Ingesting(r) /\ SharerShape(r) /\ BaseFits(r) /\ \A b, g : ~RequestOwner(r, b, g)
  BY <1>3 DEF Ingesting, SharerShape, AskingPCs, BaseFits, HoldsBase, ListsBase, RequestOwner
<1>6. IngestFits'
  BY <1>1, <1>5, IngestMoves DEF SharingInv
<1>7. BasesFit'
  BY <1>1, <1>5, BasesMove DEF SharingInv
<1>8. ASSUME NEW k \in Sharers
      PROVE  /\ grants[k] = [explicit |-> grants[k].explicit, some |-> grants[k].some, all |-> grants[k].all]
             /\ sharer[k].pc \in {"idle", "answered"} => grants'[k] = grants[k]
             /\ sharer[k].pc \notin {"idle", "answered"} =>
                  grants'[k] = [explicit |-> grants[k].explicit,
                                some |-> grants[k].some \cup PairOf(sharer[k], shareRows'),
                                all |-> grants[k].all \cap PairOf(sharer[k], shareRows')]
  <2> DEFINE g == grants[k]
             pair == PairOf(sharer[k], shareRows')
  <2>1. g = [explicit |-> g.explicit, some |-> g.some, all |-> g.all]
    BY DEF SharingInv, SharingShapes
  <2>2. [g EXCEPT !.some = g.some \cup pair, !.all = g.all \cap pair] =
          [explicit |-> g.explicit, some |-> g.some \cup pair, all |-> g.all \cap pair]
    <3> HIDE DEF g, pair
    <3> QED BY <2>1, GrantGrows, Zenon
  <2>3. sharer[k].pc \in {"idle", "answered"} => grants'[k] = grants[k]
    BY <1>2
  <2>4. sharer[k].pc \notin {"idle", "answered"} =>
          grants'[k] = [g EXCEPT !.some = g.some \cup pair, !.all = g.all \cap pair]
    BY <1>2
  <2> QED BY <2>1, <2>2, <2>3, <2>4
<1>9. GrantsFit'
  <2>1. ASSUME NEW k \in Sharers
        PROVE  CrossFits(sharer[k], grants[k])' /\ SearchFits(sharer[k], grants[k])' /\ AnswerFits(sharer[k], grants[k])'
    <3> DEFINE old == sharer[k]
               g == grants[k]
               new == grants'[k]
               pair == PairOf(old, shareRows')
    <3>1. CASE k = c
      BY <3>1, <1>3, <1>4 DEF CrossFits, Crossing, SearchFits, Searching, AnswerFits
    <3>2. ASSUME k # c PROVE sharer'[k] = old /\ CrossFits(old, g) /\ SearchFits(old, g) /\ AnswerFits(old, g)
      BY <3>2, <1>4 DEF SharingInv, GrantsFit
    <3>3. CASE k # c /\ old.pc \in {"idle", "answered"}
      <4>1. new = g
        BY <3>3, <1>8
      <4> QED BY <4>1, <3>2, <3>3, <1>1 DEF CrossFits, Crossing, SearchFits, Searching, AnswerFits, DocumentGranted
    <3>4. CASE k # c /\ old.pc \notin {"idle", "answered"}
      <4>1. new = [explicit |-> g.explicit, some |-> g.some \cup pair, all |-> g.all \cap pair]
        BY <3>4, <1>8
      <4>2. new.explicit = g.explicit /\ new.some = g.some \cup pair /\ new.all = g.all \cap pair
        BY <4>1
      <4>3. ASSUME Crossing(old) PROVE pair = Enabled(shareRows', old.arg.source, old.arg.requester)
        BY <4>3, <3>4 DEF Crossing, PairOf
      <4> HIDE DEF pair
      <4>4. CrossFits(sharer[k], grants[k])'
        <5> SUFFICES ASSUME Crossing(old) PROVE CrossFits(sharer[k], grants[k])'
          BY <3>2, <3>4 DEF CrossFits, Crossing
        <5>1. pair = Enabled(shareRows', old.arg.source, old.arg.requester)
          BY <4>3
        <5>2. pair \subseteq new.some /\ new.all \subseteq pair
          BY <4>2
        <5> QED BY <4>2, <5>1, <5>2, <3>2, <3>4, <1>1 DEF CrossFits
      <4>5. SearchFits(sharer[k], grants[k])'
        BY <4>2, <3>2, <3>4 DEF SearchFits, Searching
      <4>6. AnswerFits(sharer[k], grants[k])'
        BY <3>2, <3>4 DEF AnswerFits
      <4> QED BY <4>4, <4>5, <4>6
    <3> QED BY <3>1, <3>3, <3>4
  <2> QED BY <2>1 DEF GrantsFit
<1>10. SharingShapes'
  <2>1. \A k \in Sharers : SharerShape(sharer'[k])
    BY <1>4, <1>5 DEF SharingInv, SharingShapes
  <2>2. \A k \in Sharers : grants'[k] = [explicit |-> grants'[k].explicit, some |-> grants'[k].some,
                                         all |-> grants'[k].all]
    <3> SUFFICES ASSUME NEW k \in Sharers
                 PROVE  grants'[k] = [explicit |-> grants'[k].explicit, some |-> grants'[k].some,
                                      all |-> grants'[k].all]
      OBVIOUS
    <3>1. PICK e, a, b : grants'[k] = [explicit |-> e, some |-> a, all |-> b]
      <4>1. CASE sharer[k].pc \in {"idle", "answered"}
        <5>1. grants'[k] = grants[k]
          BY <1>8, <4>1
        <5>2. grants[k] = [explicit |-> grants[k].explicit, some |-> grants[k].some, all |-> grants[k].all]
          BY <1>8
        <5>3. grants'[k] = [explicit |-> grants[k].explicit, some |-> grants[k].some, all |-> grants[k].all]
          BY <5>1, <5>2, Zenon
        <5> QED BY <5>3, Zenon
      <4>2. CASE sharer[k].pc \notin {"idle", "answered"}
        BY <1>8, <4>2, Zenon
      <4> QED BY <4>1, <4>2
    <3> QED BY <3>1
  <2>3. grants' = [k \in Sharers |-> [explicit |-> grants'[k].explicit, some |-> grants'[k].some,
                                      all |-> grants'[k].all]]
    <3>1. grants' = [k \in Sharers |-> grants'[k]]
      BY <1>2
    <3> QED BY <3>1, <2>2
  <2> QED BY <1>1, <1>4, <2>1, <2>3 DEF SharingInv, SharingShapes, SharerShape, Ingesting
<1> QED BY <1>6, <1>7, <1>9, <1>10 DEF SharingInv

\* A policy is written: the history of every search in another group takes notice.
LEMMA UpsertPolicyKeeps ==
  ASSUME SharingInv, NEW s \in SharingServers, NEW input \in SharingInputs.policies, permissionPolicyUpsert(s, input)
  PROVE  SharingInv'
<1>1. /\ UNCHANGED <<baseRows, baseMemory, documentRows, documentMemory, ingested, shareRows, sharer>>
      /\ permissionMemory' = [permissionMemory EXCEPT ![s] = Put(permissionMemory[s], input.key, input.policy)]
      /\ permissionRows' = Put(permissionRows, input.key, input.policy) \/ permissionRows' = permissionRows
  BY DEF permissionPolicyUpsert, UpsertPolicy, SavePolicy, knowledgeVars, shareVars
<1>2. /\ permissionMemory' = [t \in SharingServers |-> permissionMemory'[t]]
      /\ DOMAIN permissionRows' \subseteq PermissionKeys
      /\ \A t \in SharingServers : DOMAIN permissionMemory'[t] \subseteq PermissionKeys
  <2>1. /\ DOMAIN Put(permissionMemory[s], input.key, input.policy) = DOMAIN permissionMemory[s] \cup {input.key}
        /\ DOMAIN Put(permissionRows, input.key, input.policy) = DOMAIN permissionRows \cup {input.key}
    BY DEF Put
  <2>2. input.key \in PermissionKeys
    BY SharingAssumption
  <2> QED BY <1>1, <2>1, <2>2 DEF SharingInv, SharingShapes
<1> DEFINE now(k) == Explicit(sharer[k].ask, permissionRows', permissionMemory'[sharer[k].server])
           busy(k) == sharer[k].pc # "idle" /\ sharer[k].pc # "answered" /\ sharer[k].op = "cross"
<1>3. grants' = [k \in Sharers |-> IF busy(k) THEN [grants[k] EXCEPT !.explicit = grants[k].explicit \/ now(k)]
                                   ELSE grants[k]]
  BY DEF permissionPolicyUpsert
<1> HIDE DEF now
<1>4. ASSUME NEW k \in Sharers
      PROVE  /\ grants[k] = [explicit |-> grants[k].explicit, some |-> grants[k].some, all |-> grants[k].all]
             /\ ~busy(k) => grants'[k] = grants[k]
             /\ busy(k) => grants'[k] = [explicit |-> grants[k].explicit \/ now(k), some |-> grants[k].some,
                                         all |-> grants[k].all]
  <2> DEFINE g == grants[k]
             e == grants[k].explicit \/ now(k)
  <2>1. g = [explicit |-> g.explicit, some |-> g.some, all |-> g.all]
    BY DEF SharingInv, SharingShapes
  <2>2. (busy(k) => grants'[k] = [g EXCEPT !.explicit = e]) /\ (~busy(k) => grants'[k] = g)
    BY <1>3
  <2> HIDE DEF g, e
  <2>3. [g EXCEPT !.explicit = e] = [explicit |-> e, some |-> g.some, all |-> g.all]
    BY <2>1
  <2> QED BY <2>1, <2>2, <2>3 DEF g, e
<1>5. ASSUME NEW k \in Sharers
      PROVE  /\ grants[k].explicit => grants'[k].explicit
             /\ grants'[k].some = grants[k].some /\ grants'[k].all = grants[k].all
             /\ grants'[k] = [explicit |-> grants'[k].explicit, some |-> grants'[k].some, all |-> grants'[k].all]
             /\ busy(k) /\ now(k) => grants'[k].explicit
  <2>1. CASE ~busy(k)
    BY <2>1, <1>4
  <2>2. CASE busy(k)
    <3> DEFINE e == grants[k].explicit \/ now(k)
    <3>1. grants'[k] = [explicit |-> e, some |-> grants[k].some, all |-> grants[k].all]
      BY <2>2, <1>4
    <3>2. (grants[k].explicit => e) /\ (now(k) => e)
      BY Zenon
    <3> HIDE DEF e
    <3> QED BY <3>1, <3>2
  <2> QED BY <2>1, <2>2
<1>6. IngestFits'
  BY <1>1 DEF SharingInv, IngestFits, OwnNames, IngestedIsFound, DocumentFits, Ingesting
<1>7. BasesFit'
  <2>1. \A b, g : OwnedBy(b, g)' <=> OwnedBy(b, g)
    BY <1>1 DEF OwnedBy, RowOwner, MemoryOwner, RequestOwner, HoldsBase, ListsBase
  <2>2. \A k \in Sharers : BaseFits(sharer[k])'
    BY <1>1 DEF SharingInv, BasesFit, BaseFits, KnownBase, HoldsBase, ListsBase
  <2>3. OneOwner'
    BY <2>1, OwnersKept DEF SharingInv, BasesFit
  <2> QED BY <2>2, <2>3 DEF BasesFit
<1>8. GrantsFit'
  <2>1. ASSUME NEW k \in Sharers
        PROVE  CrossFits(sharer[k], grants[k])' /\ SearchFits(sharer[k], grants[k])' /\ AnswerFits(sharer[k], grants[k])'
    <3>1. /\ CrossFits(sharer[k], grants[k]) /\ SearchFits(sharer[k], grants[k]) /\ AnswerFits(sharer[k], grants[k])
          /\ sharer'[k] = sharer[k]
      BY <1>1 DEF SharingInv, GrantsFit
    <3>2. Crossing(sharer[k]) => busy(k)
      BY DEF Crossing
    <3>3. CrossFits(sharer[k], grants[k])'
      BY <3>1, <3>2, <1>1, <1>5 DEF CrossFits, Crossing, now
    <3>4. SearchFits(sharer[k], grants[k])'
      BY <3>1, <1>5 DEF SearchFits, Searching
    <3>5. AnswerFits(sharer[k], grants[k])'
      BY <3>1, <1>1, <1>5 DEF AnswerFits, DocumentGranted
    <3> QED BY <3>3, <3>4, <3>5
  <2> QED BY <2>1 DEF GrantsFit
<1>9. SharingShapes'
  <2>1. grants' = [k \in Sharers |-> [explicit |-> grants'[k].explicit, some |-> grants'[k].some,
                                      all |-> grants'[k].all]]
    <3>1. grants' = [k \in Sharers |-> grants'[k]]
      BY <1>3
    <3> QED BY <3>1, <1>5
  <2>2. \A k \in Sharers : SharerShape(sharer'[k])
    BY <1>1 DEF SharingInv, SharingShapes
  <2> QED BY <1>1, <1>2, <2>1, <2>2 DEF SharingInv, SharingShapes, SharerShape, Ingesting
<1> QED BY <1>6, <1>7, <1>8, <1>9 DEF SharingInv

LEMMA SharingInitInv ==
  ASSUME SharingInit
  PROVE  SharingInv
<1>1. PICK init \in InitialSharing :
        /\ permissionRows = init.permissions
        /\ permissionMemory = [s \in SharingServers |-> IF init.remembered THEN init.permissions ELSE <<>>]
        /\ baseMemory = [s \in SharingServers |-> <<>>] /\ documentMemory = [s \in SharingServers |-> <<>>]
        /\ sharer = [c \in Sharers |-> SharerIdle]
        /\ grants = [c \in Sharers |-> NotGranted] /\ ingested = {}
  BY DEF SharingInit
<1>2. \A c \in Sharers : sharer[c].pc = "idle"
  BY <1>1 DEF SharerIdle
<1>3. DOMAIN init.permissions \subseteq PermissionKeys
  BY SharingAssumption
<1>4. SharingShapes
  <2>1. \A s \in SharingServers : permissionMemory[s] = init.permissions \/ permissionMemory[s] = <<>>
    BY <1>1
  <2>2. \A s \in SharingServers : DOMAIN permissionMemory[s] \subseteq PermissionKeys
    BY <1>3, <2>1
  <2>3. grants = [c \in Sharers |-> [explicit |-> grants[c].explicit, some |-> grants[c].some, all |-> grants[c].all]]
    BY <1>1 DEF NotGranted
  <2>4. \A c \in Sharers : SharerShape(sharer[c])
    BY <1>2 DEF SharerShape, AskingPCs, Ingesting
  <2> QED BY <1>1, <1>3, <2>2, <2>3, <2>4 DEF SharingShapes
<1>5. IngestFits
  BY <1>1, <1>2 DEF IngestFits, OwnNames, IngestedIsFound, DocumentFits, Ingesting
<1>6. BasesFit
  <2>1. \A c \in Sharers : \A b : ~HoldsBase(sharer[c], b) /\ ~ListsBase(sharer[c], b)
    BY <1>2 DEF HoldsBase, ListsBase
  <2>2. \A b, g : ~MemoryOwner(b, g)
    BY <1>1 DEF MemoryOwner
  <2>3. OneOwner
    BY <2>1, <2>2 DEF OneOwner, OwnedBy, RowOwner, RequestOwner
  <2> QED BY <2>1, <2>3 DEF BasesFit, BaseFits
<1>7. GrantsFit
  BY <1>2 DEF GrantsFit, CrossFits, Crossing, SearchFits, Searching, AnswerFits
<1> QED BY <1>4, <1>5, <1>6, <1>7 DEF SharingInv

\* A step that leaves alone what the invariant is about.
LEMMA SharingIdle ==
  ASSUME SharingInv,
         UNCHANGED <<permissionRows, permissionMemory, baseRows, baseMemory, documentRows, documentMemory, ingested,
                     shareRows, sharer, grants>>
  PROVE  SharingInv'
<1>1. SharingShapes'
  BY DEF SharingInv, SharingShapes, SharerShape, Ingesting
<1>2. IngestFits'
  BY DEF SharingInv, IngestFits, OwnNames, IngestedIsFound, DocumentFits, Ingesting
<1>3. BasesFit'
  <2>1. \A b, g : OwnedBy(b, g)' <=> OwnedBy(b, g)
    BY DEF OwnedBy, RowOwner, MemoryOwner, RequestOwner, HoldsBase, ListsBase
  <2>2. \A k \in Sharers : BaseFits(sharer[k])'
    BY DEF SharingInv, BasesFit, BaseFits, KnownBase, HoldsBase, ListsBase
  <2>3. OneOwner'
    BY <2>1, OwnersKept DEF SharingInv, BasesFit
  <2> QED BY <2>2, <2>3 DEF BasesFit
<1>4. GrantsFit'
  BY DEF SharingInv, GrantsFit, CrossFits, Crossing, SearchFits, Searching, AnswerFits, DocumentGranted
<1> QED BY <1>1, <1>2, <1>3, <1>4 DEF SharingInv

LEMMA SharingStep ==
  ASSUME SharingInv, [SharingNext]_sharingVars
  PROVE  SharingInv'
<1>1. CASE UNCHANGED sharingVars
  BY <1>1, SharingIdle DEF sharingVars, permissionVars, knowledgeVars, shareVars
<1>2. ASSUME NEW c \in Sharers, NEW s \in SharingServers, Received(c, s) PROVE SharingInv'
  BY <1>2, ReceivedKeeps
<1>3. ASSUME NEW c \in Sharers, Handled(c) PROVE SharingInv'
  BY <1>3, CheckKeeps, CheckMemoryKeeps, CreateKeeps, IngestReadsKeeps, IngestKeeps, SaveDocumentKeeps, SaveBaseKeeps,
     SaveJobKeeps, SnapshotKeeps, AnswerKeeps, CrossKeeps, OthersKeep, UpsertShareKeeps DEF Handled
<1>4. ASSUME NEW s \in SharingServers, NEW input \in SharingInputs.policies, permissionPolicyUpsert(s, input)
      PROVE  SharingInv'
  BY <1>4, UpsertPolicyKeeps
<1>5. ASSUME NEW a \in ShareApprovals, shareApprovalResolve(a) PROVE SharingInv'
  BY <1>5, SharingIdle DEF shareApprovalResolve, permissionVars, knowledgeVars
<1> QED BY <1>1, <1>2, <1>3, <1>4, <1>5 DEF SharingNext

LEMMA SharingInvariant == SharingSpec => []SharingInv
<1>1. SharingInit => SharingInv
  BY SharingInitInv
<1>2. SharingInv /\ [SharingNext]_sharingVars => SharingInv'
  BY SharingStep
<1> QED BY <1>1, <1>2, PTL DEF SharingSpec

(***************************************************************************)
(* A document that was answered as ingested is on record with its base,    *)
(* for any servers, requests, bases and documents: whatever a server       *)
(* remembers of a base that was never saved, the base is saved between the *)
(* document and the job (knowledge InMemoryService.IngestDocument).        *)
(***************************************************************************)
THEOREM IngestedIsFoundHolds == SharingSpec => []IngestedIsFound
<1>1. SharingInv => IngestedIsFound
  BY DEF SharingInv, IngestFits
<1> QED BY <1>1, SharingInvariant, PTL

(***************************************************************************)
(* What a search in another group answers stays within what was granted    *)
(* while it was handled, whatever callers, roles, policies and bases, and  *)
(* however policies change between the checks: a permission policy names   *)
(* the action, an enabled share policy the base, the document is the       *)
(* source group's and shared, and the redaction is as strong as every      *)
(* policy asks that was enabled throughout (crossgroup Service.Search).    *)
(***************************************************************************)
THEOREM SharedAsGrantedHolds == SharingSpec => []SharedAsGranted
<1>1. SharingInv => SharedAsGranted
  <2> SUFFICES ASSUME SharingInv PROVE SharedAsGranted
    OBVIOUS
  <2>1. ASSUME NEW c \in SharedAnswers PROVE c \in Sharers /\ AnswerFits(sharer[c], grants[c])
                                             /\ sharer[c].pc = "answered" /\ sharer[c].shared
    BY DEF SharingInv, GrantsFit, SharedAnswers
  <2>2. SharedOnlyAsGranted
    BY <2>1 DEF SharedOnlyAsGranted, AnswerFits, DocumentGranted
  <2>3. RedactedEnough
    BY <2>1 DEF RedactedEnough, AnswerFits
  <2> QED BY <2>2, <2>3 DEF SharedAsGranted
<1> QED BY <1>1, SharingInvariant, PTL

=============================================================================
