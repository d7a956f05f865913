----------------------------- MODULE Coordinator -----------------------------
(***************************************************************************)
(* internal/runtime/kernel (Coordinator): the goroutines that drive the    *)
(* runs of one task, the approvers that resume them                        *)
(* (internal/server/commands_tasks.go approveTaskAction) and the users     *)
(* that send task.command meanwhile.                                       *)
(*                                                                         *)
(* A thread is one goroutine: the one started for a run, named by its run, *)
(* or an approver's request.  Each of its steps is one call that reads or  *)
(* writes a store; thread[h].pc names the next one.  Tasks.ApplyCommand is *)
(* one step, which the refinement checked in TaskRuntime justifies.  Every *)
(* call may fail (a lost version race, a store or audit error), before or  *)
(* after its write, so a failure is always one of a step's outcomes.       *)
(*                                                                         *)
(* A decision is what the model call returns and so is chosen freely; tool *)
(* results are chosen among the statuses tool/runtime can give.            *)
(***************************************************************************)
EXTENDS TaskState, Naturals, Sequences, FiniteSets

CONSTANTS
  Runs,          \* runs prepared for the task
  Approvers,     \* approve_action requests
  Tools,         \* tools a decision can call
  Gated,         \* those whose policy asks for an approval
  SuppliedKeys,  \* idempotency keys a decision can give its calls itself
  Ungiven,       \* the decision gives no key
  MaxSteps,      \* definition.Runtime.MaxSteps
  MaxToolCalls,  \* definition.Runtime.MaxToolCalls, 0 for no limit
  MaxRepairs,    \* repairAttemptLimit
  MaxCalls       \* bound on the calls of one decision (model checking only)

ASSUME CoordinatorAssumption ==
  /\ Runs \cap Approvers = {}
  /\ Gated \subseteq Tools /\ Ungiven \notin SuppliedKeys
  /\ MaxSteps \in Nat \ {0}    \* the package compiler refuses less
  /\ {MaxToolCalls, MaxRepairs, MaxCalls} \subseteq Nat

VARIABLES
  task,      \* status of the task
  run,       \* run[r]: the agent_runs row
  saved,     \* saved[k]: the tool_calls row stored under the supplied key k
  results,   \* results[r]: the results of the calls stored for r, oldest first
  executed,  \* history: executed[r] are the calls r has had executed, in order
  asked,     \* runs with a committed task.approval_required event
  approvals, \* approve_action commands committed so far
  thread     \* thread[h]: where goroutine h is

coordinatorVars == <<task, run, saved, results, executed, asked, approvals, thread>>
stores == <<task, run, saved, results, executed, asked, approvals>>

Threads == Runs \cup Approvers

RunStatuses == {"absent", "created", "running", "waiting_input",
                "waiting_approval", "completed", "failed"}

ResultStatuses == {"succeeded", "failed", "pending"}

NoRun    == "none"
NoCall   == [tool |-> "none"]
NoResult == "none"

\* A call as a decision makes it: the tool, with its arguments, and the idempotency key
\* the model gave, if it gave one.
Calls == [tool : Tools, given : SuppliedKeys \cup {Ungiven}]

At(pc) == [pc |-> pc, run |-> NoRun, step |-> 0, attempt |-> 0, calls |-> <<>>,
           call |-> NoCall, result |-> NoResult]

CoordinatorInit ==
  /\ task      = "created"
  /\ run       = [r \in Runs |-> [status |-> "absent", stepCount |-> 0, toolCallCount |-> 0]]
  /\ saved     = [k \in SuppliedKeys |-> NoCall]
  /\ results   = [r \in Runs |-> <<>>]
  /\ executed  = [r \in Runs |-> <<>>]
  /\ asked     = {}
  /\ approvals = 0
  /\ thread    = [h \in Threads |-> At("idle")]

-----------------------------------------------------------------------------
(***************************************************************************)
(* The calls a step is made of.                                            *)
(***************************************************************************)
\* The places where a goroutine still has the calls of its decision, and those where it
\* still has a step; the locals it has no more use for are gone.
InCalls == {"invoke", "tool_waiting", "tool_completed", "result"}
InStep  == {"complete", "ask", "errorFail", "approvalRequired"}

MoveTo(h, pc) ==
  thread' = [thread EXCEPT ![h] =
               CASE pc = "done"     -> At(pc)
                 [] pc \in InCalls -> [@ EXCEPT !.pc = pc, !.call = NoCall]
                 [] pc \in InStep  -> [At(pc) EXCEPT !.run = thread[h].run, !.step = thread[h].step]
                 [] OTHER          -> [At(pc) EXCEPT !.run = thread[h].run]]

\* Tasks.ApplyCommand: the command is committed, and then the reload or the
\* audit record may still fail; or it is refused, loses the race or fails.
ApplyCommand(h, command, ok, err) ==
  \/ \E row \in Apply(task, command) : task' = row.to /\ (MoveTo(h, ok) \/ MoveTo(h, err))
  \/ UNCHANGED task /\ MoveTo(h, err)

\* Runs.Mark*: whatever the status was, it is overwritten.
Mark(h, status, ok, err) ==
  \/ /\ run' = [run EXCEPT ![thread[h].run].status = status]
     /\ MoveTo(h, ok) \/ MoveTo(h, err)
  \/ UNCHANGED run /\ MoveTo(h, err)

\* The row of tool_calls for the call in turn.
NewCall(h) ==
  LET call == Head(thread[h].calls)
  IN  [run |-> thread[h].run, step |-> thread[h].step, tool |-> call.tool, given |-> call.given]

\* ToolRepo.SaveCall: the row stored under the key of the call.  A key the server derives
\* (toolCallIdempotencyKey) is a hash of run, step, tool and arguments, so that the row is
\* the call itself; under a supplied key it is the first call that gave it.
CallRow(h) ==
  LET row == NewCall(h)
  IN  IF row.given = Ungiven \/ saved[row.given] = NoCall THEN row ELSE saved[row.given]

SaveCall(h) ==
  saved' = IF NewCall(h).given = Ungiven THEN saved ELSE [saved EXCEPT ![NewCall(h).given] = CallRow(h)]

\* ToolRepo.SaveResult keeps one result per call: a later one replaces it and is the
\* newest of the run.
SaveResult(h, next, err) ==
  LET call == thread[h].call IN
  \/ /\ results' = [results EXCEPT ![call.run] = Append(@, [key |-> call, status |-> thread[h].result])]
     /\ \E pc \in next \cup {err} : MoveTo(h, pc)
  \/ UNCHANGED results /\ MoveTo(h, err)

Replaced(r, i) == \E j \in DOMAIN results[r] : j > i /\ results[r][j].key = results[r][i].key

\* GetResultByCall: the status of the call's result; empty if it has none.
ResultOf(row) ==
  { results[row.run][i].status : i \in { j \in DOMAIN results[row.run] :
                                           results[row.run][j].key = row /\ ~Replaced(row.run, j) } }

\* ToolRuntime.Invoke: the statuses of a call that does not reach the executor
\* (availability, arguments, policy, credentials) and of one that does.
\* "failed" stands for failed and denied, which are handled alike.
Unexecuted(tool, approved) ==
  {"failed"} \cup (IF tool \in Gated /\ ~approved THEN {"pending"} ELSE {})

\* Mutant: the policy's answer is not waited for.
ExecutedUnapproved(tool, approved) == {"succeeded", "failed"}

Executed(tool, approved) ==
  IF tool \in Gated /\ ~approved THEN {} ELSE {"succeeded", "failed"}

\* ToolRuntime.Invoke of a stored call: h goes on with its result, or with an error.
Invoke(h, row, approved, ok, err) ==
  LET Returns(status) ==
        thread' = [thread EXCEPT ![h] = [@ EXCEPT !.pc = ok, !.call = row, !.result = status]]
  IN
  \/ \E status \in Unexecuted(row.tool, approved) : UNCHANGED executed /\ Returns(status)
  \/ \E status \in Executed(row.tool, approved) :
       /\ executed' = [executed EXCEPT ![thread[h].run] = Append(@, row)]
       /\ Returns(status)
  \/ UNCHANGED executed /\ MoveTo(h, err)

-----------------------------------------------------------------------------
(***************************************************************************)
(* ExecutePreparedRun                                                      *)
(***************************************************************************)

\* PrepareEnvelopeRun: Runs.Create, then recordPreparedInputFacts, which may
\* fail and leave the run behind.
Prepare(r) ==
  /\ thread[r].pc = "idle"
  /\ run' = [run EXCEPT ![r].status = "created"]
  /\ \E pc \in {"accept", "done"} :
       thread' = [thread EXCEPT ![r] = [@ EXCEPT !.pc = pc, !.run = r]]
  /\ UNCHANGED <<task, saved, results, executed, asked, approvals>>

\* Mutant: a refused command is taken to mean that the task was started before.
StartTaskLenient(h) ==
  /\ \/ thread[h].pc = "accept" /\ ApplyCommand(h, "accept", "plan_started", "plan_started")
     \/ thread[h].pc = "plan_started" /\ ApplyCommand(h, "plan_started", "run_started", "run_started")
     \/ thread[h].pc = "run_started" /\ ApplyCommand(h, "run_started", "markRunning", "markRunning")
  /\ UNCHANGED <<run, saved, results, executed, asked, approvals>>

\* The three commands that take a created task to running; an error ends the
\* call with the run still "created".
StartTask(h) ==
  /\ \/ thread[h].pc = "accept" /\ ApplyCommand(h, "accept", "plan_started", "done")
     \/ thread[h].pc = "plan_started" /\ ApplyCommand(h, "plan_started", "run_started", "done")
     \/ thread[h].pc = "run_started" /\ ApplyCommand(h, "run_started", "markRunning", "done")
  /\ UNCHANGED <<run, saved, results, executed, asked, approvals>>

MarkRunning(h) ==
  /\ thread[h].pc = "markRunning"
  /\ Mark(h, "running", "loop", "done")
  /\ UNCHANGED <<task, saved, results, executed, asked, approvals>>

\* The error handler of ExecutePreparedRun and ResumeRun: both outcomes of both
\* calls are ignored.
MarkFailed(h) ==
  /\ thread[h].pc = "fail"
  /\ Mark(h, "failed", "failTask", "failTask")
  /\ UNCHANGED <<task, saved, results, executed, asked, approvals>>

FailTask(h) ==
  /\ thread[h].pc = "failTask"
  /\ ApplyCommand(h, "fail", "done", "done")
  /\ UNCHANGED <<run, saved, results, executed, asked, approvals>>

-----------------------------------------------------------------------------
(***************************************************************************)
(* loop and step                                                           *)
(***************************************************************************)

\* The head of loop: the run is read, the limits are checked.
Loop(h) ==
  /\ thread[h].pc = "loop"
  /\ \/ run[thread[h].run].stepCount < MaxSteps /\ MoveTo(h, "step")
     \/ MoveTo(h, "fail")             \* a limit is exceeded or the read fails
  /\ UNCHANGED stores

\* Mutant: the count IncrementStep returns is not checked again.
IncrementStepUnchecked(h) ==
  LET n == run[thread[h].run].stepCount + 1 IN
  /\ thread[h].pc = "step"
  /\ run' = [run EXCEPT ![thread[h].run].stepCount = n]
  /\ \/ MoveTo(h, "fail")
     \/ thread' = [thread EXCEPT ![h] = [@ EXCEPT !.pc = "model", !.step = n]]
  /\ UNCHANGED <<task, saved, results, executed, asked, approvals>>

\* step: IncrementStep returns the new count, which is checked again; then the
\* context is collected and the prompt built, which may fail.
IncrementStep(h) ==
  LET r == thread[h].run
      n == run[r].stepCount + 1
  IN
  /\ thread[h].pc = "step"
  /\ run' = [run EXCEPT ![r].stepCount = n]
  /\ \/ MoveTo(h, "fail")
     \/ n <= MaxSteps /\ thread' = [thread EXCEPT ![h] = [@ EXCEPT !.pc = "model", !.step = n]]
  /\ UNCHANGED <<task, saved, results, executed, asked, approvals>>

\* Mutant: the attempts start over when they run out.
ModelDecisionForever(h) ==
  /\ thread[h].pc = "model"
  /\ \/ thread' = [thread EXCEPT ![h].attempt = IF @ < MaxRepairs THEN @ + 1 ELSE 0]
     \/ MoveTo(h, "fail")
  /\ UNCHANGED stores

\* modelDecision: an unusable answer is sent back for repair while attempts
\* last; a usable one is dispatched.
ModelDecision(h) ==
  /\ thread[h].pc = "model"
  /\ \/ /\ thread[h].attempt < MaxRepairs
        /\ thread' = [thread EXCEPT ![h].attempt = @ + 1]
     \/ MoveTo(h, "fail")
     \/ \E pc \in {"complete", "ask", "errorFail"} : MoveTo(h, pc)
     \/ \E n \in 1..MaxCalls : \E calls \in [1..n -> Calls] :
          thread' = [thread EXCEPT ![h] = [@ EXCEPT !.pc = "tool", !.calls = calls]]
  /\ UNCHANGED stores

-----------------------------------------------------------------------------
(***************************************************************************)
(* dispatch                                                                *)
(***************************************************************************)

\* Mutant: the run is marked although the task was not completed.
CompleteAnyway(h) ==
  /\ thread[h].pc = "complete"
  /\ ApplyCommand(h, "complete", "markCompleted", "markCompleted")
  /\ UNCHANGED <<run, saved, results, executed, asked, approvals>>

\* reply, no_op and unsupported: the task first, then the run.
Complete(h) ==
  /\ thread[h].pc = "complete"
  /\ ApplyCommand(h, "complete", "markCompleted", "fail")
  /\ UNCHANGED <<run, saved, results, executed, asked, approvals>>

MarkCompleted(h) ==
  /\ thread[h].pc = "markCompleted"
  /\ Mark(h, "completed", "done", "fail")
  /\ UNCHANGED <<task, saved, results, executed, asked, approvals>>

AskClarification(h) ==
  /\ thread[h].pc = "ask"
  /\ ApplyCommand(h, "ask_clarification", "markWaitingInput", "fail")
  /\ UNCHANGED <<run, saved, results, executed, asked, approvals>>

MarkWaitingInput(h) ==
  /\ thread[h].pc = "markWaitingInput"
  /\ Mark(h, "waiting_input", "done", "fail")
  /\ UNCHANGED <<task, saved, results, executed, asked, approvals>>

\* A decision of type error fails the task and the run here, and the handler
\* above fails both again.
DispatchError(h) ==
  /\ \/ /\ thread[h].pc = "errorFail"
        /\ ApplyCommand(h, "fail", "errorMarkFailed", "errorMarkFailed")
        /\ UNCHANGED run
     \/ /\ thread[h].pc = "errorMarkFailed"
        /\ Mark(h, "failed", "fail", "fail")
        /\ UNCHANGED task
  /\ UNCHANGED <<saved, results, executed, asked, approvals>>

\* Mutant: the limit is compared with the count before the call.
ToolCallLate(h) ==
  LET r == thread[h].run
      n == run[r].toolCallCount
  IN
  /\ thread[h].pc = "tool"
  /\ run' = [run EXCEPT ![r].toolCallCount = n + 1]
  /\ MoveTo(h, IF MaxToolCalls > 0 /\ n > MaxToolCalls THEN "errorMarkFailed" ELSE "invoke")
  /\ UNCHANGED <<task, saved, results, executed, asked, approvals>>

\* dispatchToolCalls, the head of its loop: a disabled tool or a call over the
\* limit fails the run; the count is written before it is compared.
ToolCall(h) ==
  LET r == thread[h].run
      n == run[r].toolCallCount + 1
  IN
  /\ thread[h].pc = "tool"
  /\ \/ UNCHANGED run /\ \E pc \in {"errorMarkFailed", "fail"} : MoveTo(h, pc)
     \/ /\ run' = [run EXCEPT ![r].toolCallCount = n]
        /\ MoveTo(h, IF MaxToolCalls > 0 /\ n > MaxToolCalls THEN "errorMarkFailed" ELSE "invoke")
  /\ UNCHANGED <<task, saved, results, executed, asked, approvals>>

\* The next call of the decision; after the last the loop goes round.
NextCall(h) ==
  IF Len(thread[h].calls) = 1
  THEN MoveTo(h, "loop")
  ELSE thread' = [thread EXCEPT ![h] = [@ EXCEPT !.pc = "tool", !.calls = Tail(thread[h].calls),
                                                 !.call = NoCall, !.result = NoResult]]

\* Where a result leads.  A failure may be let pass or stop the run
\* (shouldContinueAfterToolFailure): the policy counts the failures in a row, but
\* a count that cannot be read is taken as zero, so neither can be ruled out.
AfterResult ==
  [ status \in ResultStatuses |->
      CASE status = "pending"   -> {"approvalRequired"}
        [] status = "succeeded" -> {"tool_waiting"}
        [] status = "failed"    -> {"toolMarkFailed", "tool_waiting"} ]

\* Mutant: a call that has a result is invoked again.
ToolInvokeAgain(h) ==
  /\ thread[h].pc = "invoke"
  /\ SaveCall(h) /\ Invoke(h, CallRow(h), FALSE, "saveResult", "fail")
  /\ UNCHANGED <<task, run, results, asked, approvals>>

\* SaveCall, and for a call that was stored before, GetResultByCall: what has a result is
\* not invoked again.  The row does not change once it is stored, and no other goroutine
\* sees that a tool is being executed, so the three calls are one step.
ToolInvoke(h) ==
  LET known == ResultOf(CallRow(h)) IN
  /\ thread[h].pc = "invoke"
  /\ \/ UNCHANGED <<saved, executed>> /\ MoveTo(h, "fail")
     \/ /\ SaveCall(h) /\ known = {}
        /\ Invoke(h, CallRow(h), FALSE, "saveResult", "fail")
     \/ /\ SaveCall(h) /\ known # {}
        /\ UNCHANGED executed
        /\ IF "pending" \in known
           THEN MoveTo(h, "markWaitingApproval")
           ELSE NextCall(h)
  /\ UNCHANGED <<task, run, results, asked, approvals>>

ToolSaveResult(h) ==
  /\ thread[h].pc = "saveResult"
  /\ SaveResult(h, AfterResult[thread[h].result], "fail")
  /\ UNCHANGED <<task, run, saved, executed, asked, approvals>>

\* A failure the repair policy does not let pass.
ToolFailed(h) ==
  /\ \/ /\ thread[h].pc = "toolMarkFailed"
        /\ Mark(h, "failed", "toolFailTask", "fail")
        /\ UNCHANGED task
     \/ /\ thread[h].pc = "toolFailTask"
        /\ ApplyCommand(h, "fail", "fail", "fail")
        /\ UNCHANGED run
  /\ UNCHANGED <<saved, results, executed, asked, approvals>>

\* A pending result: the event names the run, which is how an approver finds it.
ApprovalRequired(h) ==
  /\ thread[h].pc = "approvalRequired"
  /\ ApplyCommand(h, "approval_required", "markWaitingApproval", "fail")
  /\ asked' = IF task' = task THEN asked ELSE asked \cup {thread[h].run}
  /\ UNCHANGED <<run, saved, results, executed, approvals>>

MarkWaitingApproval(h) ==
  /\ thread[h].pc = "markWaitingApproval"
  /\ Mark(h, "waiting_approval", "done", "fail")
  /\ UNCHANGED <<task, saved, results, executed, asked, approvals>>

ToolWaiting(h) ==
  /\ thread[h].pc = "tool_waiting"
  /\ ApplyCommand(h, "tool_waiting", "tool_completed", "fail")
  /\ UNCHANGED <<run, saved, results, executed, asked, approvals>>

ToolCompleted(h) ==
  /\ thread[h].pc = "tool_completed"
  /\ ApplyCommand(h, "tool_completed", "result", "fail")
  /\ UNCHANGED <<run, saved, results, executed, asked, approvals>>

\* finalDecisionFromToolResult: a tool that succeeded may carry the decision
\* that ends the run (never a tool_call), or a malformed one.
ToolResult(h) ==
  /\ thread[h].pc = "result"
  /\ \/ /\ thread[h].result = "succeeded"
        /\ \E pc \in {"complete", "ask", "errorFail", "fail"} : MoveTo(h, pc)
     \/ NextCall(h)
  /\ UNCHANGED stores

-----------------------------------------------------------------------------
(***************************************************************************)
(* approveTaskAction                                                       *)
(***************************************************************************)
Approve(a) ==
  /\ thread[a].pc = "idle"
  /\ ApplyCommand(a, "approve_action", "find", "done")
  /\ approvals' = IF task' = task THEN approvals ELSE approvals + 1
  /\ UNCHANGED <<run, saved, results, executed, asked>>

Pending(r) == { i \in DOMAIN results[r] : results[r][i].status = "pending" /\ ~Replaced(r, i) }

\* latestPendingApprovalTool: the newest pending result of a run that asked.
FindPending(a) ==
  /\ thread[a].pc = "find"
  /\ \/ \E r \in asked : \E i \in Pending(r) :
          /\ \A j \in Pending(r) : j <= i
          /\ thread' = [thread EXCEPT ![a] = [@ EXCEPT !.pc = "approvedInvoke", !.run = r,
                                                       !.call = results[r][i].key]]
     \/ MoveTo(a, "done")           \* none is left, or a read fails
  /\ UNCHANGED stores

ApprovedInvoke(a) ==
  /\ thread[a].pc = "approvedInvoke"
  /\ Invoke(a, thread[a].call, TRUE, "approvedSave", "done")
  /\ UNCHANGED <<task, run, saved, results, asked, approvals>>

ApprovedSaveResult(a) ==
  /\ thread[a].pc = "approvedSave"
  /\ SaveResult(a, {"approvedToolWaiting"}, "done")
  /\ UNCHANGED <<task, run, saved, executed, asked, approvals>>

ApprovedToolEvents(a) ==
  /\ \/ /\ thread[a].pc = "approvedToolWaiting"
        /\ ApplyCommand(a, "tool_waiting", "approvedToolCompleted", "done")
     \/ /\ thread[a].pc = "approvedToolCompleted"
        /\ ApplyCommand(a, "tool_completed", "markRunning", "done")
  /\ UNCHANGED <<run, saved, results, executed, asked, approvals>>

-----------------------------------------------------------------------------
\* Any other task.command, sent by a user at any moment.
UserCommand(command) ==
  /\ \E row \in Apply(task, command) : task' = row.to
  /\ UNCHANGED <<run, saved, results, executed, asked, approvals, thread>>

\* The request's context is cancelled or the process dies: h does no more.
Stop(h) ==
  /\ thread[h].pc \notin {"idle", "done"}
  /\ MoveTo(h, "done")
  /\ UNCHANGED stores

Drive(h) ==
  \/ StartTask(h)        \/ MarkRunning(h)       \/ MarkFailed(h)       \/ FailTask(h)
  \/ Loop(h)             \/ IncrementStep(h)     \/ ModelDecision(h)
  \/ Complete(h)         \/ MarkCompleted(h)     \/ AskClarification(h) \/ MarkWaitingInput(h)
  \/ DispatchError(h)    \/ ToolCall(h)          \/ ToolInvoke(h)       \/ ToolSaveResult(h)
  \/ ToolFailed(h)       \/ ApprovalRequired(h)  \/ MarkWaitingApproval(h)
  \/ ToolWaiting(h)      \/ ToolCompleted(h)     \/ ToolResult(h)

ApproverStep(a) ==
  FindPending(a) \/ ApprovedInvoke(a) \/ ApprovedSaveResult(a) \/ ApprovedToolEvents(a)

CoordinatorNext ==
  \/ \E r \in Runs : Prepare(r)
  \/ \E h \in Threads : Drive(h)
  \/ \E a \in Approvers : Approve(a)
  \/ \E a \in Approvers : ApproverStep(a)
  \/ \E command \in TaskCommands \ {"approve_action"} : UserCommand(command)
  \/ \E h \in Threads : Stop(h)

CoordinatorSpec == CoordinatorInit /\ [][CoordinatorNext]_coordinatorVars

-----------------------------------------------------------------------------
CallRows == [run : Runs, step : Nat \ {0}, tool : Tools, given : SuppliedKeys \cup {Ungiven}]

PCs == {"idle", "accept", "plan_started", "run_started", "markRunning", "fail", "failTask",
        "loop", "step", "model", "complete", "markCompleted", "ask", "markWaitingInput",
        "errorFail", "errorMarkFailed", "tool", "invoke", "saveResult", "toolMarkFailed",
        "toolFailTask", "approvalRequired", "markWaitingApproval", "tool_waiting",
        "tool_completed", "result", "find", "approvedInvoke", "approvedSave", "approvedToolWaiting",
         "approvedToolCompleted", "done"}

RunRows == [status : RunStatuses, stepCount : Nat, toolCallCount : Nat]

ThreadStates == [pc : PCs, run : Runs \cup {NoRun}, step : Nat,
                 attempt : 0..MaxRepairs, calls : Seq(Calls),
                 call : CallRows \cup {NoCall}, result : ResultStatuses \cup {NoResult}]

(***************************************************************************)
(* Types of the stores and of the goroutines.                              *)
(***************************************************************************)
CoordinatorTypeOK ==
  /\ task \in TaskStatuses
  /\ run \in [Runs -> RunRows]
  /\ saved \in [SuppliedKeys -> CallRows \cup {NoCall}]
  /\ results \in [Runs -> Seq([key : CallRows, status : ResultStatuses])]
  /\ executed \in [Runs -> Seq(CallRows)]
  /\ asked \subseteq Runs
  /\ approvals \in Nat
  /\ thread \in [Threads -> ThreadStates]

(***************************************************************************)
(* A tool whose policy asks for an approval is executed no more often than *)
(* somebody approved, however users, approvers and resumed runs interleave *)
(* (coordinator.go dispatchToolCalls, commands_tasks.go approveTaskAction).*)
(***************************************************************************)
GatedExecutions ==
  { x \in UNION { {r} \X DOMAIN executed[r] : r \in Runs } : executed[x[1]][x[2]].tool \in Gated }

GatedNeedsApproval == Cardinality(GatedExecutions) <= approvals

(***************************************************************************)
(* A call that needs no approval, and that the decision gave no key, is    *)
(* executed at most once, however the calls of a step repeat it, their     *)
(* results fail to be saved and goroutines drive the run side by side: the *)
(* server's key tells it from the calls of every other step and run        *)
(* (coordinator.go toolCallIdempotencyKey, SaveCall).  It is not so for a  *)
(* key the decision gives: two goroutines of a run that are given one key  *)
(* both find no result under it and both execute the call.                 *)
(***************************************************************************)
ExecutedOnce ==
  \A r, q \in Runs : \A i \in DOMAIN executed[r], j \in DOMAIN executed[q] :
    executed[r][i] = executed[q][j] /\ executed[r][i].tool \notin Gated
      /\ executed[r][i].given = Ungiven => r = q /\ i = j

(***************************************************************************)
(* A run marked completed belongs to a completed task: the run is never    *)
(* marked when the task refused to complete (coordinator.go dispatch).     *)
(***************************************************************************)
CompletedTogether ==
  \A r \in Runs : run[r].status = "completed" => task = "completed"

(***************************************************************************)
(* Only one run of a task ever gets past acceptance, however many are      *)
(* prepared for it: the others end with an error and stay "created"        *)
(* (coordinator.go ExecutePreparedRun).                                    *)
(***************************************************************************)
OneRunAccepted ==
  \A r, s \in Runs :
    {run[r].status, run[s].status} \cap {"absent", "created"} = {} => r = s

(***************************************************************************)
(* The step limit holds for what the model is asked, also when two         *)
(* goroutines drive the run and both passed loop's check: no step beyond   *)
(* the limit reaches the model or a tool, and no two share a number        *)
(* (coordinator.go loop and step).                                         *)
(***************************************************************************)
DecidingPCs == {"model", "complete", "ask", "errorFail", "tool", "invoke", "saveResult",
                "tool_waiting", "tool_completed", "result", "approvalRequired"}

Deciding(h) == thread[h].pc \in DecidingPCs

StepLimit ==
  \A h, g \in Threads :
    Deciding(h) =>
      /\ thread[h].step <= MaxSteps
      /\ (Deciding(g) /\ thread[g].run = thread[h].run /\ thread[g].step = thread[h].step => g = h)

(***************************************************************************)
(* The calls a run makes on its own, approved ones apart, never exceed the *)
(* tool call limit (coordinator.go dispatchToolCalls).                     *)
(***************************************************************************)
ToolCallLimit ==
  MaxToolCalls > 0 => \A r \in Runs : Len(executed[r]) <= MaxToolCalls + approvals

(***************************************************************************)
(* Every goroutine that starts comes to an end: no bad prompt or tool      *)
(* keeps a run looping.  It needs only that a goroutine keeps being        *)
(* scheduled until it returns.                                             *)
(***************************************************************************)
Fairness == \A h \in Threads : WF_coordinatorVars(Drive(h)) /\ (h \in Approvers => WF_coordinatorVars(ApproverStep(h)))

FairSpec == CoordinatorSpec /\ Fairness

ThreadsEnd == \A h \in Threads : thread[h].pc # "idle" ~> thread[h].pc = "done"

(***************************************************************************)
(* A run whose task is already cancelled when the loop comes round starts  *)
(* no further step: "Task cancelled" is one of the loop's termination      *)
(* conditions in the implementation specification.                         *)
(***************************************************************************)
CancelStops ==
  [][\A h \in Threads :
       thread[h].pc = "loop" /\ task = "cancelled" => thread'[h].pc # "step"]_coordinatorVars
=============================================================================
