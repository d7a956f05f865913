----------------------------- MODULE ToolInvoke -----------------------------
(***************************************************************************)
(* The tools.invoke command: internal/server/commands_tool_artifacts.go    *)
(* externalToolInvoke and internal/tool/invoke over the tool repository    *)
(* (calls and results by idempotency key) and the approval service         *)
(* (internal/governance/approval), with the optimizer's approval.approve   *)
(* and approval.reject.                                                    *)
(*                                                                         *)
(* Nothing is locked between a handler's calls: two requests with one key, *)
(* such as a client's retry while the first is still running, interleave   *)
(* at every step.  The key is the client's Idempotency-Key header as it    *)
(* comes, or else derived from the tool and its arguments: requests for    *)
(* different tools can carry one key, and the call stored first under it   *)
(* is the one invoked.                                                     *)
(***************************************************************************)
EXTENDS Naturals, FiniteSets

CONSTANTS
  Requests,     \* requests handled
  InvokeTools,  \* tools, each with its arguments
  GatedTools,   \* the tools that need an approval
  Keys,         \* idempotency keys
  ApprovalIDs   \* approvals that can be requested (bound, model checking only)

NoKey == "none"
NoTool == "none"
NoApproval == "none"

ASSUME ToolInvokeAssumption ==
  GatedTools \subseteq InvokeTools /\ NoTool \notin InvokeTools /\ NoApproval \notin ApprovalIDs

VARIABLES
  calls,      \* calls[k]: the tool of the call stored under the key k, NoTool without
  results,    \* results[k]: status of the stored result, "none" without
  executions, \* history: the calls that reached the executor, and for whom
  approvals,  \* approvals[id]: status and tool, "absent" before Request
  request     \* request[q]: the handler's locals

invokeVars == <<calls, results, executions, approvals, request>>

Approval(status, t) == [status |-> status, tool |-> t]

\* A request without locals: before it arrives and after it returned.
At(pc) == [pc |-> pc, tool |-> NoTool, key |-> NoKey, approval |-> NoApproval,
           seen |-> "none", result |-> "none"]

InvokeInit ==
  /\ calls      = [k \in Keys |-> NoTool]
  /\ results    = [k \in Keys |-> "none"]
  /\ executions = {}
  /\ approvals  = [id \in ApprovalIDs |-> Approval("absent", NoTool)]
  /\ request    = [q \in Requests |-> At("idle")]

Goto(q, pc) == request' = [request EXCEPT ![q].pc = pc]
Return(q) == request' = [request EXCEPT ![q] = At("done")]

\* A request for the tool t arrives, with any key.  seen is the result stored for the key
\* at that moment; the code has no such variable, the properties refer to it.
Arrive(q, t, k, id) ==
  /\ request[q].pc = "idle"
  /\ request' = [request EXCEPT ![q] =
                   [pc |-> IF id = NoApproval THEN "check" ELSE "consume", tool |-> t, key |-> k,
                    approval |-> id, seen |-> results[k], result |-> "none"]]
  /\ UNCHANGED <<calls, results, executions, approvals>>

\* Mutant: the approval is validated and not marked used.
ConsumeNotUsed(q) ==
  LET id == request[q].approval IN
  /\ request[q].pc = "consume"
  /\ IF approvals[id] = Approval("approved", request[q].tool)
     THEN Goto(q, "check")
     ELSE Return(q)
  /\ UNCHANGED <<calls, results, executions, approvals>>

\* Approvals.Consume: validated (approved, for the tool the request names) and marked
\* used under one lock, before anything else is known about the request.
Consume(q) ==
  LET id == request[q].approval
      ok == approvals[id] = Approval("approved", request[q].tool)
  IN
  /\ request[q].pc = "consume"
  /\ \/ /\ ok
        /\ approvals' = [approvals EXCEPT ![id].status = "used"]
        /\ Goto(q, "check")
     \/ ~ok /\ Return(q) /\ UNCHANGED approvals
  /\ UNCHANGED <<calls, results, executions>>

\* Past Consume, a request with an approval has been granted it.
Granted(q) == request[q].approval # NoApproval

\* The release switches, the agent and its exposed tools: any of them refuses the tool
\* the request names.
Check(q) ==
  /\ request[q].pc = "check"
  /\ Goto(q, "save") \/ Return(q)
  /\ UNCHANGED <<calls, results, executions, approvals>>

\* The calls after the request's call was inserted under its key, which is unique.
Inserted(q) ==
  LET k == request[q].key IN
  IF calls[k] = NoTool THEN [calls EXCEPT ![k] = request[q].tool] ELSE calls

\* Mutant: a duplicate is not recognised.
SaveCallAgain(q) ==
  /\ request[q].pc = "save"
  /\ calls' = Inserted(q)
  /\ Goto(q, "invoke")
  /\ UNCHANGED <<results, executions, approvals>>

\* ToolRepo.SaveCall: the unique key decides who is the duplicate, which goes on with the
\* call that is stored.
SaveCall(q) ==
  /\ request[q].pc = "save"
  /\ calls' = Inserted(q)
  /\ Goto(q, IF calls[request[q].key] = NoTool THEN "invoke" ELSE "lookup")
  /\ UNCHANGED <<results, executions, approvals>>

\* The duplicate's GetResultByCall: a result is returned, but a pending one is
\* invoked again with an approval; without a result the call is invoked again.
Lookup(q) ==
  LET r == request[q]
      s == results[r.key]
  IN
  /\ r.pc = "lookup"
  /\ IF s = "none" \/ (s = "pending" /\ Granted(q)) THEN Goto(q, "invoke")
     ELSE IF s = "pending" THEN Goto(q, "requestApproval")
     ELSE Return(q)
  /\ UNCHANGED <<calls, results, executions, approvals>>

\* ToolRuntime.Invoke of the stored call: refused or waiting without the executor, or
\* executed; or an error.
Invoke(q) ==
  LET r == request[q]
      tool == calls[r.key]
      gated == tool \in GatedTools /\ ~Granted(q)
  IN
  /\ r.pc = "invoke"
  /\ \/ \E s \in {"failed"} \cup (IF gated THEN {"pending"} ELSE {}) :
          /\ request' = [request EXCEPT ![q] = [@ EXCEPT !.pc = "saveResult", !.result = s]]
          /\ UNCHANGED executions
     \/ \E s \in {"succeeded", "failed"} :
          /\ ~gated
          /\ executions' = executions \cup
               {[request |-> q, named |-> r.tool, tool |-> tool, approval |-> r.approval]}
          /\ request' = [request EXCEPT ![q] = [@ EXCEPT !.pc = "saveResult", !.result = s]]
     \/ Return(q) /\ UNCHANGED executions
  /\ UNCHANGED <<calls, results, approvals>>

\* ToolRepo.SaveResult overwrites what is stored for the call.
SaveResult(q) ==
  LET r == request[q] IN
  /\ r.pc = "saveResult"
  /\ results' = [results EXCEPT ![r.key] = r.result]
  /\ IF r.result = "pending" THEN Goto(q, "requestApproval") ELSE Return(q)
  /\ UNCHANGED <<calls, executions, approvals>>

\* requestToolInvokeApproval: each pending answer makes a new approval, for the tool the
\* request names.
RequestApproval(q) ==
  /\ request[q].pc = "requestApproval"
  /\ \E id \in ApprovalIDs :
       /\ approvals[id].status = "absent"
       /\ approvals' = [approvals EXCEPT ![id] = Approval("pending", request[q].tool)]
  /\ Return(q)
  /\ UNCHANGED <<calls, results, executions>>

\* approval.approve and approval.reject.
Resolve(id, status) ==
  /\ approvals[id].status = "pending"
  /\ approvals' = [approvals EXCEPT ![id].status = status]
  /\ UNCHANGED <<calls, results, executions, request>>

\* The request is cancelled, or a store call fails: the handler returns.
Abort(q) ==
  /\ request[q].pc \notin {"idle", "done"}
  /\ Return(q)
  /\ UNCHANGED <<calls, results, executions, approvals>>

Handle(q) ==
  \/ Consume(q) \/ Check(q) \/ SaveCall(q) \/ Lookup(q) \/ Invoke(q) \/ SaveResult(q)
  \/ RequestApproval(q)

InvokeNext ==
  \/ \E q \in Requests, t \in InvokeTools, k \in Keys, id \in ApprovalIDs \cup {NoApproval} :
       Arrive(q, t, k, id)
  \/ \E q \in Requests : Handle(q)
  \/ \E id \in ApprovalIDs, status \in {"approved", "rejected"} : Resolve(id, status)
  \/ \E q \in Requests : Abort(q)

InvokeSpec == InvokeInit /\ [][InvokeNext]_invokeVars

-----------------------------------------------------------------------------
ResultStatuses == {"none", "pending", "succeeded", "failed"}

RequestPCs == {"idle", "consume", "check", "save", "lookup", "invoke", "saveResult",
               "requestApproval", "done"}

RequestStates == [pc : RequestPCs, tool : InvokeTools \cup {NoTool}, key : Keys \cup {NoKey},
                  approval : ApprovalIDs \cup {NoApproval},
                  seen : ResultStatuses, result : ResultStatuses]

ApprovalStates == [status : {"absent", "pending", "approved", "rejected", "used"},
                   tool : InvokeTools \cup {NoTool}]

Executions == [request : Requests, named : InvokeTools, tool : InvokeTools,
               approval : ApprovalIDs \cup {NoApproval}]

(***************************************************************************)
(* Types of the stores and of the handlers' locals: a request on its way   *)
(* has a tool and a key, one that consumes an approval names it, a result  *)
(* is there when it is saved.                                              *)
(***************************************************************************)
InvokeTypeOK ==
  /\ calls \in [Keys -> InvokeTools \cup {NoTool}]
  /\ results \in [Keys -> ResultStatuses]
  /\ executions \subseteq Executions
  /\ approvals \in [ApprovalIDs -> ApprovalStates]
  /\ request \in [Requests -> RequestStates]
  /\ \A q \in Requests :
       /\ request[q].pc \notin {"idle", "done"} => request[q].key \in Keys /\ request[q].tool \in InvokeTools
       /\ request[q].pc = "consume" => request[q].approval \in ApprovalIDs
       /\ request[q].pc = "saveResult" => request[q].result # "none"
       /\ request[q].pc = "requestApproval" => request[q].approval = NoApproval

(***************************************************************************)
(* Each execution of a tool that needs an approval has used up an approval *)
(* of its own, given for the tool its request named, whatever retries and  *)
(* duplicates race for it and whichever call is stored under its key       *)
(* (approval/service.go Consume, invoke/service.go Invoke).  The tool      *)
(* executed is the one of the stored call, which may be another one.       *)
(***************************************************************************)
GatedExecutions == { x \in executions : x.tool \in GatedTools }

GatedNeedsApproval ==
  /\ \A x \in GatedExecutions :
       x.approval # NoApproval /\ approvals[x.approval] = Approval("used", x.named)
  /\ \A x, y \in GatedExecutions : x.approval = y.approval => x = y

(***************************************************************************)
(* A repeated request is answered from the stored result: a call that has  *)
(* a result when the request arrives is not executed for it again, whoever *)
(* else works on the same key (invoke/service.go Invoke).  A call to a     *)
(* gated tool can be waiting for its approval instead.                     *)
(***************************************************************************)
ReplayReturnsResult ==
  \A q \in Requests :
    request[q].pc \in {"invoke", "saveResult"} /\ calls[request[q].key] \notin GatedTools
      => request[q].seen = "none"

(***************************************************************************)
(* While a call is being executed, a request with the same key is turned   *)
(* away and not executed too: the implementation specification's answer to *)
(* a duplicate of a call in flight.                                        *)
(***************************************************************************)
InFlightOnce ==
  \A p, q \in Requests :
    /\ request[p].pc \in {"invoke", "saveResult"}
    /\ request[q].pc \in {"invoke", "saveResult"}
    /\ request[p].key = request[q].key
    => p = q
=============================================================================
