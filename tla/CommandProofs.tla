--------------------------- MODULE CommandProofs ---------------------------
(***************************************************************************)
(* Proofs about the commands of clients: ToolInvoke, for any requests,     *)
(* tools, keys and approvals, and PolicyRelease, for any policies and      *)
(* callers.                                                                *)
(***************************************************************************)
EXTENDS ToolInvoke, PolicyRelease, TLAPS

-----------------------------------------------------------------------------
(* tools.invoke                                                            *)

\* The request holds an approval it has not spent on an execution yet.
Holding(r) == r.pc \in {"check", "save", "lookup", "invoke"} /\ r.approval # NoApproval

(***************************************************************************)
(* An approval in use is held by one request, which named its tool, or was *)
(* spent on one execution, and never both.                                 *)
(***************************************************************************)
HeldOnce ==
  /\ \A q \in Requests :
       Holding(request[q]) => approvals[request[q].approval] = Approval("used", request[q].tool)
  /\ \A p, q \in Requests :
       Holding(request[p]) /\ Holding(request[q]) /\ request[p].approval = request[q].approval
         => p = q

Spent == { x \in executions : x.approval # NoApproval }

SpentOnce ==
  /\ \A x \in executions : x.tool \in GatedTools => x.approval # NoApproval
  /\ \A x \in Spent : approvals[x.approval] = Approval("used", x.named)
  /\ \A x, y \in Spent : x.approval = y.approval => x = y
  /\ \A x \in Spent, q \in Requests : Holding(request[q]) => request[q].approval # x.approval

\* A result belongs to a saved call, and only a gated call has a pending one.
ResultsOK ==
  \A k \in Keys :
    /\ results[k] # "none" => calls[k] # NoTool
    /\ results[k] = "pending" => calls[k] \in GatedTools

(***************************************************************************)
(* What a request has seen stays stored, and a plain call is on its way to *)
(* the executor only for a request that has seen nothing.                  *)
(***************************************************************************)
SeenOf(r, c, res) ==
  r.pc \notin {"idle", "done"} =>
    /\ r.seen # "none" => res[r.key] # "none"
    /\ r.pc \in {"lookup", "invoke", "saveResult"} => c[r.key] # NoTool
    /\ r.pc = "saveResult" /\ r.result = "pending" => c[r.key] \in GatedTools /\ r.approval = NoApproval

SeenOK == \A q \in Requests : SeenOf(request[q], calls, results)

Fresh(r, c) ==
  r.pc \in {"invoke", "saveResult"} /\ c[r.key] \notin GatedTools => r.seen = "none"

InvokeInv == InvokeTypeOK /\ HeldOnce /\ SpentOnce /\ ResultsOK /\ SeenOK /\ ReplayReturnsResult

LEMMA RequestFacts ==
  ASSUME InvokeTypeOK, NEW q \in Requests
  PROVE  /\ request[q] \in RequestStates
         /\ request[q].pc \in RequestPCs /\ request[q].seen \in ResultStatuses
         /\ request[q].result \in ResultStatuses
         /\ request[q].approval \in ApprovalIDs \cup {NoApproval}
         /\ request[q].pc \notin {"idle", "done"} =>
              request[q].key \in Keys /\ request[q].tool \in InvokeTools
BY DEF InvokeTypeOK, RequestStates

(***************************************************************************)
(* The request q goes on with the locals s.                                *)
(***************************************************************************)
RequestOK(s) ==
  /\ s \in RequestStates
  /\ s.pc \notin {"idle", "done"} => s.key \in Keys /\ s.tool \in InvokeTools
  /\ s.pc = "consume" => s.approval \in ApprovalIDs
  /\ s.pc = "saveResult" => s.result # "none"
  /\ s.pc = "requestApproval" => s.approval = NoApproval

LEMMA RequestMoves ==
  ASSUME InvokeInv, NEW q \in Requests, NEW s, RequestOK(s),
         request' = [request EXCEPT ![q] = s]
  PROVE  /\ \A p \in Requests : request'[p] = IF p = q THEN s ELSE request[p]
         /\ request' \in [Requests -> RequestStates]
         /\ \A p \in Requests : RequestOK(request'[p])
<1>1. request \in [Requests -> RequestStates] /\ \A p \in Requests : RequestOK(request[p])
  BY DEF InvokeInv, InvokeTypeOK, RequestOK
<1>2. \A p \in Requests : request'[p] = IF p = q THEN s ELSE request[p]
  BY <1>1
<1>3. request' \in [Requests -> RequestStates]
  BY <1>1 DEF RequestOK
<1> QED BY <1>1, <1>2, <1>3

\* Where Goto and Return leave a request.
LEMMA GotoFacts ==
  ASSUME InvokeInv, NEW q \in Requests, NEW pc \in RequestPCs
  PROVE  /\ Goto(q, pc) => request' = [request EXCEPT ![q] = [request[q] EXCEPT !.pc = pc]]
         /\ [request[q] EXCEPT !.pc = pc] \in RequestStates
         /\ [request[q] EXCEPT !.pc = pc].pc = pc
         /\ [request[q] EXCEPT !.pc = pc].tool = request[q].tool
         /\ [request[q] EXCEPT !.pc = pc].key = request[q].key
         /\ [request[q] EXCEPT !.pc = pc].approval = request[q].approval
         /\ [request[q] EXCEPT !.pc = pc].seen = request[q].seen
         /\ [request[q] EXCEPT !.pc = pc].result = request[q].result
<1>1. request \in [Requests -> RequestStates] /\ request[q] \in RequestStates
  BY DEF InvokeInv, InvokeTypeOK
<1> QED BY <1>1 DEF Goto, RequestStates

LEMMA ReturnFacts ==
  /\ RequestOK(At("done")) /\ At("done").pc = "done"
  /\ \A q \in Requests : Return(q) => request' = [request EXCEPT ![q] = At("done")]
BY DEF RequestOK, At, RequestStates, RequestPCs, ResultStatuses, Return

(***************************************************************************)
(* What keeps each part of the invariant.                                  *)
(***************************************************************************)
\* Approvals in use stay as they are and the request takes hold of none.
LEMMA HeldKept ==
  ASSUME InvokeInv, NEW q \in Requests, NEW s, RequestOK(s), request' = [request EXCEPT ![q] = s],
         Holding(s) => Holding(request[q]) /\ s.approval = request[q].approval /\ s.tool = request[q].tool,
         UNCHANGED executions,
         \A id \in ApprovalIDs : approvals[id].status = "used" => approvals'[id] = approvals[id]
  PROVE  HeldOnce' /\ SpentOnce'
<1>1. \A p \in Requests : request'[p] = IF p = q THEN s ELSE request[p]
  BY RequestMoves
<1>2. \A p \in Requests : Holding(request'[p]) =>
        /\ Holding(request[p]) /\ request'[p].approval = request[p].approval
        /\ request'[p].tool = request[p].tool
  BY <1>1
<1>3. \A p \in Requests : Holding(request[p]) => request[p].approval \in ApprovalIDs
  BY RequestFacts DEF InvokeInv, Holding
<1>4. \A t : Approval("used", t).status = "used"
  BY DEF Approval
<1>5. HeldOnce'
  BY <1>2, <1>3, <1>4 DEF InvokeInv, HeldOnce
<1>6. Spent' = Spent /\ \A x \in Spent : x.approval \in ApprovalIDs
  BY DEF Spent, InvokeInv, InvokeTypeOK, Executions
<1>7. SpentOnce'
  BY <1>2, <1>4, <1>6 DEF InvokeInv, SpentOnce
<1> QED BY <1>5, <1>7

LEMMA SeenKept ==
  ASSUME InvokeInv, NEW q \in Requests, NEW s, RequestOK(s), request' = [request EXCEPT ![q] = s],
         \A k \in Keys : calls[k] # NoTool => calls'[k] = calls[k],
         \A k \in Keys : results[k] # "none" => results'[k] # "none",
         SeenOf(s, calls', results'), Fresh(s, calls')
  PROVE  SeenOK' /\ ReplayReturnsResult'
<1>1. \A p \in Requests : request'[p] = IF p = q THEN s ELSE request[p]
  BY RequestMoves
<1>2. ASSUME NEW p \in Requests, p # q
      PROVE  SeenOf(request[p], calls', results') /\ Fresh(request[p], calls')
  <2>1. request[p].pc \notin {"idle", "done"} => request[p].key \in Keys
    BY RequestFacts DEF InvokeInv
  <2>2. SeenOf(request[p], calls, results) /\ Fresh(request[p], calls)
    BY DEF InvokeInv, SeenOK, ReplayReturnsResult, Fresh
  <2> QED BY <2>1, <2>2 DEF SeenOf, Fresh
<1>3. \A p \in Requests : SeenOf(request'[p], calls', results') /\ Fresh(request'[p], calls')
  BY <1>1, <1>2
<1>4. SeenOK'
  BY <1>3 DEF SeenOK
<1>5. ReplayReturnsResult'
  BY <1>3 DEF ReplayReturnsResult, Fresh
<1> QED BY <1>4, <1>5

\* A step that writes neither approvals nor results.
LEMMA QuietRequest ==
  ASSUME InvokeInv, NEW q \in Requests, NEW s, RequestOK(s), request' = [request EXCEPT ![q] = s],
         UNCHANGED <<results, executions, approvals>>,
         calls' \in [Keys -> InvokeTools \cup {NoTool}],
         \A k \in Keys : calls[k] # NoTool => calls'[k] = calls[k],
         Holding(s) => Holding(request[q]) /\ s.approval = request[q].approval /\ s.tool = request[q].tool,
         SeenOf(s, calls', results), Fresh(s, calls')
  PROVE  InvokeInv'
<1>1. InvokeTypeOK'
  BY RequestMoves DEF InvokeInv, InvokeTypeOK, RequestOK
<1>2. HeldOnce' /\ SpentOnce'
  BY HeldKept
<1>3. SeenOK' /\ ReplayReturnsResult'
  BY SeenKept
<1>4. ResultsOK'
  <2>1. \A k \in GatedTools : k # NoTool
    BY ToolInvokeAssumption
  <2> QED BY <2>1 DEF InvokeInv, ResultsOK
<1> QED BY <1>1, <1>2, <1>3, <1>4 DEF InvokeInv

LEMMA DoneFacts ==
  ASSUME NEW s, s.pc = "done", NEW c, NEW res
  PROVE  SeenOf(s, c, res) /\ Fresh(s, c) /\ ~Holding(s)
BY DEF SeenOf, Fresh, Holding

LEMMA ReturnStep ==
  ASSUME InvokeInv, NEW q \in Requests, Return(q), UNCHANGED <<calls, results, executions, approvals>>
  PROVE  InvokeInv'
<1>1. PICK s : s = At("done")
  OBVIOUS
<1>2. RequestOK(s) /\ s.pc = "done" /\ request' = [request EXCEPT ![q] = s]
  BY <1>1, ReturnFacts
<1>3. calls' \in [Keys -> InvokeTools \cup {NoTool}]
  BY DEF InvokeInv, InvokeTypeOK
<1>4. SeenOf(s, calls', results) /\ Fresh(s, calls') /\ ~Holding(s)
  BY <1>2, DoneFacts
<1> QED BY <1>2, <1>3, <1>4, QuietRequest

-----------------------------------------------------------------------------
LEMMA InvokeInitInv == InvokeInit => InvokeInv
<1> SUFFICES ASSUME InvokeInit PROVE InvokeInv
  OBVIOUS
<1>1. \A q \in Requests : request[q] = At("idle") /\ request[q].pc = "idle"
  BY DEF InvokeInit, At
<1>2. InvokeTypeOK
  <2>1. At("idle") \in RequestStates
    BY DEF At, RequestStates, RequestPCs, ResultStatuses
  <2>2. Approval("absent", NoTool) \in ApprovalStates
    BY DEF Approval, ApprovalStates
  <2> QED BY <1>1, <2>1, <2>2 DEF InvokeInit, InvokeTypeOK, ResultStatuses
<1>3. HeldOnce
  BY <1>1 DEF HeldOnce, Holding
<1>4. SpentOnce
  BY DEF InvokeInit, SpentOnce, Spent
<1>5. ResultsOK
  BY DEF InvokeInit, ResultsOK
<1>6. SeenOK /\ ReplayReturnsResult
  BY <1>1 DEF SeenOK, SeenOf, ReplayReturnsResult
<1> QED BY <1>2, <1>3, <1>4, <1>5, <1>6 DEF InvokeInv

LEMMA ArriveStep ==
  ASSUME InvokeInv, NEW q \in Requests, NEW t \in InvokeTools, NEW k \in Keys,
         NEW id \in ApprovalIDs \cup {NoApproval}, Arrive(q, t, k, id)
  PROVE  InvokeInv'
<1>1. PICK s : s = [pc |-> IF id = NoApproval THEN "check" ELSE "consume", tool |-> t, key |-> k,
                    approval |-> id, seen |-> results[k], result |-> "none"]
  OBVIOUS
<1>2. request' = [request EXCEPT ![q] = s] /\ UNCHANGED <<calls, results, executions, approvals>>
  BY <1>1 DEF Arrive
<1>3. results[k] \in ResultStatuses /\ calls' \in [Keys -> InvokeTools \cup {NoTool}]
  BY <1>2 DEF InvokeInv, InvokeTypeOK
<1>4. /\ s \in RequestStates /\ s.tool = t /\ s.key = k /\ s.approval = id /\ s.seen = results[k]
      /\ s.result = "none" /\ s.pc = IF id = NoApproval THEN "check" ELSE "consume"
  BY <1>1, <1>3 DEF RequestStates, RequestPCs, ResultStatuses
<1>5. RequestOK(s)
  BY <1>4 DEF RequestOK
<1>6. ~Holding(s)
  BY <1>4 DEF Holding
<1>7. SeenOf(s, calls', results) /\ Fresh(s, calls')
  BY <1>4 DEF SeenOf, Fresh
<1> QED BY <1>2, <1>3, <1>5, <1>6, <1>7, QuietRequest

\* The approval is marked used in the step that grants it.
LEMMA ConsumeStep ==
  ASSUME InvokeInv, NEW q \in Requests, Consume(q)
  PROVE  InvokeInv'
<1>1. CASE Return(q) /\ UNCHANGED approvals
  BY <1>1, ReturnStep DEF Consume
<1>2. PICK id : id = request[q].approval
  OBVIOUS
<1>3. CASE /\ approvals[id] = Approval("approved", request[q].tool)
           /\ approvals' = [approvals EXCEPT ![id].status = "used"]
           /\ Goto(q, "check")
  <2>1. request[q].pc = "consume" /\ UNCHANGED <<calls, results, executions>>
    BY DEF Consume
  <2>2. PICK s : s = [request[q] EXCEPT !.pc = "check"]
    OBVIOUS
  <2>3. /\ request' = [request EXCEPT ![q] = s] /\ s \in RequestStates /\ s.pc = "check"
        /\ s.tool = request[q].tool /\ s.key = request[q].key /\ s.approval = id
        /\ s.seen = request[q].seen
    BY <1>2, <1>3, <2>2, GotoFacts DEF RequestPCs
  <2>4. id \in ApprovalIDs /\ id # NoApproval /\ s.key \in Keys /\ s.tool \in InvokeTools
    BY <1>2, <2>1, <2>3, RequestFacts, ToolInvokeAssumption DEF InvokeInv, InvokeTypeOK
  <2>5. RequestOK(s)
    BY <2>3, <2>4 DEF RequestOK
  <2>6. /\ approvals' \in [ApprovalIDs -> ApprovalStates]
        /\ \A a \in ApprovalIDs : approvals'[a] = IF a = id THEN Approval("used", s.tool) ELSE approvals[a]
    <3>1. approvals \in [ApprovalIDs -> ApprovalStates]
      BY DEF InvokeInv, InvokeTypeOK
    <3>2. [approvals[id] EXCEPT !.status = "used"] = Approval("used", s.tool)
      BY <1>3, <2>3 DEF Approval
    <3>3. Approval("used", s.tool) \in ApprovalStates
      BY <2>4 DEF Approval, ApprovalStates
    <3>4. approvals' = [approvals EXCEPT ![id] = Approval("used", s.tool)]
      BY <1>3, <3>2
    <3> QED BY <2>4, <3>1, <3>3, <3>4
  <2>7. InvokeTypeOK'
    BY <2>1, <2>3, <2>5, <2>6, RequestMoves DEF InvokeInv, InvokeTypeOK, RequestOK
  <2>8. \A p \in Requests : request'[p] = IF p = q THEN s ELSE request[p]
    BY <2>3, <2>5, RequestMoves
  <2>9. approvals[id].status = "approved" /\ \A t : Approval("used", t).status = "used"
    BY <1>3 DEF Approval
  <2>10. HeldOnce'
    <3>1. ASSUME NEW p \in Requests, p # q, Holding(request[p])
          PROVE  /\ request[p].approval \in ApprovalIDs /\ request[p].approval # id
                 /\ approvals[request[p].approval] = Approval("used", request[p].tool)
      BY <2>9, <3>1, RequestFacts DEF InvokeInv, HeldOnce, Holding
    <3>2. approvals'[s.approval] = Approval("used", s.tool)
      BY <2>3, <2>4, <2>6
    <3>3. ASSUME NEW p \in Requests, Holding(request'[p])
          PROVE  approvals'[request'[p].approval] = Approval("used", request'[p].tool)
      BY <2>6, <2>8, <3>1, <3>2, <3>3
    <3>4. ASSUME NEW p \in Requests, NEW o \in Requests, Holding(request'[p]), Holding(request'[o]),
                 request'[p].approval = request'[o].approval
          PROVE  p = o
      BY <2>3, <2>8, <3>1, <3>4 DEF InvokeInv, HeldOnce
    <3> QED BY <3>3, <3>4 DEF HeldOnce
  <2>11. SpentOnce'
    <3>1. Spent' = Spent
      BY <2>1 DEF Spent
    <3>2. \A x \in Spent : x.approval \in ApprovalIDs /\ x.approval # id
      BY <2>9 DEF InvokeInv, InvokeTypeOK, SpentOnce, Spent, Executions
    <3>3. \A p \in Requests : Holding(request'[p]) => p = q \/ Holding(request[p])
      BY <2>8
    <3>4. \A x \in Spent, p \in Requests : Holding(request'[p]) => request'[p].approval # x.approval
      BY <2>3, <2>8, <3>2, <3>3 DEF InvokeInv, SpentOnce
    <3>5. \A x \in Spent : approvals'[x.approval] = Approval("used", x.named)
      BY <2>6, <3>2 DEF InvokeInv, SpentOnce
    <3> QED BY <2>1, <3>1, <3>4, <3>5 DEF InvokeInv, SpentOnce
  <2>12. SeenOK' /\ ReplayReturnsResult'
    <3>1. SeenOf(s, calls', results') /\ Fresh(s, calls')
      BY <2>1, <2>3 DEF InvokeInv, SeenOK, SeenOf, Fresh
    <3> QED BY <2>1, <2>3, <2>5, <3>1, SeenKept
  <2>13. ResultsOK'
    BY <2>1 DEF InvokeInv, ResultsOK
  <2> QED BY <2>7, <2>10, <2>11, <2>12, <2>13 DEF InvokeInv
<1> QED BY <1>1, <1>2, <1>3 DEF Consume

\* Steps of a handler that only move it.
LEMMA GotoStep ==
  ASSUME InvokeInv, NEW q \in Requests, NEW pc \in RequestPCs \ {"idle", "done", "consume", "saveResult"},
         Goto(q, pc), UNCHANGED <<results, executions, approvals>>,
         calls' \in [Keys -> InvokeTools \cup {NoTool}],
         \A k \in Keys : calls[k] # NoTool => calls'[k] = calls[k],
         request[q].pc \in {"check", "save", "lookup"},
         pc = "requestApproval" => request[q].approval = NoApproval,
         pc \in {"lookup", "invoke"} => calls'[request[q].key] # NoTool,
         pc = "invoke" /\ calls'[request[q].key] \notin GatedTools => request[q].seen = "none"
  PROVE  InvokeInv'
<1>1. PICK s : s = [request[q] EXCEPT !.pc = pc]
  OBVIOUS
<1>2. /\ request' = [request EXCEPT ![q] = s] /\ s \in RequestStates /\ s.pc = pc
      /\ s.tool = request[q].tool /\ s.key = request[q].key /\ s.approval = request[q].approval
      /\ s.seen = request[q].seen
  BY <1>1, GotoFacts
<1>3. request[q].key \in Keys /\ request[q].tool \in InvokeTools
  BY RequestFacts DEF InvokeInv
<1>4. RequestOK(s)
  BY <1>2, <1>3 DEF RequestOK
<1>5. s.seen # "none" => results[s.key] # "none"
  BY <1>2 DEF InvokeInv, SeenOK, SeenOf
<1>6. SeenOf(s, calls', results) /\ Fresh(s, calls')
  BY <1>2, <1>5 DEF SeenOf, Fresh
<1>7. Holding(s) => Holding(request[q])
  BY <1>2 DEF Holding
<1> QED BY <1>2, <1>4, <1>6, <1>7, QuietRequest

LEMMA SaveCallStep ==
  ASSUME InvokeInv, NEW q \in Requests, SaveCall(q)
  PROVE  InvokeInv'
<1>1. /\ request[q].pc = "save" /\ UNCHANGED <<results, executions, approvals>>
      /\ calls' = Inserted(q)
  BY DEF SaveCall
<1>2. PICK k : k = request[q].key
  OBVIOUS
<1>3. k \in Keys /\ request[q].tool \in InvokeTools /\ calls \in [Keys -> InvokeTools \cup {NoTool}]
  BY <1>1, <1>2, RequestFacts DEF InvokeInv, InvokeTypeOK
<1>4. /\ calls' \in [Keys -> InvokeTools \cup {NoTool}] /\ calls'[k] # NoTool
      /\ \A j \in Keys : calls[j] # NoTool => calls'[j] = calls[j]
  BY <1>1, <1>2, <1>3, ToolInvokeAssumption DEF Inserted
<1>5. CASE calls[k] # NoTool /\ Goto(q, "lookup")
  BY <1>1, <1>2, <1>4, <1>5, GotoStep DEF RequestPCs
<1>6. CASE calls[k] = NoTool /\ Goto(q, "invoke")
  <2>1. request[q].seen = "none"
    BY <1>1, <1>2, <1>3, <1>6 DEF InvokeInv, SeenOK, SeenOf, ResultsOK
  <2> QED BY <1>1, <1>2, <1>4, <1>6, <2>1, GotoStep DEF RequestPCs
<1> QED BY <1>2, <1>5, <1>6 DEF SaveCall

LEMMA LookupStep ==
  ASSUME InvokeInv, NEW q \in Requests, Lookup(q)
  PROVE  InvokeInv'
<1>1. request[q].pc = "lookup" /\ UNCHANGED <<calls, results, executions, approvals>>
  BY DEF Lookup
<1>2. /\ request[q].key \in Keys /\ calls'[request[q].key] # NoTool
      /\ calls' \in [Keys -> InvokeTools \cup {NoTool}]
  BY <1>1, RequestFacts DEF InvokeInv, InvokeTypeOK, SeenOK, SeenOf
<1>3. CASE Return(q)
  BY <1>1, <1>3, ReturnStep
<1>4. CASE Goto(q, "requestApproval") /\ ~Granted(q)
  BY <1>1, <1>2, <1>4, GotoStep DEF RequestPCs, Granted
<1>5. CASE /\ results[request[q].key] = "none" \/ results[request[q].key] = "pending"
           /\ Goto(q, "invoke")
  <2>1. calls'[request[q].key] \notin GatedTools => request[q].seen = "none"
    BY <1>1, <1>2, <1>5 DEF InvokeInv, SeenOK, SeenOf, ResultsOK
  <2> QED BY <1>1, <1>2, <1>5, <2>1, GotoStep DEF RequestPCs
<1> QED BY <1>3, <1>4, <1>5 DEF Lookup

\* The executor runs a gated call for a request that gives up its approval.
LEMMA InvokeStep ==
  ASSUME InvokeInv, NEW q \in Requests, Invoke(q)
  PROVE  InvokeInv'
<1>1. request[q].pc = "invoke" /\ UNCHANGED <<calls, results, approvals>>
  BY DEF Invoke
<1>r. PICK r : r = request[q]
  OBVIOUS
<1>t. PICK t : t = calls[r.key]
  OBVIOUS
<1>e. PICK e : e = [request |-> q, named |-> r.tool, tool |-> t, approval |-> r.approval]
  OBVIOUS
<1>2. /\ r \in RequestStates /\ r.key \in Keys /\ r.tool \in InvokeTools /\ t \in InvokeTools
      /\ SeenOf(r, calls, results) /\ Fresh(r, calls) /\ t # NoTool /\ r.pc = "invoke"
  <2>1. r \in RequestStates /\ r.key \in Keys /\ r.tool \in InvokeTools /\ SeenOf(r, calls, results)
        /\ Fresh(r, calls) /\ r.pc = "invoke"
    BY <1>1, <1>r, RequestFacts DEF InvokeInv, SeenOK, ReplayReturnsResult, Fresh
  <2>2. t # NoTool
    BY <1>t, <2>1 DEF SeenOf
  <2> QED BY <1>t, <2>1, <2>2 DEF InvokeInv, InvokeTypeOK
<1>3. CASE Return(q) /\ UNCHANGED executions
  BY <1>1, <1>3, ReturnStep
<1>4. ASSUME NEW status \in {"pending", "succeeded", "failed"},
             status = "pending" => t \in GatedTools /\ ~Granted(q),
             request' = [request EXCEPT ![q] = [@ EXCEPT !.pc = "saveResult", !.result = status]],
             \/ UNCHANGED executions
             \/ executions' = executions \cup {e} /\ (t \in GatedTools => Granted(q))
      PROVE  InvokeInv'
  <2>1. PICK s : s = [r EXCEPT !.pc = "saveResult", !.result = status]
    OBVIOUS
  <2>2. /\ request' = [request EXCEPT ![q] = s] /\ s \in RequestStates /\ s.pc = "saveResult"
        /\ s.key = r.key /\ s.tool = r.tool /\ s.seen = r.seen /\ s.result = status
        /\ s.approval = r.approval
    BY <1>2, <1>4, <1>r, <2>1 DEF RequestStates, RequestPCs, ResultStatuses
  <2>3. RequestOK(s) /\ ~Holding(s)
    BY <1>2, <1>4, <2>2 DEF RequestOK, Holding
  <2>4. \A p \in Requests : request'[p] = IF p = q THEN s ELSE request[p]
    BY <2>2, <2>3, RequestMoves
  <2>5. e \in Executions /\ executions' \subseteq Executions
    BY <1>2, <1>4, <1>e DEF InvokeInv, InvokeTypeOK, Executions, RequestStates
  <2>6. InvokeTypeOK'
    BY <1>1, <2>2, <2>3, <2>5, RequestMoves DEF InvokeInv, InvokeTypeOK, RequestOK
  <2>7. SeenOK' /\ ReplayReturnsResult'
    <3>1. status = "pending" => t \in GatedTools /\ s.approval = NoApproval
      BY <1>4, <1>r, <2>2 DEF Granted
    <3>2. SeenOf(s, calls', results') /\ Fresh(s, calls')
      BY <1>1, <1>2, <1>t, <2>2, <3>1 DEF SeenOf, Fresh
    <3> QED BY <1>1, <2>2, <2>3, <3>2, SeenKept
  <2>8. ResultsOK'
    BY <1>1 DEF InvokeInv, ResultsOK
  <2>9. CASE UNCHANGED executions
    BY <1>1, <2>2, <2>3, <2>6, <2>7, <2>8, <2>9, HeldKept DEF InvokeInv
  <2>10. CASE executions' = executions \cup {e} /\ (t \in GatedTools => Granted(q))
    <3>1. \A p \in Requests : Holding(request'[p]) => p # q /\ Holding(request[p]) /\ request'[p] = request[p]
      BY <2>3, <2>4
    <3>2. HeldOnce'
      BY <1>1, <3>1 DEF InvokeInv, HeldOnce
    <3>3. e.tool = t /\ e.named = r.tool /\ e.approval = r.approval
      BY <1>e
    <3>4. e.tool \in GatedTools => e.approval # NoApproval
      BY <1>r, <2>10, <3>3 DEF Granted
    <3>5. e.approval # NoApproval =>
            /\ Holding(r) /\ approvals[e.approval] = Approval("used", e.named)
            /\ \A x \in Spent : x.approval # e.approval
            /\ \A p \in Requests : Holding(request'[p]) => request'[p].approval # e.approval
      <4>1. e.approval # NoApproval => Holding(r)
        BY <1>2, <3>3 DEF Holding
      <4> QED BY <1>r, <3>1, <3>3, <4>1 DEF InvokeInv, HeldOnce, SpentOnce
    <3>6. \A x \in Spent' : x \in Spent \/ (x = e /\ e.approval # NoApproval)
      BY <2>10 DEF Spent
    <3>7. \A x \in executions' : x.tool \in GatedTools => x.approval # NoApproval
      BY <2>10, <3>4 DEF InvokeInv, SpentOnce
    <3>8. \A x \in Spent' : approvals'[x.approval] = Approval("used", x.named)
      BY <1>1, <3>5, <3>6 DEF InvokeInv, SpentOnce
    <3>9. \A x, y \in Spent' : x.approval = y.approval => x = y
      BY <3>5, <3>6 DEF InvokeInv, SpentOnce
    <3>10. \A x \in Spent', p \in Requests : Holding(request'[p]) => request'[p].approval # x.approval
      BY <3>1, <3>5, <3>6 DEF InvokeInv, SpentOnce
    <3>11. SpentOnce'
      BY <3>7, <3>8, <3>9, <3>10 DEF SpentOnce
    <3> QED BY <2>6, <2>7, <2>8, <3>2, <3>11 DEF InvokeInv
  <2> QED BY <1>4, <2>9, <2>10
<1>5. ASSUME NEW status \in {"failed"} \cup (IF t \in GatedTools /\ ~Granted(q) THEN {"pending"} ELSE {}),
             request' = [request EXCEPT ![q] = [@ EXCEPT !.pc = "saveResult", !.result = status]],
             UNCHANGED executions
      PROVE  InvokeInv'
  BY <1>4, <1>5
<1>6. ASSUME NEW status \in {"succeeded", "failed"}, ~(t \in GatedTools /\ ~Granted(q)),
             executions' = executions \cup {e},
             request' = [request EXCEPT ![q] = [@ EXCEPT !.pc = "saveResult", !.result = status]]
      PROVE  InvokeInv'
  BY <1>4, <1>6
<1> QED BY <1>3, <1>5, <1>6, <1>r, <1>t, <1>e DEF Invoke

LEMMA SaveResultStep ==
  ASSUME InvokeInv, NEW q \in Requests, SaveResult(q)
  PROVE  InvokeInv'
<1>1. /\ request[q].pc = "saveResult" /\ UNCHANGED <<calls, executions, approvals>>
      /\ results' = [results EXCEPT ![request[q].key] = request[q].result]
  BY DEF SaveResult
<1>2. PICK k : k = request[q].key
  OBVIOUS
<1>3. /\ k \in Keys /\ calls[k] # NoTool /\ request[q].result \in ResultStatuses \ {"none"}
      /\ request[q].result = "pending" => calls[k] \in GatedTools
      /\ results \in [Keys -> ResultStatuses] /\ request[q].tool \in InvokeTools
  BY <1>1, <1>2, RequestFacts DEF InvokeInv, InvokeTypeOK, SeenOK, SeenOf
<1>4. /\ results' \in [Keys -> ResultStatuses]
      /\ \A j \in Keys : results'[j] = IF j = k THEN request[q].result ELSE results[j]
  BY <1>1, <1>2, <1>3
<1>5. ASSUME NEW s, RequestOK(s), request' = [request EXCEPT ![q] = s],
             \/ s.pc = "done"
             \/ s.pc = "requestApproval" /\ s.key = k
      PROVE  InvokeInv'
  <2>1. InvokeTypeOK'
    BY <1>1, <1>4, <1>5, RequestMoves DEF InvokeInv, InvokeTypeOK, RequestOK
  <2>2. ~Holding(s)
    BY <1>5 DEF Holding
  <2>3. HeldOnce' /\ SpentOnce'
    BY <1>1, <1>5, <2>2, HeldKept
  <2>4. SeenOK' /\ ReplayReturnsResult'
    <3>1. \A j \in Keys : results[j] # "none" => results'[j] # "none"
      BY <1>3, <1>4
    <3>2. results'[k] # "none"
      BY <1>3, <1>4
    <3>3. SeenOf(s, calls', results') /\ Fresh(s, calls')
      BY <1>5, <3>2 DEF SeenOf, Fresh
    <3> QED BY <1>1, <1>5, <3>1, <3>3, SeenKept
  <2>5. ResultsOK'
    BY <1>1, <1>3, <1>4 DEF InvokeInv, ResultsOK
  <2> QED BY <2>1, <2>3, <2>4, <2>5 DEF InvokeInv
<1>6. CASE Return(q)
  BY <1>5, <1>6, ReturnFacts
<1>7. CASE request[q].result = "pending" /\ Goto(q, "requestApproval")
  <2>1. PICK s : s = [request[q] EXCEPT !.pc = "requestApproval"]
    OBVIOUS
  <2>2. /\ request' = [request EXCEPT ![q] = s] /\ s \in RequestStates /\ s.pc = "requestApproval"
        /\ s.key = k /\ s.tool = request[q].tool /\ s.approval = request[q].approval
    BY <1>2, <1>7, <2>1, GotoFacts DEF RequestPCs
  <2>3. request[q].approval = NoApproval
    BY <1>1, <1>7 DEF InvokeInv, SeenOK, SeenOf
  <2>4. RequestOK(s)
    BY <1>3, <2>2, <2>3 DEF RequestOK
  <2> QED BY <1>5, <2>2, <2>4
<1> QED BY <1>6, <1>7 DEF SaveResult

LEMMA RequestApprovalStep ==
  ASSUME InvokeInv, NEW q \in Requests, RequestApproval(q)
  PROVE  InvokeInv'
<1>1. PICK id \in ApprovalIDs :
        /\ approvals[id].status = "absent"
        /\ approvals' = [approvals EXCEPT ![id] = Approval("pending", request[q].tool)]
  BY DEF RequestApproval
<1>2. UNCHANGED <<calls, results, executions>> /\ request[q].tool \in InvokeTools
  BY RequestFacts DEF RequestApproval, InvokeInv
<1>3. Approval("pending", request[q].tool) \in ApprovalStates
  BY <1>2 DEF Approval, ApprovalStates
<1>4. /\ approvals' \in [ApprovalIDs -> ApprovalStates]
      /\ \A a \in ApprovalIDs : approvals[a].status = "used" => approvals'[a] = approvals[a]
  BY <1>1, <1>3 DEF InvokeInv, InvokeTypeOK
<1>5. PICK s : s = At("done")
  OBVIOUS
<1>6. RequestOK(s) /\ s.pc = "done" /\ request' = [request EXCEPT ![q] = s]
  BY <1>5, ReturnFacts DEF RequestApproval
<1>7. SeenOf(s, calls', results') /\ Fresh(s, calls') /\ ~Holding(s)
  BY <1>6, DoneFacts
<1>8. InvokeTypeOK'
  BY <1>2, <1>4, <1>6, RequestMoves DEF InvokeInv, InvokeTypeOK, RequestOK
<1>9. HeldOnce' /\ SpentOnce'
  BY <1>2, <1>4, <1>6, <1>7, HeldKept
<1>10. SeenOK' /\ ReplayReturnsResult'
  BY <1>2, <1>6, <1>7, SeenKept
<1>11. ResultsOK'
  BY <1>2 DEF InvokeInv, ResultsOK
<1> QED BY <1>8, <1>9, <1>10, <1>11 DEF InvokeInv

LEMMA ResolveStep ==
  ASSUME InvokeInv, NEW id \in ApprovalIDs, NEW status \in {"approved", "rejected"}, Resolve(id, status)
  PROVE  InvokeInv'
<1>1. /\ approvals' = [approvals EXCEPT ![id].status = status] /\ approvals[id].status = "pending"
      /\ UNCHANGED <<calls, results, executions, request>>
  BY DEF Resolve
<1>2. approvals \in [ApprovalIDs -> ApprovalStates]
  BY DEF InvokeInv, InvokeTypeOK
<1>3. [approvals[id] EXCEPT !.status = status] \in ApprovalStates
  BY <1>2 DEF ApprovalStates
<1>4. /\ approvals' \in [ApprovalIDs -> ApprovalStates]
      /\ \A a \in ApprovalIDs : approvals[a].status = "used" => approvals'[a] = approvals[a]
  BY <1>1, <1>2, <1>3
<1>5. \A t : Approval("used", t).status = "used"
  BY DEF Approval
<1>6. HeldOnce'
  <2>1. \A q \in Requests : Holding(request[q]) => request[q].approval \in ApprovalIDs
    BY RequestFacts DEF InvokeInv, Holding
  <2> QED BY <1>1, <1>4, <1>5, <2>1 DEF InvokeInv, HeldOnce
<1>7. SpentOnce'
  <2>1. Spent' = Spent /\ \A x \in Spent : x.approval \in ApprovalIDs
    BY <1>1 DEF Spent, InvokeInv, InvokeTypeOK, Executions
  <2> QED BY <1>1, <1>4, <1>5, <2>1 DEF InvokeInv, SpentOnce
<1>8. InvokeTypeOK'
  BY <1>1, <1>4 DEF InvokeInv, InvokeTypeOK
<1>9. ResultsOK' /\ SeenOK' /\ ReplayReturnsResult'
  BY <1>1 DEF InvokeInv, ResultsOK, SeenOK, SeenOf, ReplayReturnsResult
<1> QED BY <1>6, <1>7, <1>8, <1>9 DEF InvokeInv

(***************************************************************************)
(* The invariant is inductive: one step per action.                        *)
(***************************************************************************)
LEMMA InvokeNextInv == InvokeInv /\ [InvokeNext]_invokeVars => InvokeInv'
<1> SUFFICES ASSUME InvokeInv, [InvokeNext]_invokeVars PROVE InvokeInv'
  OBVIOUS
<1>1. ASSUME NEW q \in Requests, Handle(q)
      PROVE  InvokeInv'
  <2>1. CASE Check(q)
    <3>1. calls' \in [Keys -> InvokeTools \cup {NoTool}] /\ UNCHANGED <<calls, results, executions, approvals>>
      BY <2>1 DEF Check, InvokeInv, InvokeTypeOK
    <3>2. CASE Goto(q, "save")
      BY <2>1, <3>1, <3>2, GotoStep DEF Check, RequestPCs
    <3>3. CASE Return(q)
      BY <3>1, <3>3, ReturnStep
    <3> QED BY <2>1, <3>2, <3>3 DEF Check
  <2> QED BY <1>1, <2>1, ConsumeStep, SaveCallStep, LookupStep, InvokeStep, SaveResultStep,
             RequestApprovalStep DEF Handle
<1>2. ASSUME NEW q \in Requests, Abort(q)
      PROVE  InvokeInv'
  BY <1>2, ReturnStep DEF Abort
<1>3. CASE UNCHANGED invokeVars
  BY <1>3 DEF invokeVars, InvokeInv, InvokeTypeOK, HeldOnce, SpentOnce, Spent, ResultsOK, SeenOK, SeenOf,
              ReplayReturnsResult
<1> QED BY <1>1, <1>2, <1>3, ArriveStep, ResolveStep DEF InvokeNext

LEMMA InvokeInvariant == InvokeSpec => []InvokeInv
BY InvokeInitInv, InvokeNextInv, PTL DEF InvokeSpec

(***************************************************************************)
(* The stores of tools.invoke and the locals of its handlers keep their    *)
(* types (invoke/service.go Invoke).                                       *)
(***************************************************************************)
THEOREM InvokeTypeCorrect == InvokeSpec => []InvokeTypeOK
<1>1. InvokeInv => InvokeTypeOK
  BY DEF InvokeInv
<1> QED BY <1>1, InvokeInvariant, PTL

(***************************************************************************)
(* Each execution of a tool that needs an approval has used up one of its  *)
(* own, given for the tool its request named, whatever requests race for   *)
(* it and whatever keys they carry (approval/service.go Consume,           *)
(* invoke/service.go Invoke).                                              *)
(***************************************************************************)
THEOREM InvokeGatedNeedsApproval == InvokeSpec => []GatedNeedsApproval
<1>1. ASSUME InvokeInv PROVE GatedNeedsApproval
  <2>1. \A x \in GatedExecutions : x \in Spent
    BY <1>1 DEF InvokeInv, SpentOnce, Spent, GatedExecutions
  <2> QED BY <1>1, <2>1 DEF InvokeInv, SpentOnce, Spent, GatedNeedsApproval
<1> QED BY <1>1, InvokeInvariant, PTL

(***************************************************************************)
(* A call that has a result when a request arrives is not executed for it  *)
(* again, whoever else works on the key (invoke/service.go Invoke).        *)
(***************************************************************************)
THEOREM InvokeReplayReturnsResult == InvokeSpec => []ReplayReturnsResult
<1>1. InvokeInv => ReplayReturnsResult
  BY DEF InvokeInv
<1> QED BY <1>1, InvokeInvariant, PTL

-----------------------------------------------------------------------------
(* The policy commands                                                     *)

\* What may be in force: it has passed, or was written inside a command on its version.
Cleared(v, body) == <<v, body>> \in passed \cup crossed

DraftLocals == [pc : {"saveDraft", "publish"}, d : PolicyDrafts, draft : PolicyDraftRows]

PatchLocals == [pc : {"patchDraft"}, d : PolicyDrafts, draft : {NoPolicy}]

VersionLocals ==
  [pc : {"markEval", "check", "consume", "perform", "mark", "save", "commit", "put", "list", "get"},
   command : {"eval", "canary", "stable", "rollback"}, v : PolicyVersions,
   approval : PolicyApprovals \cup {"none"}, reason : BOOLEAN,
   row : {NoPolicy} \cup PolicyRows, found : SUBSET PolicyVersions,
   evaluated : {NoPolicy} \cup PolicyBodies]

PolicyLocals == {PolicyIdle} \cup DraftLocals \cup PatchLocals \cup VersionLocals

PolicyTables ==
  /\ policyDraft \in [PolicyDrafts -> {NoPolicy} \cup PolicyDraftRows]
  /\ policyRow \in [PolicyVersions -> {NoPolicy} \cup PolicyRows]

(***************************************************************************)
(* What a handler has read and where it may rely on it: a row it is about  *)
(* to write as canary or stable is cleared, and so is the row it will read *)
(* again, unless the version is overwritten meanwhile; a row it marks as   *)
(* evaluated says what was evaluated or is cleared.                        *)
(***************************************************************************)
Vouched(s, body) == body = s.evaluated \/ Cleared(s.v, body)

HandlerOK(s) ==
  /\ s \in PatchLocals => policyDraft[s.d] # NoPolicy
  /\ s \in VersionLocals =>
       /\ s.pc # "markEval" => policyRow[s.v] # NoPolicy
       /\ s.pc = "markEval" =>
            /\ s.command = "eval"
            /\ policyRow[s.v] # NoPolicy => Vouched(s, policyRow[s.v].body)
       /\ s.pc = "mark" => s.command \in {"canary", "rollback"}
       /\ s.pc = "mark" /\ s.command = "canary" => Cleared(s.v, policyRow[s.v].body)
       /\ s.pc = "get" => Cleared(s.v, policyRow[s.v].body)
       /\ s.pc \in {"save", "commit", "put"} => s.row # NoPolicy
       /\ s.pc = "save" =>
            \/ s.row.status = "evaluated" /\ s.command = "eval" /\ Vouched(s, s.row.body)
            \/ s.row.status \in {"canary", "stable"} /\ Cleared(s.v, s.row.body)
            \/ s.row.status = "rolled_back" /\ s.command = "rollback"
       /\ s.pc \in {"commit", "put"} => s.row.status = "stable" /\ Cleared(s.v, s.row.body)

HandlersOK ==
  /\ policyCaller \in [PolicyCallers -> PolicyLocals]
  /\ \A c \in PolicyCallers : HandlerOK(policyCaller[c])

RowsCleared ==
  \A v \in PolicyVersions : policyRow[v].status \in ClearedStatuses => Cleared(v, policyRow[v].body)

PolicyInv == PolicyTables /\ HandlersOK /\ RowsCleared /\ InForceWasEvaluated

LEMMA HandlerKinds ==
  ASSUME PolicyInv, NEW c \in PolicyCallers
  PROVE  /\ policyCaller[c] \in PolicyLocals /\ HandlerOK(policyCaller[c])
         /\ policyCaller[c].pc \in {"saveDraft", "publish"} => policyCaller[c] \in DraftLocals
         /\ policyCaller[c].pc = "patchDraft" => policyCaller[c] \in PatchLocals
         /\ policyCaller[c].pc \in {"markEval", "check", "consume", "perform", "mark", "save", "commit", "put",
                                    "list", "get"} => policyCaller[c] \in VersionLocals
<1>1. policyCaller[c] \in PolicyLocals /\ HandlerOK(policyCaller[c])
  BY DEF PolicyInv, HandlersOK
<1> QED BY <1>1 DEF PolicyLocals, PolicyIdle, DraftLocals, PatchLocals, VersionLocals

LEMMA HandlerMoves ==
  ASSUME PolicyInv, NEW c \in PolicyCallers, NEW s \in PolicyLocals, PolicyGoto(c, s)
  PROVE  /\ policyCaller' \in [PolicyCallers -> PolicyLocals]
         /\ \A b \in PolicyCallers : policyCaller'[b] = IF b = c THEN s ELSE policyCaller[b]
BY DEF PolicyInv, HandlersOK, PolicyGoto

(***************************************************************************)
(* A handler u is not disturbed by a write to the tables that keeps the    *)
(* body of the row it will read again, or clears it.                       *)
(***************************************************************************)
TablesGrow ==
  /\ passed \subseteq passed' /\ crossed \subseteq crossed'
  /\ \A d \in PolicyDrafts : policyDraft[d] # NoPolicy => policyDraft'[d] # NoPolicy
  /\ \A v \in PolicyVersions : policyRow[v] # NoPolicy => policyRow'[v] # NoPolicy

Undisturbed(u) ==
  \A v \in PolicyVersions :
    \/ policyRow'[v] = policyRow[v]
    \/ policyRow[v] # NoPolicy /\ policyRow'[v].body = policyRow[v].body
    \/ Cleared(v, policyRow[v].body)'
    \/ ~(u.v = v /\ (u.pc \in {"get", "markEval"} \/ (u.pc = "mark" /\ u.command = "canary")))

LEMMA HandlerKept ==
  ASSUME NEW u \in PolicyLocals, HandlerOK(u), TablesGrow, Undisturbed(u)
  PROVE  HandlerOK(u)'
<1>1. CASE u \in PatchLocals
  <2>1. u.d \in PolicyDrafts /\ u.pc = "patchDraft"
    BY <1>1 DEF PatchLocals
  <2>2. u \notin VersionLocals
    BY <2>1 DEF VersionLocals
  <2> QED BY <1>1, <2>1, <2>2 DEF HandlerOK, TablesGrow
<1>2. CASE u \in VersionLocals
  <2>1. u.v \in PolicyVersions /\ u.pc # "patchDraft"
    BY <1>2 DEF VersionLocals
  <2>2. u \notin PatchLocals
    BY <2>1 DEF PatchLocals
  <2>3. \A body : Cleared(u.v, body) => Cleared(u.v, body)'
    BY DEF Cleared, TablesGrow
  <2>4. u.pc # "markEval" => policyRow'[u.v] # NoPolicy
    BY <1>2, <2>1 DEF HandlerOK, TablesGrow
  <2>5. ASSUME u.pc = "get" \/ (u.pc = "mark" /\ u.command = "canary")
        PROVE  Cleared(u.v, policyRow[u.v].body)'
    <3>1. Cleared(u.v, policyRow[u.v].body)
      BY <1>2, <2>5 DEF HandlerOK
    <3> QED BY <2>1, <2>3, <2>5, <3>1 DEF Undisturbed
  <2>7. ASSUME u.pc = "markEval"
        PROVE  u.command = "eval" /\ (policyRow[u.v] # NoPolicy => Vouched(u, policyRow[u.v].body))'
    <3>1. u.command = "eval" /\ (policyRow[u.v] # NoPolicy => Vouched(u, policyRow[u.v].body))
      BY <1>2, <2>7 DEF HandlerOK
    <3>2. CASE Cleared(u.v, policyRow[u.v].body)'
      BY <3>1, <3>2 DEF Vouched
    <3>3. CASE /\ policyRow'[u.v] = policyRow[u.v] \/ policyRow[u.v] # NoPolicy
               /\ policyRow'[u.v].body = policyRow[u.v].body
      BY <2>3, <3>1, <3>3 DEF Vouched
    <3> QED BY <2>1, <2>7, <3>2, <3>3 DEF Undisturbed
  <2>6. /\ u.pc = "mark" => u.command \in {"canary", "rollback"}
        /\ u.pc \in {"save", "commit", "put"} => u.row # NoPolicy
        /\ u.pc = "save" =>
             \/ u.row.status = "evaluated" /\ u.command = "eval" /\ Vouched(u, u.row.body)'
             \/ u.row.status \in {"canary", "stable"} /\ Cleared(u.v, u.row.body)'
             \/ u.row.status = "rolled_back" /\ u.command = "rollback"
        /\ u.pc \in {"commit", "put"} => u.row.status = "stable" /\ Cleared(u.v, u.row.body)'
    BY <1>2, <2>3 DEF HandlerOK, Vouched
  <2> QED BY <2>2, <2>4, <2>5, <2>6, <2>7 DEF HandlerOK
<1>3. CASE u \notin PatchLocals /\ u \notin VersionLocals
  BY <1>3 DEF HandlerOK
<1> QED BY <1>1, <1>2, <1>3

\* The handler c goes on with the locals s and leaves the others undisturbed.
LEMMA HandlersKept ==
  ASSUME PolicyInv, NEW c \in PolicyCallers, NEW s \in PolicyLocals, PolicyGoto(c, s),
         HandlerOK(s)', TablesGrow,
         \A b \in PolicyCallers : b # c => Undisturbed(policyCaller[b])
  PROVE  HandlersOK'
<1>1. /\ policyCaller' \in [PolicyCallers -> PolicyLocals]
      /\ \A b \in PolicyCallers : policyCaller'[b] = IF b = c THEN s ELSE policyCaller[b]
  BY HandlerMoves
<1>2. ASSUME NEW b \in PolicyCallers
      PROVE  HandlerOK(policyCaller[b])'
  <2>1. CASE b = c
    BY <1>1, <2>1 DEF HandlerOK
  <2>2. CASE b # c
    <3>1. PICK u : u = policyCaller[b]
      OBVIOUS
    <3>2. u \in PolicyLocals /\ HandlerOK(u) /\ Undisturbed(u)
      BY <2>2, <3>1, HandlerKinds
    <3>3. HandlerOK(u)'
      BY <3>2, HandlerKept
    <3>4. policyCaller'[b] = u
      BY <1>1, <2>2, <3>1
    <3> QED BY <3>3, <3>4 DEF HandlerOK
  <2> QED BY <2>1, <2>2
<1> QED BY <1>1, <1>2 DEF HandlersOK

\* A step that writes no version and puts nothing in force.
LEMMA QuietPolicy ==
  ASSUME PolicyInv, UNCHANGED <<policyRow, inForce, passed, crossed>>,
         policyDraft' \in [PolicyDrafts -> {NoPolicy} \cup PolicyDraftRows],
         \A d \in PolicyDrafts : policyDraft[d] # NoPolicy => policyDraft'[d] # NoPolicy,
         \/ UNCHANGED policyCaller
         \/ \E c \in PolicyCallers : \E s \in PolicyLocals : PolicyGoto(c, s) /\ HandlerOK(s)'
  PROVE  PolicyInv'
<1>1. TablesGrow
  BY DEF TablesGrow
<1>2. \A u : Undisturbed(u)
  BY DEF Undisturbed
<1>3. HandlersOK'
  <2>1. ASSUME NEW c \in PolicyCallers, NEW s \in PolicyLocals, PolicyGoto(c, s), HandlerOK(s)'
        PROVE  HandlersOK'
    BY <1>1, <1>2, <2>1, HandlersKept
  <2>2. CASE UNCHANGED policyCaller
    <3>1. ASSUME NEW b \in PolicyCallers PROVE HandlerOK(policyCaller[b])'
      <4>1. PICK u : u = policyCaller[b]
        OBVIOUS
      <4>2. HandlerOK(u)'
        BY <1>1, <1>2, <4>1, HandlerKinds, HandlerKept
      <4> QED BY <2>2, <4>1, <4>2 DEF HandlerOK
    <3> QED BY <2>2, <3>1 DEF PolicyInv, HandlersOK
  <2> QED BY <2>1, <2>2
<1>4. PolicyTables'
  BY DEF PolicyInv, PolicyTables
<1>5. RowsCleared' /\ InForceWasEvaluated'
  BY DEF PolicyInv, RowsCleared, InForceWasEvaluated, Cleared
<1> QED BY <1>3, <1>4, <1>5 DEF PolicyInv

LEMMA PolicyInitInv == PolicyInit => PolicyInv
<1> SUFFICES ASSUME PolicyInit PROVE PolicyInv
  OBVIOUS
<1>1. PICK t \in InitialPolicies : /\ policyDraft = t.drafts /\ policyRow = t.rows
                                   /\ inForce = t.inForce /\ passed = t.passed
  BY DEF PolicyInit
<1>2. SoundTables(t)
  BY PolicyReleaseAssumption
<1>3. PolicyTables /\ RowsCleared /\ InForceWasEvaluated
  BY <1>1, <1>2 DEF SoundTables, PolicyTables, RowsCleared, InForceWasEvaluated, Cleared
<1>4. policyCaller = [c \in PolicyCallers |-> PolicyIdle]
  BY DEF PolicyInit
<1>5. HandlersOK
  <2>1. PolicyIdle.pc = "idle"
    BY DEF PolicyIdle
  <2>2. PolicyIdle \in PolicyLocals /\ PolicyIdle \notin PatchLocals /\ PolicyIdle \notin VersionLocals
    BY <2>1 DEF PolicyLocals, PatchLocals, VersionLocals
  <2> QED BY <1>4, <2>2 DEF HandlersOK, HandlerOK
<1> QED BY <1>3, <1>5 DEF PolicyInv

\* A handler that returns, whatever else the step does to the drafts or approvals.
LEMMA IdleFacts ==
  /\ PolicyIdle \in PolicyLocals /\ PolicyIdle \notin PatchLocals /\ PolicyIdle \notin VersionLocals
  /\ HandlerOK(PolicyIdle)'
<1>1. PolicyIdle.pc = "idle"
  BY DEF PolicyIdle
<1>2. PolicyIdle \in PolicyLocals /\ PolicyIdle \notin PatchLocals /\ PolicyIdle \notin VersionLocals
  BY <1>1 DEF PolicyLocals, PatchLocals, VersionLocals
<1> QED BY <1>2 DEF HandlerOK

LEMMA PolicyReturnStep ==
  ASSUME PolicyInv, NEW c \in PolicyCallers, PolicyReturn(c),
         UNCHANGED <<policyTables, passed, crossed>>
  PROVE  PolicyInv'
<1>1. policyDraft' \in [PolicyDrafts -> {NoPolicy} \cup PolicyDraftRows]
      /\ UNCHANGED <<policyDraft, policyRow, inForce>>
  BY DEF PolicyInv, PolicyTables, policyTables
<1>2. PolicyGoto(c, PolicyIdle)
  BY DEF PolicyReturn
<1> QED BY <1>1, <1>2, IdleFacts, QuietPolicy

LEMMA DraftLocalsOK ==
  ASSUME NEW s \in DraftLocals
  PROVE  s \in PolicyLocals /\ HandlerOK(s)'
<1>1. s.pc \in {"saveDraft", "publish"}
  BY DEF DraftLocals
<1>2. s \notin PatchLocals /\ s \notin VersionLocals
  BY <1>1 DEF PatchLocals, VersionLocals
<1> QED BY <1>2 DEF PolicyLocals, HandlerOK

\* A draft request is under way.
LEMMA DraftStep ==
  ASSUME PolicyInv, NEW c \in PolicyCallers, NEW s \in DraftLocals, PolicyGoto(c, s),
         UNCHANGED <<policyTables, passed, crossed>>
  PROVE  PolicyInv'
<1>1. policyDraft' \in [PolicyDrafts -> {NoPolicy} \cup PolicyDraftRows]
      /\ UNCHANGED <<policyDraft, policyRow, inForce>>
  BY DEF PolicyInv, PolicyTables, policyTables
<1> QED BY <1>1, DraftLocalsOK, QuietPolicy

\* A draft is written.
LEMMA DraftWrite ==
  ASSUME PolicyInv, NEW c \in PolicyCallers, PolicyReturn(c), NEW d \in PolicyDrafts,
         NEW row \in PolicyDraftRows, policyDraft' = [policyDraft EXCEPT ![d] = row],
         UNCHANGED <<policyRow, inForce, passed, crossed>>
  PROVE  PolicyInv'
<1>1. row # NoPolicy
  BY DEF PolicyDraftRows, NoPolicy
<1>2. policyDraft \in [PolicyDrafts -> {NoPolicy} \cup PolicyDraftRows]
  BY DEF PolicyInv, PolicyTables
<1>3. /\ policyDraft' \in [PolicyDrafts -> {NoPolicy} \cup PolicyDraftRows]
      /\ \A e \in PolicyDrafts : policyDraft[e] # NoPolicy => policyDraft'[e] # NoPolicy
  BY <1>1, <1>2
<1>4. PolicyGoto(c, PolicyIdle)
  BY DEF PolicyReturn
<1> QED BY <1>3, <1>4, IdleFacts, QuietPolicy

LEMMA DraftFacts ==
  ASSUME PolicyInv, NEW d \in PolicyDrafts,
         NEW status \in {"draft", "validated", "evaluated", "reviewed", "published"}
  PROVE  /\ policyDraft[d] # NoPolicy =>
              /\ policyDraft[d] \in PolicyDraftRows /\ policyDraft[d].version \in PolicyVersions
              /\ [policyDraft[d] EXCEPT !.status = status] \in PolicyDraftRows
         /\ policyDraft[d].status \in {"validated", "evaluated", "reviewed"} => policyDraft[d] # NoPolicy
<1>1. policyDraft[d] \in {NoPolicy} \cup PolicyDraftRows
  BY DEF PolicyInv, PolicyTables
<1>2. NoPolicy.status = "absent"
  BY DEF NoPolicy
<1> QED BY <1>1, <1>2 DEF PolicyDraftRows

LEMMA DraftSteps ==
  ASSUME PolicyInv, NEW c \in PolicyCallers, NEW d \in PolicyDrafts,
         \/ \E body \in PolicyBodies : CreateDraft(c, d, body) \/ UpdateDraft(c, d, body)
         \/ ValidateDraft(c, d) \/ MarkReviewed(c, d) \/ PublishDraft(c, d)
  PROVE  PolicyInv'
<1>1. ASSUME NEW body \in PolicyBodies, CreateDraft(c, d, body)
      PROVE  PolicyInv'
  <2>1. PICK v \in PolicyVersions :
          policyDraft' = [policyDraft EXCEPT ![d] = [status |-> "draft", version |-> v, body |-> body]]
    BY <1>1 DEF CreateDraft
  <2>2. [status |-> "draft", version |-> v, body |-> body] \in PolicyDraftRows
    BY DEF PolicyDraftRows
  <2>3. PolicyReturn(c) /\ UNCHANGED <<policyRow, inForce, passed, crossed>>
    BY <1>1 DEF CreateDraft, PolicyArrive, PolicyReturn
  <2> QED BY <2>1, <2>2, <2>3, DraftWrite
<1>2. ASSUME NEW body \in PolicyBodies, UpdateDraft(c, d, body)
      PROVE  PolicyInv'
  <2>1. PICK v \in {policyDraft[d].version} \cup PolicyVersions :
          PolicyArrive(c, DraftRequest("saveDraft", d, [status |-> "draft", version |-> v, body |-> body]))
    BY <1>2 DEF UpdateDraft
  <2>2. v \in PolicyVersions
    BY <1>2, DraftFacts DEF UpdateDraft
  <2>3. DraftRequest("saveDraft", d, [status |-> "draft", version |-> v, body |-> body]) \in DraftLocals
    BY <2>2 DEF DraftRequest, DraftLocals, PolicyDraftRows
  <2>4. UNCHANGED <<policyTables, passed, crossed>>
    BY <1>2 DEF UpdateDraft
  <2> QED BY <2>1, <2>3, <2>4, DraftStep DEF PolicyArrive
<1>3. CASE ValidateDraft(c, d)
  <2>1. DraftRequest("saveDraft", d, [policyDraft[d] EXCEPT !.status = "validated"]) \in DraftLocals
    <3>1. PICK row : row = [policyDraft[d] EXCEPT !.status = "validated"]
      OBVIOUS
    <3>2. row \in PolicyDraftRows
      BY <1>3, <3>1, DraftFacts DEF ValidateDraft
    <3> QED BY <3>1, <3>2 DEF DraftRequest, DraftLocals
  <2> QED BY <1>3, <2>1, DraftStep DEF ValidateDraft, PolicyArrive
<1>4. CASE PublishDraft(c, d)
  <2>1. DraftRequest("publish", d, policyDraft[d]) \in DraftLocals
    <3>1. policyDraft[d] \in PolicyDraftRows
      BY <1>4, DraftFacts DEF PublishDraft
    <3> QED BY <3>1 DEF DraftRequest, DraftLocals
  <2> QED BY <1>4, <2>1, DraftStep DEF PublishDraft, PolicyArrive
<1>5. CASE MarkReviewed(c, d)
  <2>1. policyDraft[d] # NoPolicy
    BY <1>5, DraftFacts DEF MarkReviewed
  <2>2. PICK s : s = DraftRequest("patchDraft", d, NoPolicy)
    OBVIOUS
  <2>3. s \in PatchLocals /\ s.d = d /\ s.pc = "patchDraft"
    BY <2>2 DEF DraftRequest, PatchLocals
  <2>4. s \in PolicyLocals /\ s \notin VersionLocals
    BY <2>3 DEF PolicyLocals, VersionLocals
  <2>5. UNCHANGED <<policyDraft, policyRow, inForce, passed, crossed>> /\ PolicyGoto(c, s)
    BY <1>5, <2>2 DEF MarkReviewed, PolicyArrive, policyTables
  <2>6. HandlerOK(s)'
    BY <2>1, <2>3, <2>4, <2>5 DEF HandlerOK
  <2>7. policyDraft \in [PolicyDrafts -> {NoPolicy} \cup PolicyDraftRows]
    BY DEF PolicyInv, PolicyTables
  <2> QED BY <2>4, <2>5, <2>6, <2>7, QuietPolicy
<1> QED BY <1>1, <1>2, <1>3, <1>4, <1>5

LEMMA PatchDraftStep ==
  ASSUME PolicyInv, NEW c \in PolicyCallers, patchDraft(c)
  PROVE  PolicyInv'
<1>1. policyCaller[c].pc = "patchDraft" /\ UNCHANGED <<policyTables, passed, crossed>>
  BY DEF patchDraft
<1>2. PICK d : d = policyCaller[c].d
  OBVIOUS
<1>3. d \in PolicyDrafts /\ policyDraft[d] # NoPolicy
  BY <1>1, <1>2, HandlerKinds DEF HandlerOK, PatchLocals
<1>4. PICK row : row = [policyDraft[d] EXCEPT !.status = "reviewed"]
  OBVIOUS
<1>5. row \in PolicyDraftRows
  BY <1>3, <1>4, DraftFacts
<1>6. DraftRequest("saveDraft", d, row) \in DraftLocals
  BY <1>3, <1>5 DEF DraftRequest, DraftLocals
<1> QED BY <1>1, <1>2, <1>4, <1>6, DraftStep DEF patchDraft

LEMMA SaveDraftStep ==
  ASSUME PolicyInv, NEW c \in PolicyCallers, SaveDraft(c)
  PROVE  PolicyInv'
<1>1. policyCaller[c] \in DraftLocals
  BY HandlerKinds DEF SaveDraft
<1>2. policyCaller[c].d \in PolicyDrafts /\ policyCaller[c].draft \in PolicyDraftRows
  BY <1>1 DEF DraftLocals
<1> QED BY <1>2, DraftWrite DEF SaveDraft

\* A version request goes on and the tables stay as they are.
LEMMA VersionStep ==
  ASSUME PolicyInv, NEW c \in PolicyCallers, NEW s \in VersionLocals, PolicyGoto(c, s),
         HandlerOK(s), UNCHANGED <<policyTables, passed, crossed>>
  PROVE  PolicyInv'
<1>1. policyDraft' \in [PolicyDrafts -> {NoPolicy} \cup PolicyDraftRows]
      /\ UNCHANGED <<policyDraft, policyRow, inForce, passed, crossed>>
  BY DEF PolicyInv, PolicyTables, policyTables
<1>2. HandlerOK(s)'
  BY <1>1 DEF HandlerOK, Cleared, Vouched
<1>3. s \in PolicyLocals
  BY DEF PolicyLocals
<1> QED BY <1>1, <1>2, <1>3, QuietPolicy

LEMMA NoPolicyFacts == NoPolicy.status = "absent" /\ NoPolicy \notin PolicyRows
<1>1. NoPolicy.status = "absent" /\ \A x \in PolicyRows : x.status # "absent"
  BY DEF NoPolicy, PolicyRows
<1> QED BY <1>1

LEMMA RowFacts ==
  ASSUME PolicyInv, NEW v \in PolicyVersions
  PROVE  /\ policyRow[v] = NoPolicy \/ policyRow[v] \in PolicyRows
         /\ policyRow[v].status \in ClearedStatuses => policyRow[v] \in PolicyRows
<1>1. policyRow[v] \in {NoPolicy} \cup PolicyRows
  BY DEF PolicyInv, PolicyTables
<1> QED BY <1>1, NoPolicyFacts DEF ClearedStatuses

\* A row as markVersion, MarkStable and MarkEvalResult rewrite it.
LEMMA Restated ==
  ASSUME NEW row \in PolicyRows,
         NEW status \in {"published", "evaluated", "canary", "stable", "deprecated", "rolled_back"}
  PROVE  /\ [row EXCEPT !.status = status] \in PolicyRows
         /\ [row EXCEPT !.status = status] # NoPolicy
         /\ [row EXCEPT !.status = status].status = status
         /\ [row EXCEPT !.status = status].body = row.body
<1>1. /\ [row EXCEPT !.status = status] \in PolicyRows
      /\ [row EXCEPT !.status = status].status = status
      /\ [row EXCEPT !.status = status].body = row.body
  BY DEF PolicyRows
<1> QED BY <1>1, NoPolicyFacts

LEMMA Upserted ==
  ASSUME PolicyInv, NEW v \in PolicyVersions, NEW row \in PolicyRows
  PROVE  /\ Upsert(v, row) \in PolicyRows /\ Upsert(v, row) # NoPolicy
         /\ Upsert(v, row).status = row.status /\ Upsert(v, row).body = row.body
<1>1. /\ Upsert(v, row) \in PolicyRows
      /\ Upsert(v, row).status = row.status /\ Upsert(v, row).body = row.body
  <2>1. CASE policyRow[v] = NoPolicy
    BY <2>1 DEF Upsert
  <2>2. CASE policyRow[v] # NoPolicy
    <3>1. policyRow[v].age \in Nat /\ Upsert(v, row) = [row EXCEPT !.age = policyRow[v].age]
      BY <2>2, RowFacts DEF Upsert, PolicyRows
    <3> QED BY <3>1 DEF PolicyRows
  <2> QED BY <2>1, <2>2
<1> QED BY <1>1, NoPolicyFacts

\* The row of one version is written.
LEMMA RowWrite ==
  ASSUME PolicyInv, NEW c \in PolicyCallers, NEW s \in PolicyLocals, PolicyGoto(c, s), HandlerOK(s)',
         NEW v \in PolicyVersions, NEW row \in PolicyRows, row # NoPolicy,
         policyRow' = [policyRow EXCEPT ![v] = row],
         passed \subseteq passed', crossed \subseteq crossed', UNCHANGED <<policyDraft, inForce>>,
         row.status \in ClearedStatuses => Cleared(v, row.body)',
         BetweenReads(v) => Cleared(v, row.body)'
  PROVE  PolicyInv'
<1>1. policyRow \in [PolicyVersions -> {NoPolicy} \cup PolicyRows]
  BY DEF PolicyInv, PolicyTables
<1>2. /\ policyRow' \in [PolicyVersions -> {NoPolicy} \cup PolicyRows]
      /\ \A w \in PolicyVersions : policyRow'[w] = IF w = v THEN row ELSE policyRow[w]
  BY <1>1
<1>3. \A w, body : Cleared(w, body) => Cleared(w, body)'
  BY DEF Cleared
<1>4. TablesGrow
  BY <1>2 DEF TablesGrow
<1>5. ASSUME NEW b \in PolicyCallers, b # c
      PROVE  Undisturbed(policyCaller[b])
  <2>1. ASSUME NEW w \in PolicyVersions
        PROVE  \/ Cleared(w, policyRow[w].body)'
               \/ policyRow'[w] = policyRow[w]
               \/ ~(/\ policyCaller[b].v = w
                    /\ \/ policyCaller[b].pc \in {"get", "markEval"}
                       \/ policyCaller[b].pc = "mark" /\ policyCaller[b].command = "canary")
    <3>1. CASE w # v
      BY <1>2, <3>1
    <3>2. CASE w = v /\ Cleared(v, row.body)'
      BY <1>2, <3>2 DEF Cleared
    <3>3. CASE w = v /\ ~BetweenReads(v)
      BY <3>3 DEF BetweenReads
    <3> QED BY <3>1, <3>2, <3>3
  <2> QED BY <2>1 DEF Undisturbed
<1>6. HandlersOK'
  BY <1>4, <1>5, HandlersKept
<1>7. PolicyTables'
  BY <1>2 DEF PolicyInv, PolicyTables
<1>8. RowsCleared'
  <2>1. ASSUME NEW w \in PolicyVersions, policyRow'[w].status \in ClearedStatuses
        PROVE  Cleared(w, policyRow[w].body)'
    BY <1>2, <1>3, <2>1 DEF PolicyInv, RowsCleared, Cleared
  <2> QED BY <2>1 DEF RowsCleared
<1>9. InForceWasEvaluated'
  BY DEF PolicyInv, InForceWasEvaluated
<1> QED BY <1>6, <1>7, <1>8, <1>9 DEF PolicyInv

LEMMA SavePublishedStep ==
  ASSUME PolicyInv, NEW c \in PolicyCallers, SavePublished(c)
  PROVE  PolicyInv'
<1>1. PICK r : r = policyCaller[c]
  OBVIOUS
<1>2. r \in DraftLocals
  BY <1>1, HandlerKinds DEF SavePublished
<1>3. /\ r.d \in PolicyDrafts /\ r.draft \in PolicyDraftRows /\ r.draft.version \in PolicyVersions
      /\ r.draft.body \in PolicyBodies /\ r.d \in Nat
  BY <1>2, PolicyReleaseAssumption DEF DraftLocals, PolicyDraftRows
<1>4. PICK new : new = [status |-> "published", body |-> r.draft.body, age |-> r.d]
  OBVIOUS
<1>5. new \in PolicyRows /\ new.status = "published"
  BY <1>3, <1>4 DEF PolicyRows
<1>6. PICK v : v = r.draft.version
  OBVIOUS
<1>7. PICK row : row = Upsert(v, new)
  OBVIOUS
<1>8. v \in PolicyVersions /\ row \in PolicyRows /\ row # NoPolicy /\ row.status = "published"
  BY <1>3, <1>5, <1>6, <1>7, Upserted
<1>9. PICK s : s = [r EXCEPT !.pc = "saveDraft", !.draft.status = "published"]
  OBVIOUS
<1>10. s \in DraftLocals
  BY <1>2, <1>9 DEF DraftLocals, PolicyDraftRows
<1>11. /\ policyRow' = [policyRow EXCEPT ![v] = row] /\ PolicyGoto(c, s)
       /\ crossed' = crossed \cup Crossing(v, r.draft.body)
       /\ UNCHANGED <<policyDraft, inForce, passed>>
  BY <1>1, <1>4, <1>6, <1>7, <1>9 DEF SavePublished
<1>12. /\ crossed \subseteq crossed' /\ passed \subseteq passed'
       /\ BetweenReads(v) => Cleared(v, row.body)'
  <2>1. row.body = r.draft.body
    BY <1>4, <1>5, <1>7, <1>8, Upserted
  <2>2. BetweenReads(v) => <<v, row.body>> \in crossed'
    BY <1>11, <2>1 DEF Crossing
  <2> QED BY <1>11, <2>2 DEF Cleared
<1>13. row.status \notin ClearedStatuses
  BY <1>8 DEF ClearedStatuses
<1>14. s \in PolicyLocals /\ HandlerOK(s)'
  BY <1>10, DraftLocalsOK
<1> QED BY <1>8, <1>11, <1>12, <1>13, <1>14, RowWrite

LEMMA RequestLocalsOK ==
  ASSUME NEW command \in {"eval", "canary", "stable", "rollback"}, NEW v \in PolicyVersions,
         NEW pc \in {"check", "save"}, NEW row \in PolicyRows,
         NEW a \in PolicyApprovals \cup {"none"}, NEW reason \in BOOLEAN
  PROVE  [VersionRequest(pc, command, v) EXCEPT !.approval = a, !.reason = reason, !.row = row]
           \in VersionLocals
BY DEF VersionRequest, VersionLocals

LEMMA EvalRunStep ==
  ASSUME PolicyInv, NEW c \in PolicyCallers, NEW v \in PolicyVersions, EvalRun(c, v)
  PROVE  PolicyInv'
<1>1. PICK s : s = [VersionRequest("markEval", "eval", v) EXCEPT !.evaluated = Body(v)]
  OBVIOUS
<1>2. PolicyGoto(c, s) /\ UNCHANGED <<policyTables, passed, crossed>>
  BY <1>1 DEF EvalRun, PolicyArrive
<1>3. Body(v) \in {NoPolicy} \cup PolicyBodies
  BY RowFacts DEF Body, PolicyRows
<1>4. s \in VersionLocals /\ s.pc = "markEval" /\ s.v = v /\ s.command = "eval" /\ s.evaluated = Body(v)
  BY <1>1, <1>3 DEF VersionRequest, VersionLocals
<1>5. s \notin PatchLocals
  BY <1>4 DEF PatchLocals
<1>6. policyRow[v] # NoPolicy => Vouched(s, policyRow[v].body)
  BY <1>4 DEF Vouched, Body
<1>7. HandlerOK(s)
  BY <1>4, <1>5, <1>6 DEF HandlerOK
<1> QED BY <1>2, <1>4, <1>7, VersionStep

\* The row that is read says what was evaluated, or was written in between.
LEMMA EvalResultStep ==
  ASSUME PolicyInv, NEW c \in PolicyCallers, MarkEvalResult(c)
  PROVE  PolicyInv'
<1>1. PICK r : r = policyCaller[c]
  OBVIOUS
<1>2. r \in VersionLocals /\ r.pc = "markEval" /\ UNCHANGED <<policyTables, passed, crossed>>
  BY <1>1, HandlerKinds DEF MarkEvalResult
<1>3. CASE PolicyReturn(c)
  BY <1>2, <1>3, PolicyReturnStep
<1>4. CASE /\ policyRow[r.v] # NoPolicy
           /\ PolicyGoto(c, [r EXCEPT !.pc = "save", !.row = [policyRow[r.v] EXCEPT !.status = "evaluated"]])
  <2>1. PICK old : old = policyRow[r.v]
    OBVIOUS
  <2>2. r.v \in PolicyVersions /\ old \in PolicyRows
    BY <1>2, <1>4, <2>1, RowFacts DEF VersionLocals
  <2>3. PICK row : row = [old EXCEPT !.status = "evaluated"]
    OBVIOUS
  <2>4. row \in PolicyRows /\ row # NoPolicy /\ row.status = "evaluated" /\ row.body = old.body
    BY <2>2, <2>3, Restated
  <2>5. PICK s : s = [r EXCEPT !.pc = "save", !.row = row]
    OBVIOUS
  <2>6. /\ s \in VersionLocals /\ s.pc = "save" /\ s.v = r.v /\ s.command = r.command /\ s.row = row
        /\ s.evaluated = r.evaluated
    BY <1>2, <2>4, <2>5 DEF VersionLocals
  <2>7. r.command = "eval" /\ Vouched(r, old.body)
    BY <1>1, <1>2, <1>4, <2>1, HandlerKinds DEF HandlerOK
  <2>8. Vouched(s, s.row.body)
    BY <2>4, <2>6, <2>7 DEF Vouched
  <2>9. s \notin PatchLocals
    BY <2>6 DEF PatchLocals
  <2>10. HandlerOK(s)
    BY <1>4, <2>4, <2>6, <2>7, <2>8, <2>9 DEF HandlerOK
  <2> QED BY <1>2, <1>4, <2>1, <2>3, <2>5, <2>6, <2>10, VersionStep
<1> QED BY <1>1, <1>3, <1>4 DEF MarkEvalResult

LEMMA ReleaseActionStep ==
  ASSUME PolicyInv, NEW c \in PolicyCallers, NEW v \in PolicyVersions,
         NEW command \in {"canary", "stable", "rollback"}, NEW a \in PolicyApprovals \cup {"none"},
         policyReleaseAction(c, command, v, a)
  PROVE  PolicyInv'
<1>1. UNCHANGED <<policyTables, passed, crossed>> /\ policyRow[v] \in PolicyRows
      /\ policyRow[v] # NoPolicy
  BY RowFacts DEF policyReleaseAction
<1>2. PICK row : row = policyRow[v]
  OBVIOUS
<1>3. PICK reason \in BOOLEAN :
        PolicyGoto(c, [VersionRequest("check", command, v) EXCEPT
                         !.approval = a, !.reason = reason, !.row = row])
  BY <1>2 DEF policyReleaseAction, PolicyArrive
<1>4. PICK s : s = [VersionRequest("check", command, v) EXCEPT
                      !.approval = a, !.reason = reason, !.row = row]
  OBVIOUS
<1>5. s \in VersionLocals
  BY <1>1, <1>2, <1>4, RequestLocalsOK
<1>6. s.pc = "check" /\ s.v = v
  BY <1>4 DEF VersionRequest
<1>7. s \notin PatchLocals
  BY <1>6 DEF PatchLocals
<1>8. HandlerOK(s)
  BY <1>1, <1>6, <1>7 DEF HandlerOK
<1> QED BY <1>1, <1>3, <1>4, <1>5, <1>8, VersionStep

\* The handler of a version goes from one step to the next with what it holds.
LEMMA LocalsFacts ==
  ASSUME PolicyInv, NEW c \in PolicyCallers, NEW r, r = policyCaller[c], r \in VersionLocals,
         r.pc # "markEval"
  PROVE  /\ r.v \in PolicyVersions /\ policyRow[r.v] \in PolicyRows /\ policyRow[r.v] # NoPolicy
         /\ r.command \in {"eval", "canary", "stable", "rollback"}
         /\ r.row = NoPolicy \/ r.row \in PolicyRows
         /\ HandlerOK(r)
<1>1. r.v \in PolicyVersions /\ r.command \in {"eval", "canary", "stable", "rollback"}
      /\ r.row \in {NoPolicy} \cup PolicyRows
  BY DEF VersionLocals
<1>2. HandlerOK(r)
  BY HandlerKinds
<1>3. policyRow[r.v] # NoPolicy
  BY <1>2 DEF HandlerOK
<1> QED BY <1>1, <1>2, <1>3, RowFacts

LEMMA PlainMove ==
  ASSUME PolicyInv, NEW c \in PolicyCallers, NEW r, r = policyCaller[c], r \in VersionLocals,
         r.pc # "markEval", NEW pc \in {"consume", "perform", "mark"}, pc = "mark" => r.command = "rollback",
         PolicyGoto(c, [r EXCEPT !.pc = pc]), UNCHANGED <<policyTables, passed, crossed>>
  PROVE  PolicyInv'
<1>1. PICK s : s = [r EXCEPT !.pc = pc]
  OBVIOUS
<1>2. s \in VersionLocals /\ s.pc = pc /\ s.v = r.v /\ s.command = r.command
  BY <1>1 DEF VersionLocals
<1>3. s \notin PatchLocals
  BY <1>2 DEF PatchLocals
<1>4. HandlerOK(s)
  BY <1>2, <1>3, LocalsFacts DEF HandlerOK
<1> QED BY <1>1, <1>2, <1>4, VersionStep

LEMMA EvaluateStep ==
  ASSUME PolicyInv, NEW c \in PolicyCallers, Evaluate(c)
  PROVE  PolicyInv'
<1>1. PICK r : r = policyCaller[c]
  OBVIOUS
<1>2. r \in VersionLocals /\ r.pc = "check" /\ UNCHANGED <<policyTables, passed, crossed>>
  BY <1>1, HandlerKinds DEF Evaluate
<1>3. \/ PolicyReturn(c)
      \/ PolicyGoto(c, [r EXCEPT !.pc = IF r.approval = "none" THEN "perform" ELSE "consume"])
  BY <1>1 DEF Evaluate
<1>4. CASE PolicyReturn(c)
  BY <1>2, <1>4, PolicyReturnStep
<1>5. CASE PolicyGoto(c, [r EXCEPT !.pc = IF r.approval = "none" THEN "perform" ELSE "consume"])
  <2>1. PICK pc : pc = IF r.approval = "none" THEN "perform" ELSE "consume"
    OBVIOUS
  <2>2. pc \in {"consume", "perform", "mark"} /\ pc # "mark"
    BY <2>1
  <2> QED BY <1>1, <1>2, <1>5, <2>1, <2>2, PlainMove
<1> QED BY <1>3, <1>4, <1>5

LEMMA ConsumePolicyStep ==
  ASSUME PolicyInv, NEW c \in PolicyCallers, ConsumePolicyApproval(c)
  PROVE  PolicyInv'
<1>1. PICK r : r = policyCaller[c]
  OBVIOUS
<1>2. r \in VersionLocals /\ r.pc = "consume" /\ UNCHANGED <<policyTables, passed, crossed>>
  BY <1>1, HandlerKinds DEF ConsumePolicyApproval
<1>3. PolicyReturn(c) \/ PolicyGoto(c, [r EXCEPT !.pc = "perform"])
  BY <1>1 DEF ConsumePolicyApproval
<1>4. CASE PolicyReturn(c)
  BY <1>2, <1>4, PolicyReturnStep
<1>5. CASE PolicyGoto(c, [r EXCEPT !.pc = "perform"])
  BY <1>1, <1>2, <1>5, PlainMove
<1> QED BY <1>3, <1>4, <1>5

\* The handler c goes to "save" with the row of its version restated.
LEMMA RestateMove ==
  ASSUME PolicyInv, NEW c \in PolicyCallers, NEW r, r = policyCaller[c], r \in VersionLocals,
         r.pc # "markEval", NEW status \in {"canary", "stable", "rolled_back"},
         status = "rolled_back" => r.command = "rollback",
         status # "rolled_back" => Cleared(r.v, policyRow[r.v].body),
         PolicyGoto(c, [r EXCEPT !.pc = "save", !.row = [policyRow[r.v] EXCEPT !.status = status]]),
         UNCHANGED <<policyTables, passed, crossed>>
  PROVE  PolicyInv'
<1>1. PICK row : row = [policyRow[r.v] EXCEPT !.status = status]
  OBVIOUS
<1>2. /\ row \in PolicyRows /\ row # NoPolicy /\ row.status = status
      /\ row.body = policyRow[r.v].body
  <2>1. PICK old : old = policyRow[r.v]
    OBVIOUS
  <2>2. old \in PolicyRows
    BY <2>1, LocalsFacts
  <2>3. status \in {"published", "evaluated", "canary", "stable", "deprecated", "rolled_back"}
    OBVIOUS
  <2>4. /\ [old EXCEPT !.status = status] \in PolicyRows
        /\ [old EXCEPT !.status = status] # NoPolicy
        /\ [old EXCEPT !.status = status].status = status
        /\ [old EXCEPT !.status = status].body = old.body
    BY <2>2, <2>3, Restated
  <2> QED BY <1>1, <2>1, <2>4
<1>3. PICK s : s = [r EXCEPT !.pc = "save", !.row = row]
  OBVIOUS
<1>4. s \in VersionLocals /\ s.pc = "save" /\ s.v = r.v /\ s.command = r.command /\ s.row = row
  BY <1>2, <1>3 DEF VersionLocals
<1>5. s \notin PatchLocals
  BY <1>4 DEF PatchLocals
<1>6. HandlerOK(s)
  BY <1>2, <1>4, <1>5, LocalsFacts DEF HandlerOK
<1> QED BY <1>1, <1>3, <1>4, <1>6, VersionStep

LEMMA PerformStep ==
  ASSUME PolicyInv, NEW c \in PolicyCallers, Perform(c)
  PROVE  PolicyInv'
<1>1. PICK r : r = policyCaller[c]
  OBVIOUS
<1>2. r \in VersionLocals /\ r.pc = "perform" /\ UNCHANGED <<policyTables, passed, crossed>>
  BY <1>1, HandlerKinds DEF Perform
<1>3. \/ PolicyReturn(c)
      \/ r.command = "canary" /\ policyRow[r.v].status = "evaluated" /\ PolicyGoto(c, [r EXCEPT !.pc = "mark"])
      \/ /\ policyRow[r.v].status \in {"evaluated", "canary"}
         /\ PolicyGoto(c, [r EXCEPT !.pc = "save", !.row = [policyRow[r.v] EXCEPT !.status = "stable"]])
      \/ r.command = "rollback" /\ PolicyGoto(c, [r EXCEPT !.pc = "mark"])
  BY <1>1 DEF Perform
<1>4. policyRow[r.v].status \in {"evaluated", "canary"} => Cleared(r.v, policyRow[r.v].body)
  BY <1>1, <1>2, LocalsFacts DEF PolicyInv, RowsCleared, ClearedStatuses
<1>5. CASE PolicyReturn(c)
  BY <1>2, <1>5, PolicyReturnStep
<1>6. CASE /\ r.command = "canary" /\ policyRow[r.v].status = "evaluated"
           /\ PolicyGoto(c, [r EXCEPT !.pc = "mark"])
  <2>1. PICK s : s = [r EXCEPT !.pc = "mark"]
    OBVIOUS
  <2>2. s \in VersionLocals /\ s.pc = "mark" /\ s.v = r.v /\ s.command = r.command
    BY <1>2, <2>1 DEF VersionLocals
  <2>3. s \notin PatchLocals
    BY <2>2 DEF PatchLocals
  <2>4. HandlerOK(s)
    BY <1>1, <1>2, <1>4, <1>6, <2>2, <2>3, LocalsFacts DEF HandlerOK
  <2> QED BY <1>2, <1>6, <2>1, <2>2, <2>4, VersionStep
<1>7. CASE /\ policyRow[r.v].status \in {"evaluated", "canary"}
           /\ PolicyGoto(c, [r EXCEPT !.pc = "save", !.row = [policyRow[r.v] EXCEPT !.status = "stable"]])
  BY <1>1, <1>2, <1>4, <1>7, RestateMove
<1>8. CASE r.command = "rollback" /\ PolicyGoto(c, [r EXCEPT !.pc = "mark"])
  BY <1>1, <1>2, <1>8, PlainMove
<1> QED BY <1>3, <1>5, <1>6, <1>7, <1>8

LEMMA MarkVersionStep ==
  ASSUME PolicyInv, NEW c \in PolicyCallers, markVersion(c)
  PROVE  PolicyInv'
<1>1. PICK r : r = policyCaller[c]
  OBVIOUS
<1>2. r \in VersionLocals /\ r.pc = "mark" /\ UNCHANGED <<policyTables, passed, crossed>>
  BY <1>1, HandlerKinds DEF markVersion
<1>3. PICK status : status = IF r.command = "canary" THEN "canary" ELSE "rolled_back"
  OBVIOUS
<1>4. PolicyGoto(c, [r EXCEPT !.pc = "save", !.row = [policyRow[r.v] EXCEPT !.status = status]])
  BY <1>1, <1>3 DEF markVersion
<1>5. r.command \in {"canary", "rollback"}
  BY <1>1, <1>2, LocalsFacts DEF HandlerOK
<1>6. r.command = "canary" => Cleared(r.v, policyRow[r.v].body)
  BY <1>1, <1>2, LocalsFacts DEF HandlerOK
<1> QED BY <1>1, <1>2, <1>3, <1>4, <1>5, <1>6, RestateMove

LEMMA SaveVersionStep ==
  ASSUME PolicyInv, NEW c \in PolicyCallers, SaveVersion(c)
  PROVE  PolicyInv'
<1>1. PICK r : r = policyCaller[c]
  OBVIOUS
<1>2. r \in VersionLocals /\ r.pc = "save" /\ UNCHANGED <<policyDraft, inForce>>
  BY <1>1, HandlerKinds DEF SaveVersion
<1>3. r.v \in PolicyVersions /\ r.row \in PolicyRows /\ HandlerOK(r) /\ policyRow[r.v] # NoPolicy
  BY <1>1, <1>2, LocalsFacts DEF HandlerOK
<1>4. \/ r.row.status = "evaluated" /\ r.command = "eval" /\ Vouched(r, r.row.body)
      \/ r.row.status \in {"canary", "stable"} /\ Cleared(r.v, r.row.body)
      \/ r.row.status = "rolled_back" /\ r.command = "rollback"
  BY <1>2, <1>3 DEF HandlerOK
<1>5. CASE r.row.status = "stable"
  <2>1. PICK found : found = StableBut(r.v)
    OBVIOUS
  <2>2. found \in SUBSET PolicyVersions
    BY <2>1 DEF StableBut
  <2>3. PICK s : s = [r EXCEPT !.pc = "commit", !.found = found]
    OBVIOUS
  <2>4. s \in VersionLocals /\ s.pc = "commit" /\ s.v = r.v /\ s.row = r.row
    BY <1>2, <2>2, <2>3 DEF VersionLocals
  <2>5. s \notin PatchLocals
    BY <2>4 DEF PatchLocals
  <2>6. HandlerOK(s)
    BY <1>3, <1>4, <1>5, <2>4, <2>5, NoPolicyFacts DEF HandlerOK
  <2>7. PolicyGoto(c, s) /\ UNCHANGED <<policyTables, passed, crossed>>
    BY <1>1, <1>5, <2>1, <2>3 DEF SaveVersion, policyTables
  <2> QED BY <2>4, <2>6, <2>7, VersionStep
<1>6. CASE r.row.status # "stable"
  <2>1. PICK row : row = Upsert(r.v, r.row)
    OBVIOUS
  <2>2. /\ row \in PolicyRows /\ row # NoPolicy
        /\ row.status = r.row.status /\ row.body = r.row.body
    BY <1>3, <2>1, Upserted
  <2>3. /\ policyRow' = [policyRow EXCEPT ![r.v] = row]
        /\ passed' = IF r.command = "eval" THEN passed \cup {<<r.v, r.evaluated>>} ELSE passed
        /\ IF r.command = "rollback"
           THEN /\ PolicyGoto(c, [r EXCEPT !.pc = "list", !.row = NoPolicy])
                /\ crossed' = crossed \cup Crossing(r.v, r.row.body)
           ELSE PolicyReturn(c) /\ UNCHANGED crossed
    BY <1>1, <1>6, <2>1 DEF SaveVersion
  <2>4. passed \subseteq passed' /\ crossed \subseteq crossed'
    BY <2>3
  <2>5. \/ Cleared(r.v, row.body)'
        \/ r.command = "rollback" /\ row.status = "rolled_back"
    BY <1>4, <2>2, <2>3, <2>4 DEF Cleared, Vouched
  <2>6. PICK s \in PolicyLocals : PolicyGoto(c, s) /\ HandlerOK(s)'
    <3>1. CASE r.command # "rollback"
      BY <2>3, <3>1, IdleFacts DEF PolicyReturn
    <3>2. CASE r.command = "rollback"
      <4>1. PICK s : s = [r EXCEPT !.pc = "list", !.row = NoPolicy]
        OBVIOUS
      <4>2. s \in VersionLocals /\ s.pc = "list" /\ s.v = r.v
        BY <1>2, <4>1 DEF VersionLocals
      <4>3. s \notin PatchLocals
        BY <4>2 DEF PatchLocals
      <4>4. policyRow'[r.v] # NoPolicy
        <5>1. policyRow \in [PolicyVersions -> {NoPolicy} \cup PolicyRows]
          BY DEF PolicyInv, PolicyTables
        <5> QED BY <1>3, <2>2, <2>3, <5>1
      <4>5. HandlerOK(s)'
        BY <4>2, <4>3, <4>4 DEF HandlerOK
      <4>6. PolicyGoto(c, s) /\ s \in PolicyLocals
        BY <2>3, <3>2, <4>1, <4>2 DEF PolicyLocals
      <4> QED BY <4>5, <4>6
    <3> QED BY <3>1, <3>2
  <2>7. row.status \in ClearedStatuses => Cleared(r.v, row.body)'
    BY <2>5 DEF ClearedStatuses
  <2>8. BetweenReads(r.v) => Cleared(r.v, row.body)'
    BY <2>2, <2>3, <2>5 DEF Crossing, Cleared
  <2> QED BY <1>2, <1>3, <2>2, <2>3, <2>4, <2>6, <2>7, <2>8, RowWrite
<1> QED BY <1>5, <1>6

LEMMA CommitStableStep ==
  ASSUME PolicyInv, NEW c \in PolicyCallers, CommitStable(c)
  PROVE  PolicyInv'
<1>1. PICK r : r = policyCaller[c]
  OBVIOUS
<1>2. r \in VersionLocals /\ r.pc = "commit" /\ UNCHANGED <<policyDraft, passed, crossed>>
  BY <1>1, HandlerKinds DEF CommitStable
<1>3. r.v \in PolicyVersions /\ r.row \in PolicyRows /\ HandlerOK(r) /\ r.row.status = "stable"
      /\ Cleared(r.v, r.row.body)
  BY <1>1, <1>2, LocalsFacts DEF HandlerOK
<1>4. PICK row : row = Upsert(r.v, r.row)
  OBVIOUS
<1>5. /\ row \in PolicyRows /\ row # NoPolicy /\ row.body = r.row.body
  BY <1>3, <1>4, Upserted
<1>6. /\ policyRow' = Promoted(r.v, r.row, r.found) /\ inForce' = [version |-> r.v, body |-> r.row.body]
      /\ PolicyGoto(c, [r EXCEPT !.pc = "put"])
  BY <1>1 DEF CommitStable, Put
<1>7. ASSUME NEW w \in PolicyVersions
      PROVE  /\ policyRow'[w] = NoPolicy \/ policyRow'[w] \in PolicyRows
             /\ policyRow[w] # NoPolicy => policyRow'[w] # NoPolicy
             /\ w = r.v => policyRow'[w].body = r.row.body
             /\ w # r.v => /\ \/ policyRow'[w] = policyRow[w]
                              \/ policyRow[w] # NoPolicy /\ policyRow'[w].body = policyRow[w].body
                           /\ policyRow'[w].status \in ClearedStatuses
                                => policyRow[w].status \in ClearedStatuses
  <2>1. CASE w = r.v
    BY <1>4, <1>5, <1>6, <2>1 DEF Promoted
  <2>2. CASE w # r.v /\ w \in r.found /\ policyRow[w].status = "stable"
    <3>1. policyRow[w] \in PolicyRows /\ policyRow[w].status \in ClearedStatuses
      BY <2>2, RowFacts DEF ClearedStatuses
    <3>2. policyRow'[w] = [policyRow[w] EXCEPT !.status = "deprecated"]
      BY <1>6, <2>2 DEF Promoted
    <3>3. PICK old : old = policyRow[w]
      OBVIOUS
    <3>4. /\ [old EXCEPT !.status = "deprecated"] \in PolicyRows
          /\ [old EXCEPT !.status = "deprecated"].body = old.body
      BY <3>1, <3>3 DEF PolicyRows
    <3> QED BY <2>2, <3>1, <3>2, <3>3, <3>4, NoPolicyFacts
  <2>3. CASE w # r.v /\ ~(w \in r.found /\ policyRow[w].status = "stable")
    <3>1. policyRow'[w] = policyRow[w]
      BY <1>6, <2>3 DEF Promoted
    <3> QED BY <2>3, <3>1, RowFacts
  <2> QED BY <2>1, <2>2, <2>3
<1>8. TablesGrow
  BY <1>2, <1>7 DEF TablesGrow
<1>9. \A w, body : Cleared(w, body)' <=> Cleared(w, body)
  BY <1>2 DEF Cleared
<1>10. \A u : Undisturbed(u)
  BY <1>3, <1>7, <1>9 DEF Undisturbed, Cleared
<1>11. HandlersOK'
  <2>1. PICK s : s = [r EXCEPT !.pc = "put"]
    OBVIOUS
  <2>2. s \in VersionLocals /\ s.pc = "put" /\ s.v = r.v /\ s.row = r.row
    BY <1>2, <2>1 DEF VersionLocals
  <2>3. s \notin PatchLocals /\ s \in PolicyLocals
    BY <2>2 DEF PatchLocals, PolicyLocals
  <2>4. policyRow'[r.v] # NoPolicy
    BY <1>3, <1>4, <1>5, <1>6 DEF Promoted
  <2>5. Cleared(s.v, s.row.body)'
    BY <1>3, <1>9, <2>2
  <2>6. HandlerOK(s)'
    BY <1>3, <2>2, <2>3, <2>4, <2>5, NoPolicyFacts DEF HandlerOK
  <2> QED BY <1>6, <1>8, <1>10, <2>1, <2>3, <2>6, HandlersKept
<1>12. PolicyTables'
  <2>1. policyRow' \in [PolicyVersions -> {NoPolicy} \cup PolicyRows]
    <3>1. policyRow' = [w \in PolicyVersions |-> policyRow'[w]]
      BY <1>6 DEF Promoted
    <3> QED BY <1>7, <3>1
  <2> QED BY <1>2, <2>1 DEF PolicyInv, PolicyTables
<1>13. RowsCleared'
  <2>1. ASSUME NEW w \in PolicyVersions, policyRow'[w].status \in ClearedStatuses
        PROVE  Cleared(w, policyRow[w].body)'
    <3>1. Cleared(w, policyRow'[w].body)
      BY <1>3, <1>7, <2>1 DEF PolicyInv, RowsCleared
    <3> QED BY <1>2, <3>1 DEF Cleared
  <2> QED BY <2>1 DEF RowsCleared
<1>14. InForceWasEvaluated'
  BY <1>2, <1>3, <1>6 DEF InForceWasEvaluated, Cleared
<1> QED BY <1>11, <1>12, <1>13, <1>14 DEF PolicyInv

LEMMA PutAgainStep ==
  ASSUME PolicyInv, NEW c \in PolicyCallers, PutAgain(c)
  PROVE  PolicyInv'
<1>1. PICK r : r = policyCaller[c]
  OBVIOUS
<1>2. /\ r \in VersionLocals /\ r.pc = "put" /\ PolicyGoto(c, PolicyIdle)
      /\ UNCHANGED <<policyDraft, policyRow, passed, crossed>>
      /\ inForce' = [version |-> r.v, body |-> r.row.body]
  BY <1>1, HandlerKinds DEF PutAgain, PolicyReturn, Put
<1>3. Cleared(r.v, r.row.body)
  BY <1>1, <1>2, LocalsFacts DEF HandlerOK
<1>4. InForceWasEvaluated'
  BY <1>2, <1>3 DEF InForceWasEvaluated, Cleared
<1>5. TablesGrow /\ \A u : Undisturbed(u)
  BY <1>2 DEF TablesGrow, Undisturbed
<1>6. HandlersOK'
  BY <1>2, <1>5, IdleFacts, HandlersKept
<1>7. PolicyTables' /\ RowsCleared'
  BY <1>2 DEF PolicyInv, PolicyTables, RowsCleared, Cleared
<1> QED BY <1>4, <1>6, <1>7 DEF PolicyInv

LEMMA FallbackStep ==
  ASSUME PolicyInv, NEW c \in PolicyCallers, rollbackFallback(c)
  PROVE  PolicyInv'
<1>1. PICK r : r = policyCaller[c]
  OBVIOUS
<1>2. r \in VersionLocals /\ UNCHANGED <<policyTables, passed, crossed>>
  BY <1>1, HandlerKinds DEF rollbackFallback
<1>3. CASE PolicyReturn(c)
  BY <1>2, <1>3, PolicyReturnStep
<1>4. ASSUME NEW w \in Fallbacks(r.v), PolicyGoto(c, [r EXCEPT !.pc = "get", !.v = w])
      PROVE  PolicyInv'
  <2>1. w \in PolicyVersions /\ rollbackCandidateRank(policyRow[w].status) > 0
    BY DEF Fallbacks
  <2>2. policyRow[w].status \in {"stable", "canary", "evaluated"}
    <3>1. ASSUME NEW status, status # "stable", status # "canary", status # "evaluated"
          PROVE  rollbackCandidateRank(status) = 0
      BY <3>1, Zenon DEF rollbackCandidateRank
    <3> QED BY <2>1, <3>1
  <2>3. Cleared(w, policyRow[w].body) /\ policyRow[w] # NoPolicy
    BY <2>1, <2>2, RowFacts, NoPolicyFacts DEF PolicyInv, RowsCleared, ClearedStatuses
  <2>4. PICK s : s = [r EXCEPT !.pc = "get", !.v = w]
    OBVIOUS
  <2>5. s \in VersionLocals /\ s.pc = "get" /\ s.v = w
    BY <1>2, <2>1, <2>4 DEF VersionLocals
  <2>6. s \notin PatchLocals
    BY <2>5 DEF PatchLocals
  <2>7. HandlerOK(s)
    BY <2>3, <2>5, <2>6 DEF HandlerOK
  <2> QED BY <1>2, <1>4, <2>4, <2>5, <2>7, VersionStep
<1> QED BY <1>1, <1>3, <1>4 DEF rollbackFallback

LEMMA GetFallbackStep ==
  ASSUME PolicyInv, NEW c \in PolicyCallers, GetFallback(c)
  PROVE  PolicyInv'
<1>1. PICK r : r = policyCaller[c]
  OBVIOUS
<1>2. /\ r \in VersionLocals /\ r.pc = "get" /\ UNCHANGED <<policyTables, passed, crossed>>
      /\ PolicyGoto(c, [r EXCEPT !.pc = "save", !.row = [policyRow[r.v] EXCEPT !.status = "stable"]])
  BY <1>1, HandlerKinds DEF GetFallback
<1>3. Cleared(r.v, policyRow[r.v].body)
  BY <1>1, <1>2, LocalsFacts DEF HandlerOK
<1> QED BY <1>1, <1>2, <1>3, RestateMove

LEMMA PolicyNextInv == PolicyInv /\ [PolicyNext]_policyVars => PolicyInv'
<1> SUFFICES ASSUME PolicyInv, [PolicyNext]_policyVars PROVE PolicyInv'
  OBVIOUS
<1>1. ASSUME NEW c \in PolicyCallers, PolicyStep(c) PROVE PolicyInv'
  <2>1. CASE PolicyCallFails(c)
    BY <2>1, PolicyReturnStep DEF PolicyCallFails
  <2> QED BY <1>1, <2>1, PatchDraftStep, SaveDraftStep, SavePublishedStep, EvaluateStep,
             ConsumePolicyStep, PerformStep, EvalResultStep, MarkVersionStep, SaveVersionStep, CommitStableStep,
             PutAgainStep, FallbackStep, GetFallbackStep DEF PolicyStep
<1>2. ASSUME NEW a \in PolicyApprovals, NEW status \in {"approved", "rejected"},
             ResolvePolicyApproval(a, status)
      PROVE  UNCHANGED <<policyTables, policyCaller, passed, crossed>>
  BY <1>2 DEF ResolvePolicyApproval
<1>3. ASSUME NEW r \in PolicyRuns, StartRun(r) \/ currentPolicyVersionID(r)
      PROVE  UNCHANGED <<policyTables, policyCaller, passed, crossed>>
  BY <1>3 DEF StartRun, currentPolicyVersionID
<1>4. CASE UNCHANGED <<policyTables, policyCaller, passed, crossed>>
  <2>1. policyDraft' \in [PolicyDrafts -> {NoPolicy} \cup PolicyDraftRows]
        /\ UNCHANGED <<policyDraft, policyRow, inForce, policyCaller, passed, crossed>>
    BY <1>4 DEF PolicyInv, PolicyTables, policyTables
  <2> QED BY <2>1, QuietPolicy
<1>5. CASE UNCHANGED policyVars
  BY <1>4, <1>5 DEF policyVars
<1> QED BY <1>1, <1>2, <1>3, <1>4, <1>5, DraftSteps, EvalRunStep, ReleaseActionStep DEF PolicyNext

(***************************************************************************)
(* The policy in force has passed an evaluation, for any number of callers *)
(* drafts and versions and any rules, but for a body that is written where *)
(* a command on its version will read it without looking, after the        *)
(* evaluation or the status it goes by (engine.go MarkEvalResult,          *)
(* MarkCanary, Rollback).                                                  *)
(***************************************************************************)
THEOREM PolicyInForceWasEvaluated == PolicySpec => []InForceWasEvaluated
<1>1. PolicyInv => InForceWasEvaluated
  BY DEF PolicyInv
<1> QED BY <1>1, PolicyInitInv, PolicyNextInv, PTL DEF PolicySpec
=============================================================================
