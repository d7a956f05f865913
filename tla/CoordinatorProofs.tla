------------------------- MODULE CoordinatorProofs -------------------------
(***************************************************************************)
(* Proofs about Coordinator, for any runs, approvers, tools and limits.    *)
(***************************************************************************)
EXTENDS Coordinator, OrderFacts, FiniteSetTheorems, SequenceTheorems, TLAPS

\* Where a goroutine has calls of its decision left.
CallPCs  == {"tool", "invoke", "saveResult", "tool_waiting", "tool_completed", "result"}

\* Where it has the result of an invocation to save.
SavePCs  == {"saveResult", "approvedSave"}

\* Where an approver's grant has not been used yet.
GrantPCs == {"find", "approvedInvoke"}

\* Before or after a goroutine has a run that was started.
UnstartedPCs == {"idle", "accept", "find", "done"}

(***************************************************************************)
(* The locals of a goroutine: it has a run, calls to make and a step       *)
(* within the limit where it uses them, and a call that was approved or    *)
(* that waits for approval is of a tool that asks for it.                  *)
(***************************************************************************)
LocalsOK(s) ==
  /\ s.pc \notin {"idle", "find", "done"} => s.run \in Runs
  /\ s.pc \in CallPCs => s.calls # <<>>
  /\ s.pc = "approvedInvoke" => s.call \in CallRows /\ s.call.tool \in Gated
  /\ s.pc \in SavePCs => /\ s.call \in CallRows /\ s.result \in ResultStatuses
                         /\ s.result = "pending" => s.call.tool \in Gated
  /\ s.pc \in DecidingPCs => s.step \in 1..MaxSteps

ThreadsOK == \A h \in Threads : LocalsOK(thread[h])

(***************************************************************************)
(* Step numbers are given out by IncrementStep: a goroutine's step is not  *)
(* beyond the count of its run.                                            *)
(***************************************************************************)
StepsCounted == \A h \in Threads : Deciding(h) => thread[h].step <= run[thread[h].run].stepCount

(***************************************************************************)
(* The runs that got past acceptance, by their status, by a goroutine that *)
(* drives them or by their event.  There is at most one: a task that is    *)
(* still created has none, and no command leads back to created.           *)
(***************************************************************************)
StartedRuns ==
  { r \in Runs : \/ run[r].status \notin {"absent", "created"}
                 \/ r \in asked
                 \/ \E h \in Threads : thread[h].pc \notin UnstartedPCs /\ thread[h].run = r }

OneStarted ==
  /\ \A r, s \in StartedRuns : r = s
  /\ task = "created" => StartedRuns = {}

(***************************************************************************)
(* A goroutine about to mark its run completed has completed the task.     *)
(***************************************************************************)
CompletionOK ==
  /\ CompletedTogether
  /\ \A h \in Threads : thread[h].pc = "markCompleted" => task = "completed"

\* The row of a supplied key is of a call that gave the key.
SavedGiven == \A k \in SuppliedKeys : saved[k] # NoCall => saved[k].given = k

(***************************************************************************)
(* A call that was executed is of the run it was executed for and has a    *)
(* result, or no goroutine is in the step it belongs to but the one about  *)
(* to save its result.  This is said of the calls whose key the server     *)
(* derived: a supplied key may come from any step.                         *)
(***************************************************************************)
Keyless(key) == key.tool \notin Gated /\ key.given = Ungiven

Saved(key) == \E i \in DOMAIN results[key.run] : results[key.run][i].key = key

\* After this step the call h is at has a result.
CallSaved(h) == \A key \in CallRows : key = thread[h].call => Saved(key)'

ExecutionOK(r, key) ==
  /\ key.run = r /\ key.step <= run[r].stepCount
  /\ \/ Saved(key)
     \/ \A h \in Threads :
          Deciding(h) /\ thread[h].run = r /\ thread[h].step = key.step =>
            thread[h].pc = "saveResult" /\ thread[h].call = key

PlainExecuted ==
  \A r \in Runs : \A i \in DOMAIN executed[r] :
    Keyless(executed[r][i]) => ExecutionOK(r, executed[r][i])

\* Only a tool that asks for approval has a pending result.
PendingGated ==
  \A r \in Runs : \A i \in DOMAIN results[r] :
    results[r][i].status = "pending" => results[r][i].key.tool \in Gated

(***************************************************************************)
(* An approval is either still in an approver's hands or used for at most  *)
(* one execution.                                                          *)
(***************************************************************************)
Granted == { h \in Threads : thread[h].pc \in GrantPCs }

ApprovalsCover ==
  /\ IsFiniteSet(GatedExecutions) /\ IsFiniteSet(Granted)
  /\ Cardinality(GatedExecutions) + Cardinality(Granted) <= approvals

(***************************************************************************)
(* A call of a run on its own is counted before it is made: the executed   *)
(* ones and those about to be are within the count and within the limit.   *)
(***************************************************************************)
Invoking(r) == { h \in Threads : thread[h].pc = "invoke" /\ thread[h].run = r }

PlainExecutions(r) == { i \in DOMAIN executed[r] : executed[r][i].tool \notin Gated }

CallsCounted ==
  \A r \in Runs :
    LET n == Cardinality(PlainExecutions(r)) + Cardinality(Invoking(r))
    IN  /\ IsFiniteSet(Invoking(r))
        /\ n <= run[r].toolCallCount
        /\ MaxToolCalls > 0 => n <= MaxToolCalls

CInv ==
  /\ CoordinatorTypeOK /\ ThreadsOK /\ StepsCounted /\ StepLimit
  /\ OneStarted /\ CompletionOK
  /\ SavedGiven /\ ExecutedOnce /\ PlainExecuted /\ PendingGated
  /\ ApprovalsCover /\ CallsCounted

-----------------------------------------------------------------------------
(***************************************************************************)
(* What the table of the task state machine says about a command that is   *)
(* accepted.                                                               *)
(***************************************************************************)
LEMMA ApplyFacts ==
  ASSUME NEW status, NEW command, NEW row \in Apply(status, command)
  PROVE  /\ status \in TaskStatuses \ Terminal
         /\ row.to \in TaskStatuses \ {"created"}
         /\ command = "complete" => row.to = "completed"
         /\ command = "accept" => status = "created"
         /\ command \in {"approve_action", "approval_required"} => row.to # status
<1>1. row \in Transitions /\ row.from = status /\ row.command = command
  BY DEF Apply
<1>2. CASE row \in Table
  BY <1>1, <1>2 DEF Table, Row, TaskStatuses, Terminal
<1>3. CASE row \in CancelRows
  BY <1>1, <1>3 DEF CancelRows, Row, TaskStatuses, Terminal
<1> QED BY <1>1, <1>2, <1>3 DEF Transitions

LEMMA TypeFacts ==
  ASSUME CoordinatorTypeOK
  PROVE  /\ \A r \in Runs :
              /\ run[r] \in RunRows /\ run[r].stepCount \in Nat /\ run[r].toolCallCount \in Nat
              /\ executed[r] \in Seq(CallRows) /\ DOMAIN executed[r] = 1..Len(executed[r])
              /\ Len(executed[r]) \in Nat
              /\ \A i \in DOMAIN executed[r] :
                   /\ executed[r][i] \in CallRows /\ executed[r][i].step \in Nat
                   /\ executed[r][i].tool \in Tools /\ executed[r][i].run \in Runs
         /\ \A h \in Threads : thread[h] \in ThreadStates /\ thread[h].step \in Nat
<1>1. ASSUME NEW r \in Runs
      PROVE  /\ run[r] \in RunRows /\ run[r].stepCount \in Nat /\ run[r].toolCallCount \in Nat
             /\ executed[r] \in Seq(CallRows)
  BY DEF CoordinatorTypeOK, RunRows
<1>2. ASSUME NEW e \in Seq(CallRows)
      PROVE  /\ DOMAIN e = 1..Len(e) /\ Len(e) \in Nat
             /\ \A i \in DOMAIN e : e[i] \in CallRows
  OBVIOUS
<1>3. \A key \in CallRows : key.step \in Nat /\ key.tool \in Tools /\ key.run \in Runs
  BY DEF CallRows
<1>4. \A h \in Threads : thread[h] \in ThreadStates /\ thread[h].step \in Nat
  BY DEF CoordinatorTypeOK, ThreadStates
<1> QED BY <1>1, <1>2, <1>3, <1>4

LEMMA PlainFinite ==
  ASSUME CoordinatorTypeOK, NEW r \in Runs
  PROVE  IsFiniteSet(PlainExecutions(r)) /\ Cardinality(PlainExecutions(r)) \in Nat
<1>1. IsFiniteSet(1..Len(executed[r])) /\ DOMAIN executed[r] = 1..Len(executed[r])
  BY FS_Interval, TypeFacts
<1>2. IsFiniteSet(PlainExecutions(r))
  BY <1>1, FS_Subset DEF PlainExecutions
<1> QED BY <1>2, FS_CardinalityType

(***************************************************************************)
(* The goroutine h goes on with the locals s.                              *)
(***************************************************************************)
GoesOn(h, s) ==
  /\ s \in ThreadStates /\ LocalsOK(s)
  /\ thread' = [thread EXCEPT ![h] = s]

LEMMA GoesOnThreads ==
  ASSUME CoordinatorTypeOK, ThreadsOK, NEW h \in Threads, NEW s, GoesOn(h, s)
  PROVE  /\ thread' \in [Threads -> ThreadStates]
         /\ \A g \in Threads : thread'[g] = IF g = h THEN s ELSE thread[g]
         /\ ThreadsOK'
<1>1. thread \in [Threads -> ThreadStates]
  BY DEF CoordinatorTypeOK, ThreadStates
<1>2. \A g \in Threads : thread'[g] = IF g = h THEN s ELSE thread[g]
  BY <1>1 DEF GoesOn
<1>3. thread' \in [Threads -> ThreadStates]
  BY <1>1 DEF GoesOn
<1>4. ThreadsOK'
  BY <1>2 DEF ThreadsOK, GoesOn, LocalsOK
<1> QED BY <1>2, <1>3, <1>4

(***************************************************************************)
(* Where MoveTo leaves a goroutine.                                        *)
(***************************************************************************)
Moved(h, pc) ==
  CASE pc = "done"     -> At(pc)
    [] pc \in InCalls -> [thread[h] EXCEPT !.pc = pc, !.call = NoCall]
    [] pc \in InStep  -> [At(pc) EXCEPT !.run = thread[h].run, !.step = thread[h].step]
    [] OTHER          -> [At(pc) EXCEPT !.run = thread[h].run]

LEMMA MovedFacts ==
  ASSUME CoordinatorTypeOK, NEW h \in Threads, NEW pc \in PCs
  PROVE  /\ MoveTo(h, pc) => thread' = [thread EXCEPT ![h] = Moved(h, pc)]
         /\ Moved(h, pc) \in ThreadStates
         /\ Moved(h, pc).pc = pc
         /\ pc # "done" => Moved(h, pc).run = thread[h].run
         /\ pc \in InCalls \cup InStep => Moved(h, pc).step = thread[h].step
         /\ pc \in InCalls => Moved(h, pc).calls = thread[h].calls
<1>1. thread[h] \in ThreadStates
  BY DEF CoordinatorTypeOK, ThreadStates
<1>2. At(pc) \in ThreadStates /\ At(pc).pc = pc
  BY CoordinatorAssumption DEF At, ThreadStates
<1>3. MoveTo(h, pc) => thread' = [thread EXCEPT ![h] = Moved(h, pc)]
  BY DEF MoveTo, Moved
<1>4. CASE pc = "done"
  <2>1. Moved(h, pc) = At(pc) /\ pc \notin InCalls \cup InStep
    BY <1>4 DEF Moved, InCalls, InStep
  <2> QED BY <1>2, <1>3, <1>4, <2>1
<1>5. CASE pc \in InCalls
  <2>1. Moved(h, pc) = [thread[h] EXCEPT !.pc = pc, !.call = NoCall]
    BY <1>5 DEF Moved, InCalls, InStep
  <2> QED BY <1>1, <1>3, <2>1 DEF ThreadStates
<1>6. CASE pc \in InStep
  <2>1. /\ Moved(h, pc) = [At(pc) EXCEPT !.run = thread[h].run, !.step = thread[h].step]
        /\ pc \notin InCalls
    BY <1>6 DEF Moved, InCalls, InStep
  <2> QED BY <1>1, <1>2, <1>3, <2>1 DEF ThreadStates, At
<1>7. CASE pc # "done" /\ pc \notin InCalls \cup InStep
  <2>1. Moved(h, pc) = [At(pc) EXCEPT !.run = thread[h].run]
    BY <1>7 DEF Moved
  <2> QED BY <1>1, <1>2, <1>3, <1>7, <2>1 DEF ThreadStates, At
<1> QED BY <1>4, <1>5, <1>6, <1>7

-----------------------------------------------------------------------------
(***************************************************************************)
(* What keeps each part of the invariant.                                  *)
(***************************************************************************)
LEMMA StepsKept ==
  ASSUME CInv, NEW h \in Threads, NEW s, GoesOn(h, s), run' \in [Runs -> RunRows],
         s.pc \in DecidingPCs =>
           Deciding(h) /\ s.run = thread[h].run /\ s.step = thread[h].step,
         \A r \in Runs : run[r].stepCount <= run'[r].stepCount
  PROVE  StepsCounted' /\ StepLimit'
<1>1. /\ \A g \in Threads : thread'[g] = IF g = h THEN s ELSE thread[g]
      /\ \A g \in Threads : Deciding(g)' => /\ Deciding(g)
                                            /\ thread'[g].run = thread[g].run
                                            /\ thread'[g].step = thread[g].step
  BY GoesOnThreads DEF CInv, Deciding
<1>2. /\ \A g \in Threads : Deciding(g) => thread[g].run \in Runs /\ thread[g].step \in Nat
      /\ \A r \in Runs : run[r].stepCount \in Nat /\ run'[r].stepCount \in Nat
  BY TypeFacts DEF CInv, ThreadsOK, LocalsOK, Deciding, DecidingPCs, RunRows
<1>3. StepsCounted'
  BY <1>1, <1>2 DEF CInv, StepsCounted
<1>4. StepLimit'
  BY <1>1 DEF CInv, StepLimit
<1> QED BY <1>3, <1>4

LEMMA ExecutedKept ==
  ASSUME CInv, NEW h \in Threads, NEW s, GoesOn(h, s), run' \in [Runs -> RunRows],
         s.pc \in DecidingPCs =>
           \/ /\ Deciding(h) /\ s.run = thread[h].run /\ s.step = thread[h].step
              /\ thread[h].pc = "saveResult" => CallSaved(h)
           \/ s.run \in Runs /\ s.step = run[s.run].stepCount + 1,
         \A r \in Runs : run[r].stepCount <= run'[r].stepCount,
         \A key \in CallRows : Saved(key) => Saved(key)',
         UNCHANGED executed
  PROVE  ExecutedOnce' /\ PlainExecuted'
<1>1. /\ \A g \in Threads : thread'[g] = IF g = h THEN s ELSE thread[g]
      /\ \A g \in Threads : Deciding(g)' /\ g # h => Deciding(g)
      /\ Deciding(h)' => s.pc \in DecidingPCs
  BY GoesOnThreads DEF CInv, Deciding
<1>2. ExecutedOnce'
  BY DEF CInv, ExecutedOnce
<1>3. ASSUME NEW r \in Runs, NEW i \in DOMAIN executed[r], Keyless(executed[r][i])
      PROVE  ExecutionOK(r, executed[r][i])'
  <2>k. PICK key : key = executed[r][i]
    OBVIOUS
  <2>1. /\ key \in CallRows /\ key.step \in Nat
        /\ run[r].stepCount \in Nat /\ run'[r].stepCount \in Nat
    BY <2>k, TypeFacts DEF CInv, RunRows
  <2>2. ExecutionOK(r, key)
    BY <1>3, <2>k DEF CInv, PlainExecuted
  <2>3. key.run = r /\ key.step <= run'[r].stepCount /\ key.step <= run[r].stepCount
    BY <2>1, <2>2 DEF ExecutionOK
  <2>4. ASSUME ~Saved(key)', NEW g \in Threads, Deciding(g)', thread'[g].run = r,
               thread'[g].step = key.step
        PROVE  thread'[g].pc = "saveResult" /\ thread'[g].call = key
    <3>1. \A f \in Threads : Deciding(f) /\ thread[f].run = r /\ thread[f].step = key.step =>
                               thread[f].pc = "saveResult" /\ thread[f].call = key
      BY <2>1, <2>2, <2>4 DEF ExecutionOK
    <3>2. CASE g # h
      BY <1>1, <2>4, <3>1, <3>2
    <3>3. CASE /\ g = h /\ Deciding(h) /\ s.run = thread[h].run /\ s.step = thread[h].step
               /\ thread[h].pc = "saveResult" => CallSaved(h)
      <4>1. thread[h].run = r /\ thread[h].step = key.step
        BY <1>1, <2>4, <3>3
      <4>2. Saved(key)'
        BY <2>1, <3>1, <3>3, <4>1 DEF CallSaved
      <4> QED BY <2>4, <4>2
    <3>4. CASE g = h /\ s.step = run[s.run].stepCount + 1
      <4>1. s.run = r /\ thread'[g].step = run[r].stepCount + 1
        BY <1>1, <2>4, <3>4
      <4> QED BY <4>1, <2>1, <2>3, <2>4
    <3> QED BY <1>1, <2>4, <3>2, <3>3, <3>4
  <2>5. ExecutionOK(r, key)'
    BY <2>3, <2>4 DEF ExecutionOK
  <2> QED BY <2>5, <2>k
<1> QED BY <1>2, <1>3 DEF PlainExecuted

LEMMA StartedKept ==
  ASSUME CInv, NEW h \in Threads, NEW s, GoesOn(h, s),
         s.pc \notin UnstartedPCs => s.run \in StartedRuns,
         asked' \subseteq asked \cup StartedRuns,
         \A r \in Runs : \/ run'[r].status \in {run[r].status, "absent", "created"}
                         \/ r \in StartedRuns,
         task' = "created" => task = "created"
  PROVE  OneStarted'
<1>1. \A g \in Threads : thread'[g] = IF g = h THEN s ELSE thread[g]
  BY GoesOnThreads DEF CInv
<1>2. StartedRuns' \subseteq StartedRuns
  BY <1>1 DEF StartedRuns
<1> QED BY <1>2 DEF CInv, OneStarted

LEMMA CompletionKept ==
  ASSUME CInv, NEW h \in Threads, NEW s, GoesOn(h, s),
         s.pc = "markCompleted" => task' = "completed",
         \A r \in Runs : run'[r].status \in {run[r].status, "absent", "created"}
                         \/ (run'[r].status = "completed" => task' = "completed"),
         task = "completed" => task' = "completed"
  PROVE  CompletionOK'
<1>1. \A g \in Threads : thread'[g] = IF g = h THEN s ELSE thread[g]
  BY GoesOnThreads DEF CInv
<1> QED BY <1>1 DEF CInv, CompletionOK, CompletedTogether

LEMMA ApprovalsKept ==
  ASSUME CInv, NEW h \in Threads, NEW s, GoesOn(h, s),
         s.pc \in GrantPCs => thread[h].pc \in GrantPCs,
         UNCHANGED executed, approvals' \in Nat, approvals <= approvals'
  PROVE  ApprovalsCover'
<1>1. \A g \in Threads : thread'[g] = IF g = h THEN s ELSE thread[g]
  BY GoesOnThreads DEF CInv
<1>2. Granted' \subseteq Granted
  BY <1>1 DEF Granted
<1>3. /\ IsFiniteSet(Granted) /\ IsFiniteSet(GatedExecutions)
      /\ Cardinality(GatedExecutions) + Cardinality(Granted) <= approvals
  BY DEF CInv, ApprovalsCover
<1>4. /\ IsFiniteSet(Granted') /\ Cardinality(Granted') <= Cardinality(Granted)
      /\ Cardinality(Granted') \in Nat /\ Cardinality(Granted) \in Nat
      /\ Cardinality(GatedExecutions) \in Nat
  BY <1>2, <1>3, FS_Subset, FS_CardinalityType
<1>5. GatedExecutions' = GatedExecutions
  BY DEF GatedExecutions
<1>6. approvals \in Nat
  BY DEF CInv, CoordinatorTypeOK
<1> QED BY <1>3, <1>4, <1>5, <1>6 DEF ApprovalsCover

LEMMA CallsKept ==
  ASSUME CInv, NEW h \in Threads, NEW s, GoesOn(h, s), s.pc # "invoke",
         run' \in [Runs -> RunRows],
         \A r \in Runs : run[r].toolCallCount <= run'[r].toolCallCount,
         UNCHANGED executed
  PROVE  CallsCounted'
<1>1. \A g \in Threads : thread'[g] = IF g = h THEN s ELSE thread[g]
  BY GoesOnThreads DEF CInv
<1> SUFFICES ASSUME NEW r \in Runs
             PROVE  LET n == Cardinality(PlainExecutions(r)') + Cardinality(Invoking(r)')
                    IN  /\ IsFiniteSet(Invoking(r)')
                        /\ n <= run'[r].toolCallCount
                        /\ MaxToolCalls > 0 => n <= MaxToolCalls
  BY DEF CallsCounted
<1>2. Invoking(r)' \subseteq Invoking(r)
  BY <1>1 DEF Invoking
<1>3. PlainExecutions(r)' = PlainExecutions(r)
  BY DEF PlainExecutions
<1>4. IsFiniteSet(PlainExecutions(r))
  BY PlainFinite DEF CInv
<1>5. IsFiniteSet(Invoking(r))
  BY DEF CInv, CallsCounted
<1>6. /\ IsFiniteSet(Invoking(r)') /\ Cardinality(Invoking(r)') <= Cardinality(Invoking(r))
      /\ Cardinality(Invoking(r)') \in Nat /\ Cardinality(Invoking(r)) \in Nat
      /\ Cardinality(PlainExecutions(r)) \in Nat
  BY <1>2, <1>4, <1>5, FS_Subset, FS_CardinalityType
<1>7. run[r].toolCallCount \in Nat /\ run'[r].toolCallCount \in Nat
  BY TypeFacts DEF CInv, RunRows
<1>8. /\ Cardinality(PlainExecutions(r)) + Cardinality(Invoking(r)) <= run[r].toolCallCount
      /\ MaxToolCalls > 0 => Cardinality(PlainExecutions(r)) + Cardinality(Invoking(r)) <= MaxToolCalls
  BY DEF CInv, CallsCounted
<1> QED BY <1>3, <1>6, <1>7, <1>8, CoordinatorAssumption

-----------------------------------------------------------------------------
(***************************************************************************)
(* Most steps only move a goroutine and change the status of the task or   *)
(* of a run that was started; the tables of calls and results only grow.   *)
(***************************************************************************)
TablesGrow ==
  /\ saved' \in [SuppliedKeys -> CallRows \cup {NoCall}] /\ SavedGiven'
  /\ results' \in [Runs -> Seq([key : CallRows, status : ResultStatuses])] /\ PendingGated'
  /\ \A key \in CallRows : Saved(key) => Saved(key)'

LEMMA TablesUnchanged ==
  ASSUME CInv, UNCHANGED <<saved, results>>
  PROVE  TablesGrow
BY DEF CInv, CoordinatorTypeOK, TablesGrow, SavedGiven, PendingGated, Saved

OrdinaryStores ==
  /\ UNCHANGED <<executed, approvals>> /\ TablesGrow
  /\ task' \in TaskStatuses
  /\ task' = "created" => task = "created"
  /\ task = "completed" => task' = "completed"
  /\ run' \in [Runs -> RunRows]
  /\ \A r \in Runs :
       /\ run'[r].stepCount = run[r].stepCount /\ run'[r].toolCallCount = run[r].toolCallCount
       /\ \/ run'[r].status \in {run[r].status, "absent", "created"}
          \/ r \in StartedRuns /\ (run'[r].status = "completed" => task' = "completed")
  /\ asked' \subseteq asked \cup StartedRuns

LEMMA OrdinaryStep ==
  ASSUME CInv, OrdinaryStores, NEW h \in Threads, NEW s, GoesOn(h, s),
         s.pc # "invoke",
         s.pc \in DecidingPCs =>
           /\ Deciding(h) /\ s.run = thread[h].run /\ s.step = thread[h].step
           /\ thread[h].pc = "saveResult" => CallSaved(h),
         s.pc \in GrantPCs => thread[h].pc \in GrantPCs,
         s.pc \notin UnstartedPCs => s.run \in StartedRuns,
         s.pc = "markCompleted" => task' = "completed"
  PROVE  CInv'
<1>1. /\ \A r \in Runs : /\ run[r].stepCount <= run'[r].stepCount
                         /\ run[r].toolCallCount <= run'[r].toolCallCount
      /\ approvals' \in Nat /\ approvals <= approvals'
  <2>1. \A r \in Runs : run[r].stepCount \in Nat /\ run[r].toolCallCount \in Nat
    BY TypeFacts DEF CInv
  <2>2. approvals \in Nat
    BY DEF CInv, CoordinatorTypeOK
  <2> QED BY <2>1, <2>2 DEF OrdinaryStores
<1>2. CoordinatorTypeOK' /\ ThreadsOK'
  BY GoesOnThreads DEF CInv, CoordinatorTypeOK, OrdinaryStores, TablesGrow, StartedRuns
<1>3. StepsCounted' /\ StepLimit'
  BY <1>1, StepsKept DEF OrdinaryStores
<1>4. ExecutedOnce' /\ PlainExecuted'
  BY <1>1, ExecutedKept DEF OrdinaryStores, TablesGrow
<1>5. SavedGiven' /\ PendingGated'
  BY DEF OrdinaryStores, TablesGrow
<1>6. OneStarted'
  BY StartedKept DEF OrdinaryStores
<1>7. CompletionOK'
  BY CompletionKept DEF OrdinaryStores
<1>8. ApprovalsCover'
  BY <1>1, ApprovalsKept DEF OrdinaryStores
<1>9. CallsCounted'
  BY <1>1, CallsKept DEF OrdinaryStores
<1> QED BY <1>2, <1>3, <1>4, <1>5, <1>6, <1>7, <1>8, <1>9 DEF CInv

\* A goroutine past acceptance has a run that was started.
LEMMA DrivesStarted ==
  ASSUME CInv, NEW h \in Threads, thread[h].pc \notin UnstartedPCs
  PROVE  thread[h].run \in StartedRuns /\ thread[h].run \in Runs
BY DEF CInv, ThreadsOK, LocalsOK, UnstartedPCs, StartedRuns

\* Where MoveTo is not all there is to say about a step.
SpecialPCs == {"idle", "accept", "find", "model", "tool", "invoke", "saveResult",
               "approvedInvoke", "approvedSave"}

LEMMA OrdinaryMove ==
  ASSUME CInv, OrdinaryStores, NEW h \in Threads, NEW pc \in PCs, MoveTo(h, pc),
         pc \notin SpecialPCs,
         pc # "done" => thread[h].pc \notin UnstartedPCs,
         pc \in DecidingPCs => /\ Deciding(h)
                               /\ thread[h].pc = "saveResult" => CallSaved(h),
         pc \in CallPCs => thread[h].pc \in CallPCs,
         pc = "markCompleted" => task' = "completed"
  PROVE  CInv'
<1> DEFINE s == Moved(h, pc)
<1>1. /\ thread' = [thread EXCEPT ![h] = s] /\ s \in ThreadStates /\ s.pc = pc
      /\ pc # "done" => s.run = thread[h].run
      /\ pc \in InCalls \cup InStep => s.step = thread[h].step
      /\ pc \in InCalls => s.calls = thread[h].calls
  BY MovedFacts DEF CInv
<1>2. /\ pc \in DecidingPCs => pc \in InCalls \cup InStep /\ pc # "done"
      /\ pc \in CallPCs => pc \in InCalls
      /\ pc \notin SavePCs /\ pc # "approvedInvoke"
  BY DEF DecidingPCs, CallPCs, SavePCs, InCalls, InStep, SpecialPCs
<1>3. pc # "done" => thread[h].run \in StartedRuns /\ thread[h].run \in Runs
  BY DrivesStarted
<1>4. LocalsOK(thread[h])
  BY DEF CInv, ThreadsOK
<1> HIDE DEF s
<1>5. LocalsOK(s)
  BY <1>1, <1>2, <1>3, <1>4 DEF LocalsOK, Deciding
<1>6. GoesOn(h, s)
  BY <1>1, <1>5 DEF GoesOn
<1>7. s.pc \in DecidingPCs =>
        /\ Deciding(h) /\ s.run = thread[h].run /\ s.step = thread[h].step
        /\ thread[h].pc = "saveResult" => CallSaved(h)
  BY <1>1, <1>2
<1>8. /\ s.pc \notin GrantPCs /\ s.pc # "invoke"
      /\ s.pc \notin UnstartedPCs => s.run \in StartedRuns
  BY <1>1, <1>3 DEF GrantPCs, UnstartedPCs, SpecialPCs
<1> QED BY <1>1, <1>6, <1>7, <1>8, OrdinaryStep

\* A command changes the task along the table, or not at all.
LEMMA CommandOutcome ==
  ASSUME CInv, NEW h \in Threads, NEW command, NEW ok, NEW err, ApplyCommand(h, command, ok, err)
  PROVE  /\ MoveTo(h, ok) \/ MoveTo(h, err)
         /\ task' \in TaskStatuses
         /\ task' = "created" => task = "created"
         /\ task = "completed" => task' = "completed"
         /\ MoveTo(h, err) \/ \E row \in Apply(task, command) : task' = row.to /\ MoveTo(h, ok)
<1>1. CASE UNCHANGED task /\ MoveTo(h, err)
  BY <1>1 DEF CInv, CoordinatorTypeOK
<1>2. ASSUME NEW row \in Apply(task, command), task' = row.to, MoveTo(h, ok) \/ MoveTo(h, err)
      PROVE  /\ MoveTo(h, ok) \/ MoveTo(h, err)
             /\ task' \in TaskStatuses
             /\ task' = "created" => task = "created"
             /\ task = "completed" => task' = "completed"
             /\ MoveTo(h, err) \/ \E r \in Apply(task, command) : task' = r.to /\ MoveTo(h, ok)
  BY <1>2, ApplyFacts DEF Terminal
<1> QED BY <1>1, <1>2 DEF ApplyCommand

\* A command of a goroutine, with the places it may go on at.
LEMMA CommandStep ==
  ASSUME CInv, NEW h \in Threads, NEW command, NEW ok \in PCs, NEW err \in PCs,
         ApplyCommand(h, command, ok, err),
         UNCHANGED <<run, saved, results, executed, approvals>>,
         asked' \subseteq asked \cup {thread[h].run},
         thread[h].pc \notin UnstartedPCs,
         ok \notin SpecialPCs, err \notin SpecialPCs \cup {"markCompleted"},
         {ok, err} \cap DecidingPCs # {} => Deciding(h) /\ thread[h].pc # "saveResult",
         {ok, err} \cap CallPCs # {} => thread[h].pc \in CallPCs,
         ok = "markCompleted" => command = "complete"
  PROVE  CInv'
<1>1. OrdinaryStores
  BY CommandOutcome, DrivesStarted, TablesUnchanged DEF OrdinaryStores, CInv, CoordinatorTypeOK
<1>2. CASE MoveTo(h, err)
  BY <1>1, <1>2, OrdinaryMove
<1>3. ASSUME NEW row \in Apply(task, command), task' = row.to, MoveTo(h, ok)
      PROVE  CInv'
  <2>1. ok = "markCompleted" => task' = "completed"
    BY <1>3, ApplyFacts
  <2> QED BY <1>1, <1>3, <2>1, OrdinaryMove
<1> QED BY <1>2, <1>3, CommandOutcome

\* Mark writes the status of the run the goroutine drives.
AfterMarkPCs == {"loop", "fail", "failTask", "toolFailTask", "done"}

LEMMA MarkStep ==
  ASSUME CInv, NEW h \in Threads, NEW status \in RunStatuses,
         NEW ok \in AfterMarkPCs, NEW err \in AfterMarkPCs, Mark(h, status, ok, err),
         UNCHANGED <<task, saved, results, executed, asked, approvals>>,
         thread[h].pc \notin UnstartedPCs,
         status = "completed" => task = "completed"
  PROVE  CInv'
<1>1. thread[h].run \in StartedRuns /\ thread[h].run \in Runs
  BY DrivesStarted
<1>2. run \in [Runs -> RunRows]
  BY DEF CInv, CoordinatorTypeOK
<1>3. OrdinaryStores
  <2>1. CASE run' = [run EXCEPT ![thread[h].run].status = status]
    <3>1. run' \in [Runs -> RunRows]
      BY <1>1, <1>2, <2>1 DEF RunRows
    <3>2. \A r \in Runs :
            /\ run'[r].stepCount = run[r].stepCount /\ run'[r].toolCallCount = run[r].toolCallCount
            /\ run'[r].status = IF r = thread[h].run THEN status ELSE run[r].status
      BY <1>1, <1>2, <2>1 DEF RunRows
    <3> QED BY <1>1, <3>1, <3>2, TablesUnchanged DEF OrdinaryStores, CInv, CoordinatorTypeOK
  <2>2. CASE UNCHANGED run
    BY <2>2, <1>2, TablesUnchanged DEF OrdinaryStores, CInv, CoordinatorTypeOK
  <2> QED BY <2>1, <2>2 DEF Mark
<1>4. MoveTo(h, ok) \/ MoveTo(h, err)
  BY DEF Mark
<1>5. ASSUME NEW pc \in AfterMarkPCs
      PROVE  /\ pc \in PCs /\ pc \notin DecidingPCs \cup CallPCs
             /\ pc \notin SpecialPCs \cup {"markCompleted"}
  BY DEF AfterMarkPCs, PCs, DecidingPCs, CallPCs, SpecialPCs
<1> QED BY <1>3, <1>4, <1>5, OrdinaryMove

\* The stores stay as they are.
LEMMA QuietStores ==
  ASSUME CInv, UNCHANGED stores
  PROVE  OrdinaryStores
BY TablesUnchanged DEF CInv, CoordinatorTypeOK, OrdinaryStores, stores

-----------------------------------------------------------------------------
(***************************************************************************)
(* The steps that start a run, count a step or a call, and grant an        *)
(* approval.                                                               *)
(***************************************************************************)

\* The first run that accepts the task is the only one that is started.
LEMMA AcceptStep ==
  ASSUME CInv, NEW h \in Threads, thread[h].pc = "accept",
         ApplyCommand(h, "accept", "plan_started", "done"),
         UNCHANGED <<run, saved, results, executed, asked, approvals>>
  PROVE  CInv'
<1>1. CASE MoveTo(h, "done")
  <2>1. OrdinaryStores
    BY CommandOutcome, TablesUnchanged DEF OrdinaryStores, CInv, CoordinatorTypeOK
  <2> QED BY <1>1, <2>1, OrdinaryMove DEF PCs, DecidingPCs, CallPCs, SpecialPCs
<1>2. ASSUME NEW row \in Apply(task, "accept"), task' = row.to, MoveTo(h, "plan_started")
      PROVE  CInv'
  <2>1. task = "created" /\ task' \in TaskStatuses \ {"created"} /\ StartedRuns = {}
    BY <1>2, ApplyFacts DEF CInv, OneStarted
  <2> DEFINE s == Moved(h, "plan_started")
  <2>2. /\ thread' = [thread EXCEPT ![h] = s] /\ s \in ThreadStates /\ s.pc = "plan_started"
        /\ s.run = thread[h].run
    BY <1>2, MovedFacts DEF CInv, PCs
  <2>3. s.run \in Runs
    BY <2>2 DEF CInv, ThreadsOK, LocalsOK
  <2>4. LocalsOK(s)
    BY <2>2, <2>3 DEF LocalsOK, CallPCs, DecidingPCs, SavePCs
  <2> HIDE DEF s
  <2>5. GoesOn(h, s)
    BY <2>2, <2>4 DEF GoesOn
  <2>6. s.pc \notin DecidingPCs \cup GrantPCs \cup {"invoke", "markCompleted"}
    BY <2>2 DEF DecidingPCs, GrantPCs
  <2>7. /\ run' \in [Runs -> RunRows] /\ approvals \in Nat
        /\ \A r \in Runs : run[r].stepCount \in Nat /\ run[r].toolCallCount \in Nat
    BY TypeFacts DEF CInv, CoordinatorTypeOK
  <2>8. CoordinatorTypeOK' /\ ThreadsOK'
    BY <2>1, <2>5, GoesOnThreads DEF CInv, CoordinatorTypeOK
  <2>9. StepsCounted' /\ StepLimit'
    BY <2>5, <2>6, <2>7, StepsKept
  <2>10. ExecutedOnce' /\ PlainExecuted'
    BY <2>5, <2>6, <2>7, ExecutedKept DEF Saved
  <2>11. SavedGiven' /\ PendingGated'
    BY DEF CInv, SavedGiven, PendingGated
  <2>12. OneStarted'
    <3>1. \A g \in Threads : thread'[g] = IF g = h THEN s ELSE thread[g]
      BY <2>5, GoesOnThreads DEF CInv
    <3>2. StartedRuns' \subseteq StartedRuns \cup {s.run}
      BY <3>1 DEF StartedRuns
    <3> QED BY <2>1, <3>2 DEF OneStarted
  <2>13. CompletionOK'
    BY <2>1, <2>5, <2>6, CompletionKept
  <2>14. ApprovalsCover'
    BY <2>5, <2>6, <2>7, ApprovalsKept
  <2>15. CallsCounted'
    BY <2>5, <2>6, <2>7, CallsKept
  <2> QED BY <2>8, <2>9, <2>10, <2>11, <2>12, <2>13, <2>14, <2>15 DEF CInv
<1> QED BY <1>1, <1>2, CommandOutcome

\* An approval is granted before the approver looks for what it approves.
LEMMA ApproveStep ==
  ASSUME CInv, NEW a \in Approvers, Approve(a)
  PROVE  CInv'
<1>0. a \in Threads
  BY DEF Threads
<1>1. /\ UNCHANGED <<run, saved, results, executed, asked>>
      /\ thread[a].pc = "idle"
      /\ task' \in TaskStatuses
      /\ task' = "created" => task = "created"
      /\ task = "completed" => task' = "completed"
      /\ approvals' = IF task' = task THEN approvals ELSE approvals + 1
      /\ approvals \in Nat /\ approvals' \in Nat /\ approvals <= approvals'
      /\ run' \in [Runs -> RunRows]
      /\ \A r \in Runs : run[r].stepCount \in Nat /\ run[r].toolCallCount \in Nat
  <2>1. approvals \in Nat /\ run \in [Runs -> RunRows]
    BY DEF CInv, CoordinatorTypeOK
  <2>2. \A r \in Runs : run[r].stepCount \in Nat /\ run[r].toolCallCount \in Nat
    BY TypeFacts DEF CInv
  <2> QED BY <1>0, <2>1, <2>2, CommandOutcome DEF Approve
<1>2. ASSUME NEW s, GoesOn(a, s), s.pc \in {"done", "find"}, s.pc = "find" => approvals' = approvals + 1
      PROVE  CInv'
  <2>1. CoordinatorTypeOK' /\ ThreadsOK'
    BY <1>0, <1>1, <1>2, GoesOnThreads DEF CInv, CoordinatorTypeOK
  <2>2. StepsCounted' /\ StepLimit'
    BY <1>0, <1>1, <1>2, StepsKept DEF DecidingPCs
  <2>3. ExecutedOnce' /\ PlainExecuted'
    BY <1>0, <1>1, <1>2, ExecutedKept DEF DecidingPCs, Saved
  <2>4. SavedGiven' /\ PendingGated'
    BY <1>1 DEF CInv, SavedGiven, PendingGated
  <2>5. OneStarted'
    BY <1>0, <1>1, <1>2, StartedKept DEF UnstartedPCs
  <2>6. CompletionOK'
    BY <1>0, <1>1, <1>2, CompletionKept
  <2>7. ApprovalsCover'
    <3>1. CASE s.pc = "done"
      BY <1>0, <1>1, <1>2, <3>1, ApprovalsKept DEF GrantPCs
    <3>2. CASE s.pc = "find"
      <4>1. \A g \in Threads : thread'[g] = IF g = a THEN s ELSE thread[g]
        BY <1>0, <1>2, GoesOnThreads DEF CInv
      <4>2. Granted' = Granted \cup {a} /\ a \notin Granted
        BY <1>0, <1>1, <3>2, <4>1 DEF Granted, GrantPCs
      <4>3. GatedExecutions' = GatedExecutions
        BY <1>1 DEF GatedExecutions
      <4>4. /\ IsFiniteSet(GatedExecutions) /\ IsFiniteSet(Granted)
            /\ Cardinality(GatedExecutions) + Cardinality(Granted) <= approvals
        BY DEF CInv, ApprovalsCover
      <4>5. IsFiniteSet(Granted') /\ Cardinality(Granted') = Cardinality(Granted) + 1
        BY <4>2, <4>4, FS_AddElement
      <4>6. Cardinality(Granted) \in Nat /\ Cardinality(GatedExecutions) \in Nat
        BY <4>4, FS_CardinalityType
      <4> QED BY <1>1, <1>2, <3>2, <4>3, <4>4, <4>5, <4>6 DEF ApprovalsCover
    <3> QED BY <1>2, <3>1, <3>2
  <2>8. CallsCounted'
    BY <1>0, <1>1, <1>2, CallsKept
  <2> QED BY <2>1, <2>2, <2>3, <2>4, <2>5, <2>6, <2>7, <2>8 DEF CInv
<1>3. ASSUME NEW pc \in {"done", "find"}, MoveTo(a, pc)
      PROVE  /\ GoesOn(a, Moved(a, pc)) /\ Moved(a, pc).pc = pc
  BY <1>0, <1>3, MovedFacts DEF CInv, PCs, GoesOn, LocalsOK, CallPCs, DecidingPCs, SavePCs
<1>4. CASE MoveTo(a, "done")
  BY <1>2, <1>3, <1>4
<1>5. ASSUME NEW row \in Apply(task, "approve_action"), task' = row.to, MoveTo(a, "find")
      PROVE  CInv'
  <2>1. task' # task
    BY <1>5, ApplyFacts
  <2> QED BY <1>1, <1>2, <1>3, <1>5, <2>1
<1>6. MoveTo(a, "done") \/ \E row \in Apply(task, "approve_action") : task' = row.to /\ MoveTo(a, "find")
  BY <1>0, CommandOutcome DEF Approve
<1> QED BY <1>4, <1>5, <1>6

\* IncrementStep gives out a number that no goroutine has.
LEMMA IncrementStepStep ==
  ASSUME CInv, NEW h \in Threads, IncrementStep(h)
  PROVE  CInv'
<1> DEFINE r == thread[h].run
           n == run[r].stepCount + 1
<1>1. thread[h].pc = "step" /\ UNCHANGED <<task, saved, results, executed, asked, approvals>>
  BY DEF IncrementStep
<1>2. r \in Runs /\ r \in StartedRuns
  BY <1>1, DrivesStarted DEF UnstartedPCs
<1>3. /\ run \in [Runs -> RunRows] /\ run[r].stepCount \in Nat /\ n \in Nat \ {0}
      /\ \A q \in Runs : run[q].stepCount \in Nat /\ run[q].toolCallCount \in Nat
      /\ approvals \in Nat /\ task \in TaskStatuses
  <2>1. \A q \in Runs : run[q].stepCount \in Nat /\ run[q].toolCallCount \in Nat
    BY TypeFacts DEF CInv
  <2>2. run \in [Runs -> RunRows] /\ approvals \in Nat /\ task \in TaskStatuses
    BY DEF CInv, CoordinatorTypeOK
  <2> QED BY <1>2, <2>1, <2>2
<1>4. /\ run' \in [Runs -> RunRows]
      /\ \A q \in Runs : /\ run'[q].stepCount = IF q = r THEN n ELSE run[q].stepCount
                         /\ run'[q].toolCallCount = run[q].toolCallCount
                         /\ run'[q].status = run[q].status
  <2>1. run' = [run EXCEPT ![r].stepCount = n]
    BY DEF IncrementStep
  <2> QED BY <1>2, <1>3, <2>1 DEF RunRows
<1>5. \A q \in Runs : /\ run[q].stepCount <= run'[q].stepCount
                      /\ run[q].toolCallCount <= run'[q].toolCallCount
  BY <1>3, <1>4
<1>6. ASSUME NEW s, GoesOn(h, s),
             \/ s.pc = "fail" /\ s.run = r
             \/ s.pc = "model" /\ s.run = r /\ s.step = n /\ n <= MaxSteps
      PROVE  CInv'
  <2>1. \A g \in Threads : thread'[g] = IF g = h THEN s ELSE thread[g]
    BY <1>6, GoesOnThreads DEF CInv
  <2>2. CoordinatorTypeOK' /\ ThreadsOK'
    BY <1>1, <1>4, <1>6, GoesOnThreads DEF CInv, CoordinatorTypeOK
  <2>3. StepsCounted' /\ StepLimit'
    <3>1. CASE s.pc = "fail"
      BY <1>4, <1>5, <1>6, <3>1, StepsKept DEF DecidingPCs
    <3>2. CASE s.pc = "model"
      <4>1. /\ s.run = r /\ s.step = n /\ n <= MaxSteps
            /\ \A g \in Threads : Deciding(g)' /\ g # h => Deciding(g) /\ thread'[g] = thread[g]
            /\ thread'[h] = s
        BY <1>6, <2>1, <3>2 DEF Deciding
      <4>2. \A g \in Threads : Deciding(g) => /\ thread[g].run \in Runs /\ thread[g].step \in Nat
                                              /\ thread[g].step <= run[thread[g].run].stepCount
        BY TypeFacts DEF CInv, ThreadsOK, LocalsOK, Deciding, DecidingPCs, StepsCounted
      <4>3. StepsCounted'
        BY <1>2, <1>3, <1>4, <4>1, <4>2 DEF StepsCounted
      <4>4. \A g \in Threads : Deciding(g) /\ thread[g].run = r => thread[g].step # n
        BY <1>3, <4>2
      <4>5. StepLimit'
        BY <4>1, <4>4 DEF CInv, StepLimit
      <4> QED BY <4>3, <4>5
    <3> QED BY <1>6, <3>1, <3>2
  <2>4. ExecutedOnce' /\ PlainExecuted'
    <3>1. s.pc \in DecidingPCs => s.run \in Runs /\ s.step = run[s.run].stepCount + 1
      BY <1>2, <1>6 DEF DecidingPCs
    <3> QED BY <1>1, <1>4, <1>5, <1>6, <3>1, ExecutedKept DEF Saved
  <2>5. SavedGiven' /\ PendingGated'
    BY <1>1 DEF CInv, SavedGiven, PendingGated
  <2>6. OneStarted'
    BY <1>1, <1>2, <1>4, <1>6, StartedKept
  <2>7. CompletionOK'
    BY <1>1, <1>4, <1>6, CompletionKept
  <2>8. ApprovalsCover'
    BY <1>1, <1>3, <1>6, ApprovalsKept DEF GrantPCs
  <2>9. CallsCounted'
    BY <1>1, <1>4, <1>5, <1>6, CallsKept
  <2> QED BY <2>2, <2>3, <2>4, <2>5, <2>6, <2>7, <2>8, <2>9 DEF CInv
<1>7. CASE MoveTo(h, "fail")
  <2>1. GoesOn(h, Moved(h, "fail")) /\ Moved(h, "fail").pc = "fail" /\ Moved(h, "fail").run = r
    BY <1>2, <1>7, MovedFacts DEF CInv, PCs, GoesOn, LocalsOK, CallPCs, DecidingPCs, SavePCs
  <2> QED BY <1>6, <2>1
<1>8. CASE /\ n <= MaxSteps
           /\ thread' = [thread EXCEPT ![h] = [@ EXCEPT !.pc = "model", !.step = n]]
  <2> DEFINE s == [thread[h] EXCEPT !.pc = "model", !.step = n]
  <2>1. /\ s \in ThreadStates /\ s.pc = "model" /\ s.run = r /\ s.step = n
    BY <1>3, TypeFacts DEF CInv, ThreadStates, PCs
  <2>2. LocalsOK(s)
    BY <1>2, <1>3, <1>8, <2>1, CoordinatorAssumption DEF LocalsOK, CallPCs, SavePCs
  <2>3. thread' = [thread EXCEPT ![h] = s]
    BY <1>8
  <2> HIDE DEF s
  <2> QED BY <1>6, <1>8, <2>1, <2>2, <2>3 DEF GoesOn
<1> QED BY <1>7, <1>8 DEF IncrementStep

\* A call is counted, and made only within the limit.
LEMMA ToolCallStep ==
  ASSUME CInv, NEW h \in Threads, ToolCall(h)
  PROVE  CInv'
<1> DEFINE r == thread[h].run
           n == run[r].toolCallCount + 1
<1>1. thread[h].pc = "tool" /\ UNCHANGED <<task, saved, results, executed, asked, approvals>>
  BY DEF ToolCall
<1>2. r \in Runs /\ r \in StartedRuns
  BY <1>1, DrivesStarted DEF UnstartedPCs
<1>3. /\ run \in [Runs -> RunRows]
      /\ \A q \in Runs : run[q].stepCount \in Nat /\ run[q].toolCallCount \in Nat
      /\ approvals \in Nat /\ task \in TaskStatuses
  BY TypeFacts DEF CInv, CoordinatorTypeOK
<1>4. CASE UNCHANGED run /\ \E pc \in {"errorMarkFailed", "fail"} : MoveTo(h, pc)
  <2>1. OrdinaryStores
    BY <1>1, <1>4, QuietStores DEF stores
  <2> QED BY <1>1, <1>4, <2>1, OrdinaryMove DEF PCs, UnstartedPCs, DecidingPCs, CallPCs, SpecialPCs
<1>5. CASE /\ run' = [run EXCEPT ![r].toolCallCount = n]
           /\ MoveTo(h, IF MaxToolCalls > 0 /\ n > MaxToolCalls THEN "errorMarkFailed" ELSE "invoke")
  <2>1. /\ run' \in [Runs -> RunRows]
        /\ \A q \in Runs : /\ run'[q].stepCount = run[q].stepCount
                           /\ run'[q].toolCallCount = IF q = r THEN n ELSE run[q].toolCallCount
                           /\ run'[q].status = run[q].status
    BY <1>2, <1>3, <1>5 DEF RunRows
  <2>2. \A q \in Runs : /\ run[q].stepCount <= run'[q].stepCount
                        /\ run[q].toolCallCount <= run'[q].toolCallCount
    BY <1>3, <2>1
  <2> DEFINE pc == IF MaxToolCalls > 0 /\ n > MaxToolCalls THEN "errorMarkFailed" ELSE "invoke"
             s  == Moved(h, pc)
  <2>3. /\ pc \in PCs /\ pc \notin {"done", "markCompleted"} \cup GrantPCs \cup SavePCs \cup UnstartedPCs
        /\ pc \in DecidingPCs \cup CallPCs => pc \in InCalls
    BY DEF PCs, DecidingPCs, CallPCs, SavePCs, InCalls, GrantPCs, UnstartedPCs
  <2>4. /\ thread' = [thread EXCEPT ![h] = s] /\ s \in ThreadStates /\ s.pc = pc
        /\ s.run = r
        /\ pc \in InCalls => s.step = thread[h].step /\ s.calls = thread[h].calls
    BY <1>5, <2>3, MovedFacts DEF CInv
  <2>5. LocalsOK(s)
    <3>1. thread[h].calls # <<>> /\ thread[h].step \in 1..MaxSteps
      BY <1>1 DEF CInv, ThreadsOK, LocalsOK, CallPCs, DecidingPCs
    <3> HIDE DEF s, pc
    <3> QED BY <1>2, <2>3, <2>4, <3>1 DEF LocalsOK, GrantPCs
  <2> HIDE DEF s
  <2>6. GoesOn(h, s)
    BY <2>4, <2>5 DEF GoesOn
  <2>7. CoordinatorTypeOK' /\ ThreadsOK'
    BY <1>1, <2>1, <2>6, GoesOnThreads DEF CInv, CoordinatorTypeOK
  <2>8. /\ s.pc \in DecidingPCs => Deciding(h) /\ s.run = thread[h].run /\ s.step = thread[h].step
        /\ thread[h].pc # "saveResult"
    BY <1>1, <2>3, <2>4 DEF Deciding, DecidingPCs
  <2>9. StepsCounted' /\ StepLimit'
    BY <2>1, <2>2, <2>6, <2>8, StepsKept
  <2>10. ExecutedOnce' /\ PlainExecuted'
    BY <1>1, <2>1, <2>2, <2>6, <2>8, ExecutedKept DEF Saved
  <2>11. SavedGiven' /\ PendingGated'
    BY <1>1 DEF CInv, SavedGiven, PendingGated
  <2>12. OneStarted'
    BY <1>1, <1>2, <2>1, <2>4, <2>6, StartedKept
  <2>13. CompletionOK'
    BY <1>1, <2>1, <2>3, <2>4, <2>6, CompletionKept
  <2>14. ApprovalsCover'
    BY <1>1, <1>3, <2>3, <2>4, <2>6, ApprovalsKept
  <2>15. CallsCounted'
    <3>1. CASE s.pc # "invoke"
      BY <1>1, <2>1, <2>2, <2>6, <3>1, CallsKept
    <3>2. CASE s.pc = "invoke"
      <4>1. MaxToolCalls > 0 => n <= MaxToolCalls
        BY <1>2, <1>3, <2>4, <3>2, CoordinatorAssumption
      <4>2. \A g \in Threads : thread'[g] = IF g = h THEN s ELSE thread[g]
        BY <2>6, GoesOnThreads DEF CInv
      <4> SUFFICES ASSUME NEW q \in Runs
                   PROVE  LET m == Cardinality(PlainExecutions(q)') + Cardinality(Invoking(q)')
                          IN  /\ IsFiniteSet(Invoking(q)')
                              /\ m <= run'[q].toolCallCount
                              /\ MaxToolCalls > 0 => m <= MaxToolCalls
        BY DEF CallsCounted
      <4>3. PlainExecutions(q)' = PlainExecutions(q)
        BY <1>1 DEF PlainExecutions
      <4>4. /\ IsFiniteSet(Invoking(q))
            /\ Cardinality(PlainExecutions(q)) + Cardinality(Invoking(q)) <= run[q].toolCallCount
            /\ MaxToolCalls > 0 =>
                 Cardinality(PlainExecutions(q)) + Cardinality(Invoking(q)) <= MaxToolCalls
        BY DEF CInv, CallsCounted
      <4>5. Cardinality(Invoking(q)) \in Nat /\ Cardinality(PlainExecutions(q)) \in Nat
        BY <4>4, PlainFinite, FS_CardinalityType DEF CInv
      <4>6. CASE q # r
        <5>1. Invoking(q)' = Invoking(q)
          BY <1>1, <2>4, <4>2, <4>6 DEF Invoking
        <5> QED BY <2>1, <4>3, <4>4, <4>6, <5>1
      <4>7. CASE q = r
        <5>1. Invoking(q)' = Invoking(q) \cup {h} /\ h \notin Invoking(q)
          BY <1>1, <2>4, <3>2, <4>2, <4>7 DEF Invoking
        <5>2. IsFiniteSet(Invoking(q)') /\ Cardinality(Invoking(q)') = Cardinality(Invoking(q)) + 1
          BY <4>4, <5>1, FS_AddElement
        <5> QED BY <1>3, <2>1, <4>1, <4>3, <4>4, <4>5, <4>7, <5>2, CoordinatorAssumption
      <4> QED BY <4>6, <4>7
    <3> QED BY <3>1, <3>2
  <2> QED BY <2>7, <2>9, <2>10, <2>11, <2>12, <2>13, <2>14, <2>15 DEF CInv
<1> QED BY <1>4, <1>5 DEF ToolCall

-----------------------------------------------------------------------------
(***************************************************************************)
(* An execution.  Of a run on its own it is of the call the goroutine is   *)
(* at, which has no result yet, or of the one its key was first given to;  *)
(* of an approver it is of a gated tool.                                   *)
(***************************************************************************)
LEMMA AppendFacts ==
  ASSUME NEW S, NEW e \in Seq(S), NEW x \in S
  PROVE  /\ Append(e, x) \in Seq(S)
         /\ Len(e) \in Nat
         /\ DOMAIN Append(e, x) = DOMAIN e \cup {Len(e) + 1}
         /\ Len(e) + 1 \notin DOMAIN e
         /\ Append(e, x)[Len(e) + 1] = x
         /\ \A i \in DOMAIN e : Append(e, x)[i] = e[i]
OBVIOUS

LEMMA ExecutionStep ==
  ASSUME CInv, NEW h \in Threads, NEW r, r = thread[h].run, NEW key \in CallRows,
         NEW s, GoesOn(h, s), s.run = r, s.call = key,
         UNCHANGED <<task, run, results, asked, approvals>>, TablesGrow,
         executed' = [executed EXCEPT ![r] = Append(executed[r], key)],
         \/ /\ thread[h].pc = "invoke" /\ s.pc = "saveResult" /\ s.step = thread[h].step
            /\ key.tool \notin Gated
            /\ key.given = Ungiven => key.run = r /\ key.step = thread[h].step /\ ~Saved(key)
         \/ /\ thread[h].pc = "approvedInvoke" /\ s.pc = "approvedSave"
            /\ key.tool \in Gated
  PROVE  CInv'
<1>n. PICK n : n = Len(executed[r]) + 1
  OBVIOUS
<1>1. r \in Runs /\ r \in StartedRuns
  BY DrivesStarted DEF UnstartedPCs
<1>2. /\ thread' \in [Threads -> ThreadStates] /\ ThreadsOK'
      /\ \A g \in Threads : thread'[g] = IF g = h THEN s ELSE thread[g]
  BY GoesOnThreads DEF CInv
<1>3. /\ s.pc \in DecidingPCs => Deciding(h) /\ s.run = r /\ s.step = thread[h].step
      /\ s.pc \notin GrantPCs \cup {"invoke", "markCompleted"}
  BY DEF DecidingPCs, Deciding, GrantPCs
<1>4. /\ run' \in [Runs -> RunRows] /\ approvals \in Nat
      /\ \A q \in Runs : run[q].stepCount \in Nat /\ run[q].toolCallCount \in Nat
  <2>1. run \in [Runs -> RunRows] /\ approvals \in Nat
    BY DEF CInv, CoordinatorTypeOK
  <2> QED BY <2>1, TypeFacts DEF CInv
<1>5. /\ executed \in [Runs -> Seq(CallRows)] /\ executed[r] \in Seq(CallRows)
      /\ \A q \in Runs : IsFiniteSet(PlainExecutions(q)) /\ Cardinality(PlainExecutions(q)) \in Nat
  <2>1. executed \in [Runs -> Seq(CallRows)]
    BY DEF CInv, CoordinatorTypeOK
  <2> QED BY <1>1, <2>1, PlainFinite DEF CInv
<1>6. /\ Append(executed[r], key) \in Seq(CallRows)
      /\ DOMAIN Append(executed[r], key) = DOMAIN executed[r] \cup {n}
      /\ n \notin DOMAIN executed[r]
      /\ Append(executed[r], key)[n] = key
      /\ \A i \in DOMAIN executed[r] : Append(executed[r], key)[i] = executed[r][i]
  BY <1>5, <1>n, AppendFacts
<1>7. /\ executed' \in [Runs -> Seq(CallRows)]
      /\ \A q \in Runs : q # r => executed'[q] = executed[q]
      /\ executed'[r] = Append(executed[r], key)
  BY <1>1, <1>5, <1>6
<1>8. /\ DOMAIN executed'[r] = DOMAIN executed[r] \cup {n}
      /\ executed'[r][n] = key
      /\ \A i \in DOMAIN executed[r] : executed'[r][i] = executed[r][i]
  BY <1>6, <1>7
<1>e. ASSUME NEW q \in Runs, NEW i \in DOMAIN executed'[q], ~(q = r /\ i = n)
      PROVE  i \in DOMAIN executed[q] /\ executed'[q][i] = executed[q][i]
  BY <1>7, <1>8, <1>e
<1>9. CoordinatorTypeOK'
  BY <1>2, <1>4, <1>7 DEF CInv, CoordinatorTypeOK, TablesGrow
<1>10. StepsCounted' /\ StepLimit' /\ OneStarted' /\ CompletionOK'
  <2>1. StepsCounted' /\ StepLimit'
    BY <1>3, <1>4, StepsKept
  <2>2. OneStarted'
    BY <1>1, <1>3, StartedKept
  <2>3. CompletionOK'
    BY <1>3, CompletionKept
  <2> QED BY <2>1, <2>2, <2>3
<1>11. ExecutedOnce'
  <2>1. Keyless(key) => \A q \in Runs : \A i \in DOMAIN executed[q] : executed[q][i] # key
    <3> SUFFICES ASSUME Keyless(key), NEW q \in Runs, NEW i \in DOMAIN executed[q], executed[q][i] = key
                 PROVE  FALSE
      OBVIOUS
    <3>1. ExecutionOK(q, key)
      BY DEF CInv, PlainExecuted
    <3>2. /\ thread[h].pc = "invoke" /\ ~Saved(key) /\ key.run = r /\ key.step = thread[h].step
          /\ Deciding(h)
      BY DEF Keyless, Deciding, DecidingPCs
    <3> QED BY <3>1, <3>2 DEF ExecutionOK
  <2> SUFFICES ASSUME NEW q \in Runs, NEW p \in Runs,
                      NEW i \in DOMAIN executed'[q], NEW j \in DOMAIN executed'[p],
                      executed'[q][i] = executed'[p][j], Keyless(executed'[q][i])
               PROVE  q = p /\ i = j
    BY DEF ExecutedOnce, Keyless
  <2>2. CASE ~(q = r /\ i = n) /\ ~(p = r /\ j = n)
    BY <1>e, <2>2 DEF CInv, ExecutedOnce, Keyless
  <2>3. CASE (q = r /\ i = n) /\ ~(p = r /\ j = n)
    BY <1>e, <1>8, <2>1, <2>3
  <2>4. CASE ~(q = r /\ i = n) /\ (p = r /\ j = n)
    BY <1>e, <1>8, <2>1, <2>4
  <2> QED BY <2>2, <2>3, <2>4
<1>12. PlainExecuted'
  <2>1. ASSUME NEW q \in Runs, NEW k \in CallRows, ExecutionOK(q, k)
        PROVE  ExecutionOK(q, k)'
    <3>1. Saved(k) => Saved(k)'
      BY DEF TablesGrow
    <3>2. ASSUME ~Saved(k), NEW g \in Threads, Deciding(g)', thread'[g].run = q, thread'[g].step = k.step
          PROVE  thread'[g].pc = "saveResult" /\ thread'[g].call = k
      <4>1. CASE g # h
        BY <1>2, <2>1, <3>2, <4>1 DEF ExecutionOK, Deciding
      <4>2. CASE g = h
        <5>1. /\ Deciding(h) /\ thread[h].run = q /\ thread[h].step = k.step
              /\ thread[h].pc # "saveResult"
          BY <1>2, <1>3, <3>2, <4>2 DEF Deciding
        <5> QED BY <2>1, <3>2, <5>1 DEF ExecutionOK
      <4> QED BY <4>1, <4>2
    <3> QED BY <2>1, <3>1, <3>2 DEF ExecutionOK
  <2>2. Keyless(key) => ExecutionOK(r, key)'
    <3> SUFFICES ASSUME Keyless(key) PROVE ExecutionOK(r, key)'
      OBVIOUS
    <3>1. /\ thread[h].pc = "invoke" /\ s.pc = "saveResult" /\ Deciding(h)
          /\ key.run = r /\ key.step = thread[h].step
      BY DEF Keyless, Deciding, DecidingPCs
    <3>2. key.step <= run'[r].stepCount
      BY <3>1 DEF CInv, StepsCounted
    <3>3. ASSUME NEW g \in Threads, Deciding(g)', thread'[g].run = r, thread'[g].step = key.step
          PROVE  thread'[g].pc = "saveResult" /\ thread'[g].call = key
      <4>1. CASE g # h
        <5>1. Deciding(g) /\ thread[g].run = thread[h].run /\ thread[g].step = thread[h].step
          BY <1>2, <3>1, <3>3, <4>1 DEF Deciding
        <5> QED BY <3>1, <4>1, <5>1 DEF CInv, StepLimit
      <4>2. CASE g = h
        BY <1>2, <3>1, <4>2
      <4> QED BY <4>1, <4>2
    <3> QED BY <3>1, <3>2, <3>3 DEF ExecutionOK
  <2>3. ASSUME NEW q \in Runs, NEW i \in DOMAIN executed'[q], NEW k, k = executed'[q][i], Keyless(k)
        PROVE  ExecutionOK(q, k)'
    <3>1. CASE q = r /\ i = n
      BY <1>8, <2>2, <2>3, <3>1
    <3>2. CASE ~(q = r /\ i = n)
      <4>1. i \in DOMAIN executed[q] /\ k = executed[q][i]
        BY <1>e, <2>3, <3>2
      <4>2. ExecutionOK(q, k)
        BY <2>3, <4>1 DEF CInv, PlainExecuted
      <4>3. k \in CallRows
        BY <4>1, TypeFacts DEF CInv
      <4> QED BY <2>1, <4>1, <4>2, <4>3
    <3> QED BY <3>1, <3>2
  <2> QED BY <2>3 DEF PlainExecuted
<1>13. ApprovalsCover'
  <2>1. /\ IsFiniteSet(GatedExecutions) /\ IsFiniteSet(Granted)
        /\ Cardinality(GatedExecutions) + Cardinality(Granted) <= approvals
        /\ Cardinality(GatedExecutions) \in Nat /\ Cardinality(Granted) \in Nat
    BY FS_CardinalityType DEF CInv, ApprovalsCover
  <2>e. PICK e : e = <<r, n>>
    OBVIOUS
  <2>2. \A x : x \in GatedExecutions' <=>
                 \/ x \in GatedExecutions
                 \/ x = e /\ key.tool \in Gated
    <3>1. \A x : x \in GatedExecutions <=>
            \E q \in Runs : \E i \in DOMAIN executed[q] :
              x = <<q, i>> /\ executed[q][i].tool \in Gated
      BY DEF GatedExecutions
    <3>2. \A x : x \in GatedExecutions' <=>
            \E q \in Runs : \E i \in DOMAIN executed'[q] :
              x = <<q, i>> /\ executed'[q][i].tool \in Gated
      BY DEF GatedExecutions
    <3>3. ASSUME NEW q \in Runs, NEW i
          PROVE  (i \in DOMAIN executed'[q] /\ executed'[q][i].tool \in Gated) <=>
                   \/ i \in DOMAIN executed[q] /\ executed[q][i].tool \in Gated
                   \/ q = r /\ i = n /\ key.tool \in Gated
      <4>1. CASE q # r
        BY <1>7, <4>1
      <4>2. CASE q = r
        BY <1>6, <1>8, <4>2
      <4> QED BY <4>1, <4>2
    <3> QED BY <1>1, <2>e, <3>1, <3>2, <3>3
  <2>3. CASE key.tool \notin Gated
    <3>1. GatedExecutions' = GatedExecutions
      BY <2>2, <2>3
    <3>2. Granted' = Granted
      BY <1>3, <1>2, <2>3 DEF Granted, GrantPCs
    <3> QED BY <2>1, <3>1, <3>2 DEF ApprovalsCover
  <2>4. CASE key.tool \in Gated
    <3>1. thread[h].pc = "approvedInvoke"
      BY <2>4
    <3>2. GatedExecutions' = GatedExecutions \cup {e}
      BY <2>2, <2>4
    <3>3. Granted' = Granted \ {h} /\ h \in Granted
      BY <1>3, <1>2, <3>1 DEF Granted, GrantPCs
    <3>4. /\ IsFiniteSet(GatedExecutions')
          /\ Cardinality(GatedExecutions') <= Cardinality(GatedExecutions) + 1
          /\ Cardinality(GatedExecutions') \in Nat
      <4>1. CASE e \in GatedExecutions
        <5>1. GatedExecutions' = GatedExecutions
          BY <3>2, <4>1
        <5> QED BY <2>1, <5>1
      <4>2. CASE e \notin GatedExecutions
        <5>1. /\ IsFiniteSet(GatedExecutions')
              /\ Cardinality(GatedExecutions') = Cardinality(GatedExecutions) + 1
          BY <2>1, <3>2, <4>2, FS_AddElement
        <5> QED BY <2>1, <5>1
      <4> QED BY <4>1, <4>2
    <3>5. IsFiniteSet(Granted') /\ Cardinality(Granted') = Cardinality(Granted) - 1
      BY <2>1, <3>3, FS_RemoveElement
    <3> QED BY <1>4, <2>1, <3>4, <3>5 DEF ApprovalsCover
  <2> QED BY <2>3, <2>4
<1>14. CallsCounted'
  <2> SUFFICES ASSUME NEW q \in Runs
               PROVE  LET m == Cardinality(PlainExecutions(q)') + Cardinality(Invoking(q)')
                      IN  /\ IsFiniteSet(Invoking(q)')
                          /\ m <= run'[q].toolCallCount
                          /\ MaxToolCalls > 0 => m <= MaxToolCalls
    BY DEF CallsCounted
  <2>1. /\ IsFiniteSet(Invoking(q)) /\ Cardinality(Invoking(q)) \in Nat
        /\ Cardinality(PlainExecutions(q)) + Cardinality(Invoking(q)) <= run[q].toolCallCount
        /\ MaxToolCalls > 0 =>
             Cardinality(PlainExecutions(q)) + Cardinality(Invoking(q)) <= MaxToolCalls
    BY FS_CardinalityType DEF CInv, CallsCounted
  <2>2. CASE q = r /\ key.tool \notin Gated
    <3>1. thread[h].pc = "invoke"
      BY <2>2
    <3>2. PlainExecutions(q)' = PlainExecutions(q) \cup {n} /\ n \notin PlainExecutions(q)
      BY <1>6, <1>8, <2>2 DEF PlainExecutions
    <3>3. Invoking(q)' = Invoking(q) \ {h} /\ h \in Invoking(q)
      BY <1>3, <1>2, <2>2, <3>1 DEF Invoking
    <3>4. Cardinality(PlainExecutions(q)') = Cardinality(PlainExecutions(q)) + 1
      BY <1>5, <3>2, FS_AddElement
    <3>5. IsFiniteSet(Invoking(q)') /\ Cardinality(Invoking(q)') = Cardinality(Invoking(q)) - 1
      BY <2>1, <3>3, FS_RemoveElement
    <3> QED BY <1>4, <1>5, <2>1, <3>4, <3>5, CoordinatorAssumption
  <2>3. CASE q # r \/ key.tool \in Gated
    <3>1. PlainExecutions(q)' = PlainExecutions(q)
      BY <1>7, <1>8, <2>3 DEF PlainExecutions
    <3>2. Invoking(q)' \subseteq Invoking(q)
      BY <1>3, <1>2 DEF Invoking
    <3>3. /\ IsFiniteSet(Invoking(q)') /\ Cardinality(Invoking(q)') <= Cardinality(Invoking(q))
          /\ Cardinality(Invoking(q)') \in Nat
      BY <2>1, <3>2, FS_Subset, FS_CardinalityType
    <3> QED BY <1>4, <1>5, <2>1, <3>1, <3>3, CoordinatorAssumption
  <2> QED BY <2>2, <2>3
<1>15. SavedGiven' /\ PendingGated'
  BY DEF TablesGrow
<1> QED BY <1>2, <1>9, <1>10, <1>11, <1>12, <1>13, <1>14, <1>15 DEF CInv

\* A result that is saved is the newest of its call.
LEMMA ResultSaved ==
  ASSUME CInv, NEW key \in CallRows, NEW status \in ResultStatuses,
         status = "pending" => key.tool \in Gated, UNCHANGED saved,
         results' = [results EXCEPT ![key.run] = Append(@, [key |-> key, status |-> status])]
  PROVE  TablesGrow /\ Saved(key)'
<1> DEFINE Results == [key : CallRows, status : ResultStatuses]
           x == [key |-> key, status |-> status]
<1>r. PICK r : r = key.run
  OBVIOUS
<1>1. r \in Runs /\ results \in [Runs -> Seq(Results)] /\ results[r] \in Seq(Results)
  BY <1>r DEF CallRows, CInv, CoordinatorTypeOK
<1>2. x \in Results /\ x.key = key /\ x.status = status
  OBVIOUS
<1>3. results' = [results EXCEPT ![r] = Append(results[r], x)]
  BY <1>r
<1>m. PICK m : m = Len(results[r]) + 1
  OBVIOUS
<1> HIDE DEF x, Results
<1>4. /\ Append(results[r], x) \in Seq(Results)
      /\ DOMAIN Append(results[r], x) = DOMAIN results[r] \cup {m}
      /\ Append(results[r], x)[m] = x
      /\ \A i \in DOMAIN results[r] : Append(results[r], x)[i] = results[r][i]
  BY <1>m, <1>1, <1>2, AppendFacts
<1>5. /\ results' \in [Runs -> Seq(Results)]
      /\ \A q \in Runs : q # r => results'[q] = results[q]
      /\ results'[r] = Append(results[r], x)
  BY <1>1, <1>3, <1>4
<1>6. PendingGated'
  <2> SUFFICES ASSUME NEW q \in Runs, NEW i \in DOMAIN results'[q], results'[q][i].status = "pending"
               PROVE  results'[q][i].key.tool \in Gated
    BY DEF PendingGated
  <2>1. CASE q = r /\ i = m
    BY <1>2, <1>4, <1>5, <2>1
  <2>2. CASE i \in DOMAIN results[q] /\ results'[q][i] = results[q][i]
    BY <2>2 DEF CInv, PendingGated
  <2> QED BY <1>4, <1>5, <2>1, <2>2
<1>7. ASSUME NEW k \in CallRows, Saved(k) PROVE Saved(k)'
  <2>1. k.run \in Runs
    BY DEF CallRows
  <2>2. PICK i \in DOMAIN results[k.run] : results[k.run][i].key = k
    BY <1>7 DEF Saved
  <2>3. i \in DOMAIN results'[k.run] /\ results'[k.run][i] = results[k.run][i]
    BY <1>4, <1>5, <2>1, <2>2
  <2> QED BY <2>2, <2>3 DEF Saved
<1>8. Saved(key)'
  <2>1. m \in DOMAIN results'[r] /\ results'[r][m] = x
    BY <1>4, <1>5
  <2> QED BY <1>2, <1>r, <2>1 DEF Saved
<1>9. saved' \in [SuppliedKeys -> CallRows \cup {NoCall}] /\ SavedGiven'
  BY DEF CInv, CoordinatorTypeOK, SavedGiven
<1> QED BY <1>5, <1>6, <1>7, <1>8, <1>9 DEF TablesGrow, Results

LEMMA SaveResultStep ==
  ASSUME CInv, NEW h \in Threads, NEW next, NEW err, SaveResult(h, next, err),
         UNCHANGED <<task, run, saved, executed, asked, approvals>>,
         \/ /\ thread[h].pc = "saveResult" /\ err = "fail"
            /\ next \subseteq {"approvalRequired", "tool_waiting", "toolMarkFailed"}
         \/ /\ thread[h].pc = "approvedSave" /\ err = "done"
            /\ next \subseteq {"approvedToolWaiting"}
  PROVE  CInv'
<1>c. PICK key : key = thread[h].call
  OBVIOUS
<1>s. PICK status : status = thread[h].result
  OBVIOUS
<1>1. /\ key \in CallRows /\ status \in ResultStatuses
      /\ status = "pending" => key.tool \in Gated
  BY <1>c, <1>s DEF CInv, ThreadsOK, LocalsOK, SavePCs
<1>2. ASSUME TablesGrow PROVE OrdinaryStores
  <2>1. run \in [Runs -> RunRows] /\ task \in TaskStatuses
    BY DEF CInv, CoordinatorTypeOK
  <2> QED BY <1>2, <2>1 DEF OrdinaryStores
<1>3. ASSUME TablesGrow, NEW pc \in next \cup {err}, MoveTo(h, pc), pc # err => Saved(key)'
      PROVE  CInv'
  <2>1. /\ pc \in PCs /\ pc \notin SpecialPCs \cup {"markCompleted"}
        /\ thread[h].pc \notin UnstartedPCs
        /\ pc \in DecidingPCs => Deciding(h) /\ Saved(key)'
        /\ pc \in CallPCs => thread[h].pc \in CallPCs
    BY <1>3 DEF PCs, SpecialPCs, UnstartedPCs, DecidingPCs, Deciding, CallPCs
  <2>2. pc \in DecidingPCs => CallSaved(h)
    BY <1>c, <2>1 DEF CallSaved
  <2> QED BY <1>2, <1>3, <2>1, <2>2, OrdinaryMove
<1>4. CASE UNCHANGED results /\ MoveTo(h, err)
  BY <1>3, <1>4, TablesUnchanged
<1>5. CASE /\ results' = [results EXCEPT ![key.run] = Append(@, [key |-> key, status |-> status])]
           /\ \E pc \in next \cup {err} : MoveTo(h, pc)
  <2>1. TablesGrow /\ Saved(key)'
    BY <1>1, <1>5, ResultSaved
  <2> QED BY <1>3, <1>5, <2>1
<1> QED BY <1>c, <1>s, <1>4, <1>5 DEF SaveResult

-----------------------------------------------------------------------------
LEMMA CoordinatorInitInv == CoordinatorInit => CInv
<1> SUFFICES ASSUME CoordinatorInit PROVE CInv
  OBVIOUS
<1>1. \A h \in Threads : thread[h] = At("idle") /\ thread[h].pc = "idle"
  BY DEF CoordinatorInit, At
<1>2. \A r \in Runs : /\ run[r] = [status |-> "absent", stepCount |-> 0, toolCallCount |-> 0]
                      /\ DOMAIN results[r] = {} /\ DOMAIN executed[r] = {}
  BY DEF CoordinatorInit
<1>3. CoordinatorTypeOK
  <2>1. At("idle") \in ThreadStates
    BY CoordinatorAssumption DEF At, ThreadStates, PCs
  <2> QED BY <2>1 DEF CoordinatorInit, CoordinatorTypeOK, TaskStatuses, RunRows, RunStatuses
<1>4. ThreadsOK /\ StepsCounted /\ StepLimit
  BY <1>1 DEF ThreadsOK, LocalsOK, CallPCs, SavePCs, DecidingPCs, StepsCounted, StepLimit, Deciding
<1>5. OneStarted /\ CompletionOK
  BY <1>1, <1>2 DEF CoordinatorInit, OneStarted, StartedRuns, UnstartedPCs, CompletionOK,
                    CompletedTogether
<1>6. SavedGiven /\ ExecutedOnce /\ PlainExecuted /\ PendingGated
  BY <1>2 DEF CoordinatorInit, SavedGiven, ExecutedOnce, PlainExecuted, PendingGated
<1>7. ApprovalsCover
  <2>1. GatedExecutions = {} /\ Granted = {}
    BY <1>1, <1>2 DEF GatedExecutions, Granted, GrantPCs
  <2> QED BY <2>1, FS_EmptySet DEF ApprovalsCover, CoordinatorInit
<1>8. CallsCounted
  <2>1. \A r \in Runs : PlainExecutions(r) = {} /\ Invoking(r) = {} /\ run[r].toolCallCount = 0
    BY <1>1, <1>2 DEF PlainExecutions, Invoking
  <2>2. IsFiniteSet({}) /\ Cardinality({}) = 0
    BY FS_EmptySet
  <2>3. ASSUME NEW r \in Runs
        PROVE  /\ IsFiniteSet(Invoking(r))
               /\ Cardinality(PlainExecutions(r)) + Cardinality(Invoking(r)) = 0
    BY <2>1, <2>2
  <2> QED BY <2>1, <2>3, CoordinatorAssumption DEF CallsCounted
<1> QED BY <1>3, <1>4, <1>5, <1>6, <1>7, <1>8 DEF CInv

(***************************************************************************)
(* The row a call is stored in is its own, unless its key was supplied.    *)
(***************************************************************************)
LEMMA CallRowFacts ==
  ASSUME CInv, NEW h \in Threads, thread[h].pc = "invoke"
  PROVE  /\ CallRow(h) \in CallRows
         /\ CallRow(h).given = Ungiven =>
              CallRow(h).run = thread[h].run /\ CallRow(h).step = thread[h].step
         /\ SaveCall(h) => saved' \in [SuppliedKeys -> CallRows \cup {NoCall}] /\ SavedGiven'
<1>1. thread[h].calls \in Seq(Calls) /\ thread[h].calls # <<>>
  BY DEF CInv, CoordinatorTypeOK, ThreadStates, ThreadsOK, LocalsOK, CallPCs
<1>2. thread[h].run \in Runs /\ thread[h].step \in Nat \ {0}
  BY CoordinatorAssumption DEF CInv, ThreadsOK, LocalsOK, DecidingPCs
<1>3. PICK row : row = NewCall(h)
  OBVIOUS
<1>4. /\ row \in CallRows /\ row.run = thread[h].run /\ row.step = thread[h].step
      /\ row.given \in SuppliedKeys \cup {Ungiven}
  <2>1. Head(thread[h].calls) \in Calls
    BY <1>1
  <2> QED BY <1>2, <1>3, <2>1 DEF NewCall, Calls, CallRows
<1>5. /\ saved \in [SuppliedKeys -> CallRows \cup {NoCall}]
      /\ \A k \in SuppliedKeys : saved[k] # NoCall => saved[k].given = k
  BY DEF CInv, CoordinatorTypeOK, SavedGiven
<1>6. PICK stored : stored = CallRow(h)
  OBVIOUS
<1>7. CASE row.given = Ungiven
  <2>1. stored = row
    BY <1>3, <1>6, <1>7 DEF CallRow
  <2>2. SaveCall(h) => saved' = saved
    BY <1>3, <1>7 DEF SaveCall
  <2> QED BY <1>4, <1>5, <1>6, <2>1, <2>2 DEF SavedGiven
<1>8. CASE row.given # Ungiven
  <2>1. row.given \in SuppliedKeys
    BY <1>4, <1>8
  <2>2. stored = IF saved[row.given] = NoCall THEN row ELSE saved[row.given]
    BY <1>3, <1>6, <1>8 DEF CallRow
  <2>3. stored \in CallRows /\ stored.given = row.given
    BY <1>4, <1>5, <2>1, <2>2
  <2>4. SaveCall(h) => saved' = [saved EXCEPT ![row.given] = stored]
    BY <1>3, <1>6, <1>8 DEF SaveCall
  <2>5. ASSUME SaveCall(h) PROVE saved' \in [SuppliedKeys -> CallRows \cup {NoCall}] /\ SavedGiven'
    BY <1>5, <2>1, <2>3, <2>4, <2>5 DEF SavedGiven
  <2> QED BY <1>6, <1>8, <2>3, <2>5
<1> QED BY <1>7, <1>8

\* A call for which no result is found has none.
LEMMA ResultFound ==
  ASSUME CInv, NEW key \in CallRows, ResultOf(key) = {}
  PROVE  ~Saved(key)
<1>r. PICK r : r = key.run
  OBVIOUS
<1> SUFFICES ASSUME NEW i \in DOMAIN results[r], results[r][i].key = key
             PROVE  FALSE
  BY <1>r DEF Saved
<1>1. r \in Runs /\ results[r] \in Seq([key : CallRows, status : ResultStatuses])
  BY <1>r DEF CInv, CoordinatorTypeOK, CallRows
<1>2. DOMAIN results[r] = 1..Len(results[r]) /\ Len(results[r]) \in Nat
  BY <1>1
<1> DEFINE S == {j \in DOMAIN results[r] : results[r][j].key = key}
<1>3. S \in SUBSET Nat /\ S # {} /\ \A j \in S : j <= Len(results[r])
  BY <1>2
<1>4. PICK m \in S : \A j \in S : m >= j
  BY <1>2, <1>3, GreatestElement
<1>5. ~Replaced(r, m)
  BY <1>2, <1>4 DEF Replaced
<1>6. results[r][m].status \in ResultOf(key)
  BY <1>4, <1>5, <1>r DEF ResultOf
<1> QED BY <1>6

LEMMA TailFacts ==
  ASSUME NEW S, NEW e \in Seq(S), e # <<>>, Len(e) # 1
  PROVE  Tail(e) \in Seq(S) /\ Tail(e) # <<>>
<1>1. Tail(e) \in Seq(S) /\ Len(Tail(e)) = Len(e) - 1
  BY HeadTailProperties
<1>2. Len(e) \in Nat \ {0, 1} /\ Len(<<>>) = 0
  BY EmptySeq
<1>3. Len(Tail(e)) # Len(<<>>)
  BY <1>1, <1>2
<1> QED BY <1>1, <1>3

LEMMA NextCallStep ==
  ASSUME CInv, NEW h \in Threads, NextCall(h), OrdinaryStores,
         thread[h].pc \in {"invoke", "result"}
  PROVE  CInv'
<1>2. CASE MoveTo(h, "loop")
  BY <1>2, OrdinaryMove DEF PCs, UnstartedPCs, DecidingPCs, CallPCs, SpecialPCs
<1>3. CASE /\ Len(thread[h].calls) # 1
           /\ thread' = [thread EXCEPT ![h] = [@ EXCEPT !.pc = "tool", !.calls = Tail(thread[h].calls),
                                                        !.call = NoCall, !.result = NoResult]]
  <2>1. PICK s : s = [thread[h] EXCEPT !.pc = "tool", !.calls = Tail(thread[h].calls),
                                       !.call = NoCall, !.result = NoResult]
    OBVIOUS
  <2>2. /\ thread[h] \in ThreadStates /\ thread[h].calls \in Seq(Calls) /\ thread[h].calls # <<>>
        /\ LocalsOK(thread[h]) /\ Deciding(h)
    BY TypeFacts DEF CInv, ThreadStates, ThreadsOK, LocalsOK, CallPCs, Deciding, DecidingPCs
  <2>3. Tail(thread[h].calls) \in Seq(Calls) /\ Tail(thread[h].calls) # <<>>
    BY <1>3, <2>2, TailFacts
  <2>4. /\ s \in ThreadStates /\ s.pc = "tool" /\ s.run = thread[h].run /\ s.step = thread[h].step
        /\ s.calls = Tail(thread[h].calls)
    BY <2>1, <2>2, <2>3 DEF ThreadStates, PCs
  <2>5. thread[h].run \in StartedRuns /\ thread[h].run \in Runs
    BY DrivesStarted DEF UnstartedPCs
  <2>6. LocalsOK(s)
    BY <2>2, <2>3, <2>4, <2>5 DEF LocalsOK, Deciding, SavePCs
  <2>7. thread' = [thread EXCEPT ![h] = s]
    BY <1>3, <2>1
  <2>9. GoesOn(h, s)
    BY <2>4, <2>6, <2>7 DEF GoesOn
  <2>8. s.pc \notin GrantPCs
    BY <2>4 DEF GrantPCs
  <2> QED BY <2>2, <2>4, <2>5, <2>9, <2>8, OrdinaryStep
<1> QED BY <1>2, <1>3 DEF NextCall

(***************************************************************************)
(* An invocation is executed, ends before it is, or fails.                 *)
(***************************************************************************)
LEMMA InvokeStep ==
  ASSUME CInv, NEW h \in Threads, NEW key \in CallRows, NEW approved, NEW ok, NEW err,
         Invoke(h, key, approved, ok, err),
         UNCHANGED <<task, run, results, asked, approvals>>, TablesGrow,
         \/ /\ thread[h].pc = "invoke" /\ ok = "saveResult" /\ err = "fail" /\ approved = FALSE
            /\ ~Saved(key)
            /\ key.given = Ungiven => key.run = thread[h].run /\ key.step = thread[h].step
         \/ /\ thread[h].pc = "approvedInvoke" /\ ok = "approvedSave" /\ err = "done"
            /\ key.tool \in Gated
  PROVE  CInv'
<1>1. /\ thread[h] \in ThreadStates /\ LocalsOK(thread[h])
      /\ thread[h].run \in StartedRuns /\ thread[h].run \in Runs
  BY DrivesStarted, TypeFacts DEF CInv, ThreadsOK, UnstartedPCs
<1>2. ASSUME UNCHANGED executed PROVE OrdinaryStores
  <2>1. run \in [Runs -> RunRows] /\ task \in TaskStatuses
    BY DEF CInv, CoordinatorTypeOK
  <2> QED BY <1>2, <2>1 DEF OrdinaryStores
<1>3. ASSUME NEW status \in ResultStatuses, status = "pending" => key.tool \in Gated,
             NEW s, s = [thread[h] EXCEPT !.pc = ok, !.call = key, !.result = status],
             thread' = [thread EXCEPT ![h] = s]
      PROVE  /\ GoesOn(h, s) /\ s.pc = ok /\ s.run = thread[h].run /\ s.step = thread[h].step
             /\ s.call = key
  <2>1. ok \in PCs
    BY DEF PCs
  <2>2. /\ s \in ThreadStates /\ s.pc = ok /\ s.run = thread[h].run /\ s.step = thread[h].step
        /\ s.call = key /\ s.result = status /\ s.calls = thread[h].calls
    BY <1>1, <1>3, <2>1 DEF ThreadStates
  <2>3. LocalsOK(s)
    BY <1>1, <1>3, <2>2 DEF LocalsOK, CallPCs, SavePCs, DecidingPCs
  <2> QED BY <1>3, <2>2, <2>3 DEF GoesOn
<1>4. ASSUME NEW status \in Unexecuted(key.tool, approved), UNCHANGED executed,
             NEW s, s = [thread[h] EXCEPT !.pc = ok, !.call = key, !.result = status],
             thread' = [thread EXCEPT ![h] = s]
      PROVE  CInv'
  <2>1. status \in ResultStatuses /\ (status = "pending" => key.tool \in Gated)
    BY <1>4 DEF Unexecuted, ResultStatuses
  <2>2. GoesOn(h, s) /\ s.pc = ok /\ s.run = thread[h].run /\ s.step = thread[h].step
    BY <1>3, <1>4, <2>1
  <2>3. /\ s.pc \in DecidingPCs => Deciding(h) /\ thread[h].pc # "saveResult"
        /\ s.pc \notin GrantPCs \cup {"invoke", "markCompleted"}
    BY <2>2 DEF Deciding, DecidingPCs, GrantPCs
  <2> QED BY <1>1, <1>2, <1>4, <2>2, <2>3, OrdinaryStep
<1>5. ASSUME NEW status \in Executed(key.tool, approved),
             executed' = [executed EXCEPT ![thread[h].run] = Append(@, key)],
             NEW s, s = [thread[h] EXCEPT !.pc = ok, !.call = key, !.result = status],
             thread' = [thread EXCEPT ![h] = s]
      PROVE  CInv'
  <2>1. /\ status \in ResultStatuses /\ status # "pending"
        /\ approved = FALSE => key.tool \notin Gated
    BY <1>5 DEF Executed, ResultStatuses
  <2>2. GoesOn(h, s) /\ s.pc = ok /\ s.run = thread[h].run /\ s.step = thread[h].step /\ s.call = key
    BY <1>3, <1>5, <2>1
  <2>3. PICK r : r = thread[h].run
    OBVIOUS
  <2>4. executed' = [executed EXCEPT ![r] = Append(executed[r], key)] /\ s.run = r
    BY <1>5, <2>2, <2>3
  <2> QED BY <2>1, <2>2, <2>3, <2>4, ExecutionStep
<1>6. CASE UNCHANGED executed /\ MoveTo(h, err)
  <2>1. /\ err \in PCs /\ err \notin SpecialPCs \cup {"markCompleted"} \cup DecidingPCs \cup CallPCs
        /\ err # "done" => thread[h].pc \notin UnstartedPCs
    BY DEF PCs, SpecialPCs, DecidingPCs, CallPCs, UnstartedPCs
  <2> QED BY <1>2, <1>6, <2>1, OrdinaryMove
<1> QED BY <1>4, <1>5, <1>6 DEF Invoke

LEMMA ToolInvokeStep ==
  ASSUME CInv, NEW h \in Threads, ToolInvoke(h)
  PROVE  CInv'
<1>1. thread[h].pc = "invoke" /\ UNCHANGED <<task, run, results, asked, approvals>>
  BY DEF ToolInvoke
<1>2. PICK key : key = CallRow(h)
  OBVIOUS
<1>3. /\ key \in CallRows
      /\ key.given = Ungiven => key.run = thread[h].run /\ key.step = thread[h].step
      /\ SaveCall(h) => saved' \in [SuppliedKeys -> CallRows \cup {NoCall}] /\ SavedGiven'
  BY <1>1, <1>2, CallRowFacts
<1>4. ASSUME SaveCall(h) PROVE TablesGrow
  BY <1>1, <1>3, <1>4 DEF TablesGrow, CInv, CoordinatorTypeOK, PendingGated, Saved
<1>5. ASSUME TablesGrow, UNCHANGED executed PROVE OrdinaryStores
  <2>1. run \in [Runs -> RunRows] /\ task \in TaskStatuses
    BY DEF CInv, CoordinatorTypeOK
  <2> QED BY <1>1, <1>5, <2>1 DEF OrdinaryStores
<1>6. CASE UNCHANGED <<saved, executed>> /\ MoveTo(h, "fail")
  BY <1>1, <1>5, <1>6, TablesUnchanged, OrdinaryMove
     DEF PCs, UnstartedPCs, DecidingPCs, CallPCs, SpecialPCs
<1>7. CASE SaveCall(h) /\ ResultOf(key) = {} /\ Invoke(h, key, FALSE, "saveResult", "fail")
  <2>1. ~Saved(key)
    BY <1>3, <1>7, ResultFound
  <2> QED BY <1>1, <1>3, <1>4, <1>7, <2>1, InvokeStep
<1>8. CASE SaveCall(h) /\ UNCHANGED executed /\ MoveTo(h, "markWaitingApproval")
  BY <1>1, <1>4, <1>5, <1>8, OrdinaryMove DEF PCs, UnstartedPCs, DecidingPCs, CallPCs, SpecialPCs
<1>9. CASE SaveCall(h) /\ UNCHANGED executed /\ NextCall(h)
  BY <1>1, <1>4, <1>5, <1>9, NextCallStep
<1> QED BY <1>2, <1>6, <1>7, <1>8, <1>9 DEF ToolInvoke

LEMMA ToolSaveResultStep ==
  ASSUME CInv, NEW h \in Threads, ToolSaveResult(h)
  PROVE  CInv'
<1>1. thread[h].pc = "saveResult" /\ UNCHANGED <<task, run, saved, executed, asked, approvals>>
  BY DEF ToolSaveResult
<1>2. PICK next : next = AfterResult[thread[h].result]
  OBVIOUS
<1>3. next \subseteq {"approvalRequired", "tool_waiting", "toolMarkFailed"}
  <2>1. thread[h].result \in ResultStatuses
    BY <1>1 DEF CInv, ThreadsOK, LocalsOK, SavePCs
  <2> QED BY <1>2, <2>1 DEF AfterResult, ResultStatuses
<1>4. SaveResult(h, next, "fail")
  BY <1>2 DEF ToolSaveResult
<1> QED BY <1>1, <1>3, <1>4, SaveResultStep

LEMMA ApprovedInvokeStep ==
  ASSUME CInv, NEW h \in Threads, ApprovedInvoke(h)
  PROVE  CInv'
<1>1. /\ thread[h].pc = "approvedInvoke" /\ UNCHANGED <<task, run, saved, results, asked, approvals>>
      /\ Invoke(h, thread[h].call, TRUE, "approvedSave", "done")
  BY DEF ApprovedInvoke
<1>2. thread[h].call \in CallRows /\ thread[h].call.tool \in Gated
  BY <1>1 DEF CInv, ThreadsOK, LocalsOK
<1> QED BY <1>1, <1>2, TablesUnchanged, InvokeStep

LEMMA ApprovedSaveResultStep ==
  ASSUME CInv, NEW h \in Threads, ApprovedSaveResult(h)
  PROVE  CInv'
BY SaveResultStep DEF ApprovedSaveResult

\* The approver takes up the call of a run that asked.
LEMMA FindPendingStep ==
  ASSUME CInv, NEW h \in Threads, FindPending(h)
  PROVE  CInv'
<1>1. thread[h].pc = "find" /\ UNCHANGED stores /\ OrdinaryStores
  BY QuietStores DEF FindPending
<1>2. CASE MoveTo(h, "done")
  BY <1>1, <1>2, OrdinaryMove DEF PCs, DecidingPCs, CallPCs, SpecialPCs
<1>3. ASSUME NEW r \in asked, NEW i \in Pending(r), NEW key, key = results[r][i].key, NEW s,
             s = [thread[h] EXCEPT !.pc = "approvedInvoke", !.run = r, !.call = key],
             thread' = [thread EXCEPT ![h] = s]
      PROVE  CInv'
  <2>1. r \in Runs /\ r \in StartedRuns
    BY DEF CInv, CoordinatorTypeOK, StartedRuns
  <2>2. results[r] \in Seq([key : CallRows, status : ResultStatuses]) /\ i \in DOMAIN results[r]
    BY <2>1 DEF CInv, CoordinatorTypeOK, Pending
  <2>3. results[r][i] \in [key : CallRows, status : ResultStatuses]
    <3>1. \A S : \A e \in Seq(S) : \A j \in DOMAIN e : e[j] \in S
      OBVIOUS
    <3> QED BY <2>2, <3>1, Zenon
  <2>4. key \in CallRows
    BY <1>3, <2>3
  <2>5. key.tool \in Gated
    BY <1>3, <2>1, <2>2 DEF CInv, PendingGated, Pending
  <2>6. s \in ThreadStates /\ s.pc = "approvedInvoke" /\ s.run = r /\ s.call = key
    <3>1. thread[h] \in ThreadStates
      BY TypeFacts DEF CInv
    <3>2. "approvedInvoke" \in PCs
      BY DEF PCs
    <3> QED BY <1>3, <2>1, <2>4, <3>1, <3>2 DEF ThreadStates
  <2>7. LocalsOK(s)
    BY <2>1, <2>4, <2>5, <2>6 DEF LocalsOK, DecidingPCs, CallPCs, SavePCs
  <2>8. GoesOn(h, s)
    BY <1>3, <2>6, <2>7 DEF GoesOn
  <2>9. /\ s.pc \notin DecidingPCs /\ thread[h].pc \in GrantPCs
        /\ s.pc \notin {"invoke", "markCompleted"}
    BY <1>1, <2>6 DEF DecidingPCs, GrantPCs
  <2> QED BY <1>1, <2>1, <2>6, <2>8, <2>9, OrdinaryStep
<1> QED BY <1>2, <1>3 DEF FindPending

\* A run is prepared: it is not started yet.
LEMMA PrepareStep ==
  ASSUME CInv, NEW r \in Runs, Prepare(r)
  PROVE  CInv'
<1>1. /\ UNCHANGED <<task, saved, results, executed, asked, approvals>> /\ r \in Threads
      /\ thread[r].pc = "idle" /\ thread[r] \in ThreadStates
      /\ run \in [Runs -> RunRows] /\ run' = [run EXCEPT ![r].status = "created"]
  BY TypeFacts DEF Prepare, CInv, CoordinatorTypeOK, Threads
<1>2. OrdinaryStores
  <2>1. run' \in [Runs -> RunRows]
    BY <1>1 DEF RunRows, RunStatuses
  <2>2. \A q \in Runs :
          /\ run'[q].stepCount = run[q].stepCount /\ run'[q].toolCallCount = run[q].toolCallCount
          /\ run'[q].status \in {run[q].status, "created"}
    BY <1>1 DEF RunRows
  <2> QED BY <1>1, <2>1, <2>2, TablesUnchanged DEF OrdinaryStores, CInv, CoordinatorTypeOK
<1>3. ASSUME NEW pc \in {"accept", "done"}, NEW s, s = [thread[r] EXCEPT !.pc = pc, !.run = r],
             thread' = [thread EXCEPT ![r] = s]
      PROVE  CInv'
  <2>1. s \in ThreadStates /\ s.pc = pc /\ s.run = r
    BY <1>1, <1>3 DEF ThreadStates, PCs
  <2>2. /\ pc \notin DecidingPCs \cup CallPCs \cup GrantPCs \cup SavePCs
        /\ pc \notin {"invoke", "markCompleted", "approvedInvoke"}
    BY DEF DecidingPCs, CallPCs, GrantPCs, SavePCs
  <2>3. GoesOn(r, s) /\ s.pc \in UnstartedPCs
    BY <1>3, <2>1, <2>2 DEF GoesOn, LocalsOK, UnstartedPCs
  <2> QED BY <1>1, <1>2, <2>1, <2>2, <2>3, OrdinaryStep
<1> QED BY <1>3 DEF Prepare

\* A usable answer of the model is dispatched.
LEMMA ModelDecisionStep ==
  ASSUME CInv, NEW h \in Threads, ModelDecision(h)
  PROVE  CInv'
<1>1. thread[h].pc = "model" /\ UNCHANGED stores /\ OrdinaryStores
  BY QuietStores DEF ModelDecision
<1>2. /\ thread[h] \in ThreadStates /\ LocalsOK(thread[h]) /\ Deciding(h)
      /\ thread[h].run \in StartedRuns /\ thread[h].run \in Runs
  BY <1>1, DrivesStarted, TypeFacts DEF CInv, ThreadsOK, Deciding, DecidingPCs, UnstartedPCs
<1>3. ASSUME NEW s \in ThreadStates, s.pc \in {"model", "tool"}, s.pc = "tool" => s.calls # <<>>,
             s.run = thread[h].run, s.step = thread[h].step, thread' = [thread EXCEPT ![h] = s]
      PROVE  CInv'
  <2>1. LocalsOK(s)
    BY <1>2, <1>3 DEF LocalsOK, Deciding, CallPCs, SavePCs
  <2>2. GoesOn(h, s)
    BY <1>3, <2>1 DEF GoesOn
  <2>3. s.pc \notin GrantPCs /\ s.pc \notin {"invoke", "markCompleted"}
    BY <1>3 DEF GrantPCs
  <2> QED BY <1>1, <1>2, <1>3, <2>2, <2>3, OrdinaryStep
<1>4. CASE /\ thread[h].attempt < MaxRepairs
           /\ thread' = [thread EXCEPT ![h].attempt = @ + 1]
  <2>1. PICK s : s = [thread[h] EXCEPT !.attempt = thread[h].attempt + 1]
    OBVIOUS
  <2>2. /\ s \in ThreadStates /\ s.pc = "model"
        /\ s.run = thread[h].run /\ s.step = thread[h].step
    BY <1>1, <1>2, <1>4, <2>1, CoordinatorAssumption DEF ThreadStates
  <2>3. thread' = [thread EXCEPT ![h] = s]
    BY <1>4, <2>1 DEF CInv, CoordinatorTypeOK, ThreadStates
  <2> QED BY <1>3, <2>2, <2>3
<1>5. ASSUME NEW pc \in {"fail", "complete", "ask", "errorFail"}, MoveTo(h, pc)
      PROVE  CInv'
  BY <1>1, <1>2, <1>5, OrdinaryMove DEF PCs, CallPCs, UnstartedPCs, SpecialPCs
<1>6. ASSUME NEW n \in 1..MaxCalls, NEW calls \in [1..n -> Calls],
             thread' = [thread EXCEPT ![h] = [@ EXCEPT !.pc = "tool", !.calls = calls]]
      PROVE  CInv'
  <2>1. n \in Nat \ {0}
    BY CoordinatorAssumption
  <2>2. calls \in Seq(Calls) /\ Len(calls) = n
    BY <2>1
  <2>3. calls # <<>>
    BY <2>1, <2>2, EmptySeq
  <2>4. PICK s : s = [thread[h] EXCEPT !.pc = "tool", !.calls = calls]
    OBVIOUS
  <2>5. /\ s \in ThreadStates /\ s.pc = "tool" /\ s.calls = calls
        /\ s.run = thread[h].run /\ s.step = thread[h].step
    BY <1>2, <2>2, <2>4 DEF ThreadStates, PCs
  <2>6. thread' = [thread EXCEPT ![h] = s]
    BY <1>6, <2>4
  <2> QED BY <1>3, <2>3, <2>5, <2>6
<1> QED BY <1>1, <1>4, <1>5, <1>6 DEF ModelDecision

\* A user's command reaches the task only.
LEMMA UserCommandStep ==
  ASSUME CInv, NEW command, UserCommand(command)
  PROVE  CInv'
<1>1. /\ UNCHANGED <<run, saved, results, executed, asked, approvals, thread>>
      /\ task' \in TaskStatuses \ {"created"} /\ task \notin Terminal
  BY ApplyFacts DEF UserCommand
<1>2. task # "completed"
  BY <1>1 DEF Terminal
<1>3. CoordinatorTypeOK' /\ ThreadsOK' /\ StepsCounted' /\ StepLimit'
  BY <1>1 DEF CInv, CoordinatorTypeOK, ThreadsOK, StepsCounted, StepLimit, Deciding
<1>4. OneStarted' /\ CompletionOK'
  BY <1>1, <1>2 DEF CInv, OneStarted, StartedRuns, CompletionOK, CompletedTogether
<1>5. SavedGiven' /\ ExecutedOnce' /\ PlainExecuted' /\ PendingGated'
  BY <1>1 DEF CInv, SavedGiven, ExecutedOnce, PlainExecuted, PendingGated, ExecutionOK, Saved, Deciding
<1>6. ApprovalsCover' /\ CallsCounted'
  BY <1>1 DEF CInv, ApprovalsCover, CallsCounted, GatedExecutions, Granted, PlainExecutions, Invoking
<1> QED BY <1>3, <1>4, <1>5, <1>6 DEF CInv

-----------------------------------------------------------------------------
(***************************************************************************)
(* The invariant is inductive: one step per action.                        *)
(***************************************************************************)
LEMMA DriveStep ==
  ASSUME CInv, NEW h \in Threads, Drive(h)
  PROVE  CInv'
<1> USE DEF PCs, UnstartedPCs, DecidingPCs, CallPCs, SpecialPCs
<1>1. CASE StartTask(h)
  <2>1. CASE thread[h].pc = "accept" /\ ApplyCommand(h, "accept", "plan_started", "done")
    BY <1>1, <2>1, AcceptStep DEF StartTask
  <2>2. CASE thread[h].pc = "plan_started" /\ ApplyCommand(h, "plan_started", "run_started", "done")
    BY <1>1, <2>2, CommandStep DEF StartTask
  <2>3. CASE thread[h].pc = "run_started" /\ ApplyCommand(h, "run_started", "markRunning", "done")
    BY <1>1, <2>3, CommandStep DEF StartTask
  <2> QED BY <1>1, <2>1, <2>2, <2>3 DEF StartTask
<1>2. CASE MarkRunning(h)
  BY <1>2, MarkStep DEF MarkRunning, RunStatuses, AfterMarkPCs
<1>3. CASE MarkFailed(h)
  BY <1>3, MarkStep DEF MarkFailed, RunStatuses, AfterMarkPCs
<1>4. CASE FailTask(h)
  BY <1>4, CommandStep DEF FailTask
<1>5. CASE Loop(h)
  BY <1>5, QuietStores, OrdinaryMove DEF Loop
<1>6. CASE IncrementStep(h)
  BY <1>6, IncrementStepStep
<1>7. CASE ModelDecision(h)
  BY <1>7, ModelDecisionStep
<1>8. CASE Complete(h)
  BY <1>8, CommandStep DEF Complete
<1>9. CASE MarkCompleted(h)
  <2>1. task = "completed"
    BY <1>9 DEF MarkCompleted, CInv, CompletionOK
  <2> QED BY <1>9, <2>1, MarkStep DEF MarkCompleted, RunStatuses, AfterMarkPCs
<1>10. CASE AskClarification(h)
  BY <1>10, CommandStep DEF AskClarification
<1>11. CASE MarkWaitingInput(h)
  BY <1>11, MarkStep DEF MarkWaitingInput, RunStatuses, AfterMarkPCs
<1>12. CASE DispatchError(h)
  <2>1. CASE /\ thread[h].pc = "errorFail" /\ UNCHANGED run
             /\ ApplyCommand(h, "fail", "errorMarkFailed", "errorMarkFailed")
    BY <1>12, <2>1, CommandStep DEF DispatchError
  <2>2. CASE /\ thread[h].pc = "errorMarkFailed" /\ UNCHANGED task
             /\ Mark(h, "failed", "fail", "fail")
    BY <1>12, <2>2, MarkStep DEF DispatchError, RunStatuses, AfterMarkPCs
  <2> QED BY <1>12, <2>1, <2>2 DEF DispatchError
<1>13. CASE ToolCall(h)
  BY <1>13, ToolCallStep
<1>14. CASE ToolInvoke(h)
  BY <1>14, ToolInvokeStep
<1>15. CASE ToolFailed(h)
  <2>1. CASE /\ thread[h].pc = "toolMarkFailed" /\ UNCHANGED task
             /\ Mark(h, "failed", "toolFailTask", "fail")
    BY <1>15, <2>1, MarkStep DEF ToolFailed, RunStatuses, AfterMarkPCs
  <2>2. CASE /\ thread[h].pc = "toolFailTask" /\ UNCHANGED run
             /\ ApplyCommand(h, "fail", "fail", "fail")
    BY <1>15, <2>2, CommandStep DEF ToolFailed
  <2> QED BY <1>15, <2>1, <2>2 DEF ToolFailed
<1>16. CASE ApprovalRequired(h)
  <2>1. /\ asked' \subseteq asked \cup {thread[h].run} /\ thread[h].pc = "approvalRequired"
        /\ ApplyCommand(h, "approval_required", "markWaitingApproval", "fail")
        /\ UNCHANGED <<run, saved, results, executed, approvals>>
    BY <1>16 DEF ApprovalRequired
  <2> QED BY <2>1, CommandStep
<1>17. CASE MarkWaitingApproval(h)
  BY <1>17, MarkStep DEF MarkWaitingApproval, RunStatuses, AfterMarkPCs
<1>18. CASE ToolWaiting(h)
  BY <1>18, CommandStep DEF ToolWaiting, Deciding
<1>19. CASE ToolCompleted(h)
  BY <1>19, CommandStep DEF ToolCompleted, Deciding
<1>20. CASE ToolResult(h)
  <2>1. UNCHANGED stores /\ thread[h].pc = "result"
    BY <1>20 DEF ToolResult
  <2>2. ASSUME NEW pc \in {"complete", "ask", "errorFail", "fail"}, MoveTo(h, pc)
        PROVE  CInv'
    BY <2>1, <2>2, QuietStores, OrdinaryMove DEF Deciding
  <2>3. CASE NextCall(h)
    BY <2>1, <2>3, QuietStores, NextCallStep
  <2> QED BY <1>20, <2>2, <2>3 DEF ToolResult
<1>21. CASE ToolSaveResult(h)
  BY <1>21, ToolSaveResultStep
<1> QED
  <2>1. StartTask(h) \/ MarkRunning(h) \/ MarkFailed(h) \/ FailTask(h) \/ Loop(h)
        \/ IncrementStep(h) \/ ModelDecision(h) \/ Complete(h) \/ MarkCompleted(h)
        \/ AskClarification(h) \/ MarkWaitingInput(h) \/ DispatchError(h) \/ ToolCall(h)
        \/ ToolInvoke(h) \/ ToolFailed(h) \/ ApprovalRequired(h) \/ MarkWaitingApproval(h)
        \/ ToolWaiting(h) \/ ToolCompleted(h) \/ ToolResult(h) \/ ToolSaveResult(h)
    BY DEF Drive
  <2> QED BY <1>1, <1>2, <1>3, <1>4, <1>5, <1>6, <1>7, <1>8, <1>9, <1>10, <1>11, <1>12, <1>13,
             <1>14, <1>15, <1>16, <1>17, <1>18, <1>19, <1>20, <1>21, <2>1, Zenon

LEMMA ApproverStepStep ==
  ASSUME CInv, NEW a \in Approvers, ApproverStep(a)
  PROVE  CInv'
<1>0. a \in Threads
  BY DEF Threads
<1>1. CASE FindPending(a)
  BY <1>0, <1>1, FindPendingStep
<1>2. CASE ApprovedInvoke(a)
  BY <1>0, <1>2, ApprovedInvokeStep
<1>3. CASE ApprovedToolEvents(a)
  <2> USE DEF PCs, UnstartedPCs, DecidingPCs, CallPCs, SpecialPCs
  <2>1. CASE /\ thread[a].pc = "approvedToolWaiting"
             /\ ApplyCommand(a, "tool_waiting", "approvedToolCompleted", "done")
    BY <1>0, <1>3, <2>1, CommandStep DEF ApprovedToolEvents
  <2>2. CASE /\ thread[a].pc = "approvedToolCompleted"
             /\ ApplyCommand(a, "tool_completed", "markRunning", "done")
    BY <1>0, <1>3, <2>2, CommandStep DEF ApprovedToolEvents
  <2> QED BY <1>3, <2>1, <2>2 DEF ApprovedToolEvents
<1>4. CASE ApprovedSaveResult(a)
  BY <1>0, <1>4, ApprovedSaveResultStep
<1> QED BY <1>1, <1>2, <1>3, <1>4 DEF ApproverStep

LEMMA CoordinatorNextInv == CInv /\ [CoordinatorNext]_coordinatorVars => CInv'
<1> SUFFICES ASSUME CInv, [CoordinatorNext]_coordinatorVars PROVE CInv'
  OBVIOUS
<1>1. ASSUME NEW r \in Runs, Prepare(r) PROVE CInv'
  BY <1>1, PrepareStep
<1>2. ASSUME NEW h \in Threads, Drive(h) PROVE CInv'
  BY <1>2, DriveStep
<1>3. ASSUME NEW a \in Approvers, Approve(a) PROVE CInv'
  BY <1>3, ApproveStep
<1>4. ASSUME NEW a \in Approvers, ApproverStep(a) PROVE CInv'
  BY <1>4, ApproverStepStep
<1>5. ASSUME NEW command \in TaskCommands \ {"approve_action"}, UserCommand(command) PROVE CInv'
  BY <1>5, UserCommandStep
<1>6. ASSUME NEW h \in Threads, Stop(h) PROVE CInv'
  <2>1. OrdinaryStores /\ MoveTo(h, "done")
    BY <1>6, QuietStores DEF Stop
  <2> QED BY <2>1, OrdinaryMove DEF PCs, DecidingPCs, CallPCs, SpecialPCs
<1>7. CASE UNCHANGED coordinatorVars
  <2>1. UNCHANGED <<task, run, saved, results, executed, asked, approvals, thread>>
    BY <1>7 DEF coordinatorVars
  <2>2. CoordinatorTypeOK' /\ ThreadsOK' /\ StepsCounted' /\ StepLimit' /\ OneStarted' /\ CompletionOK'
    BY <2>1 DEF CInv, CoordinatorTypeOK, ThreadsOK, StepsCounted, StepLimit, Deciding,
                OneStarted, StartedRuns, CompletionOK, CompletedTogether
  <2>3. SavedGiven' /\ ExecutedOnce' /\ PlainExecuted' /\ PendingGated'
    BY <2>1 DEF CInv, SavedGiven, ExecutedOnce, PlainExecuted, PendingGated, ExecutionOK, Saved, Deciding
  <2>4. ApprovalsCover' /\ CallsCounted'
    BY <2>1 DEF CInv, ApprovalsCover, CallsCounted, GatedExecutions, Granted, PlainExecutions, Invoking
  <2> QED BY <2>2, <2>3, <2>4 DEF CInv
<1> QED BY <1>1, <1>2, <1>3, <1>4, <1>5, <1>6, <1>7 DEF CoordinatorNext

LEMMA CoordinatorInvariant == CoordinatorSpec => []CInv
BY CoordinatorInitInv, CoordinatorNextInv, PTL DEF CoordinatorSpec

-----------------------------------------------------------------------------
(***************************************************************************)
(* The stores of the coordinator keep their types, and its goroutines      *)
(* their locals, whatever runs, approvers and users do.                    *)
(***************************************************************************)
THEOREM CoordinatorTypeCorrect == CoordinatorSpec => []CoordinatorTypeOK
<1>1. CInv => CoordinatorTypeOK
  BY DEF CInv
<1> QED BY <1>1, CoordinatorInvariant, PTL

(***************************************************************************)
(* No step beyond the limit reaches the model or a tool, and no two        *)
(* goroutines ever work on the same step (coordinator.go loop and step).   *)
(***************************************************************************)
THEOREM StepLimitKept == CoordinatorSpec => []StepLimit
<1>1. CInv => StepLimit
  BY DEF CInv
<1> QED BY <1>1, CoordinatorInvariant, PTL

(***************************************************************************)
(* Only one run of a task ever gets past acceptance, however many are      *)
(* prepared (coordinator.go ExecutePreparedRun).                           *)
(***************************************************************************)
THEOREM OneRunAcceptedHolds == CoordinatorSpec => []OneRunAccepted
<1>1. CInv => OneRunAccepted
  <2> SUFFICES ASSUME CInv, NEW r \in Runs, NEW q \in Runs,
                      {run[r].status, run[q].status} \cap {"absent", "created"} = {}
               PROVE  r = q
    BY DEF OneRunAccepted
  <2>1. r \in StartedRuns /\ q \in StartedRuns
    BY DEF StartedRuns
  <2> QED BY <2>1 DEF CInv, OneStarted
<1> QED BY <1>1, CoordinatorInvariant, PTL

(***************************************************************************)
(* A run marked completed belongs to a completed task (coordinator.go      *)
(* dispatch).                                                              *)
(***************************************************************************)
THEOREM CompletedTogetherHolds == CoordinatorSpec => []CompletedTogether
<1>1. CInv => CompletedTogether
  BY DEF CInv, CompletionOK
<1> QED BY <1>1, CoordinatorInvariant, PTL

(***************************************************************************)
(* A call that needs no approval, and that the decision gave no key, is    *)
(* executed at most once, although its result may fail to be saved and     *)
(* several goroutines may drive its run (coordinator.go                    *)
(* toolCallIdempotencyKey, SaveCall).                                      *)
(***************************************************************************)
THEOREM ExecutedOnceHolds == CoordinatorSpec => []ExecutedOnce
<1>1. CInv => ExecutedOnce
  BY DEF CInv
<1> QED BY <1>1, CoordinatorInvariant, PTL

(***************************************************************************)
(* A tool whose policy asks for an approval is executed no more often than *)
(* somebody approved (coordinator.go dispatchToolCalls,                    *)
(* commands_tasks.go approveTaskAction).                                   *)
(***************************************************************************)
THEOREM GatedNeedsApprovalHolds == CoordinatorSpec => []GatedNeedsApproval
<1>1. ASSUME CInv PROVE GatedNeedsApproval
  <2>1. /\ Cardinality(GatedExecutions) + Cardinality(Granted) <= approvals
        /\ Cardinality(GatedExecutions) \in Nat /\ Cardinality(Granted) \in Nat
    BY <1>1, FS_CardinalityType DEF CInv, ApprovalsCover
  <2>2. approvals \in Nat
    BY <1>1 DEF CInv, CoordinatorTypeOK
  <2> QED BY <2>1, <2>2 DEF GatedNeedsApproval
<1> QED BY <1>1, CoordinatorInvariant, PTL

(***************************************************************************)
(* The calls a run makes on its own, approved ones apart, never exceed the *)
(* tool call limit (coordinator.go dispatchToolCalls).                     *)
(***************************************************************************)
THEOREM ToolCallLimitHolds == CoordinatorSpec => []ToolCallLimit
<1>1. ASSUME CInv PROVE ToolCallLimit
  <2> SUFFICES ASSUME MaxToolCalls > 0, NEW r \in Runs
               PROVE  Len(executed[r]) <= MaxToolCalls + approvals
    BY DEF ToolCallLimit
  <2>1. PICK n : n = Len(executed[r])
    OBVIOUS
  <2>2. PICK P : P = PlainExecutions(r)
    OBVIOUS
  <2>3. PICK G : G = DOMAIN executed[r] \ P
    OBVIOUS
  <2>4. n \in Nat /\ DOMAIN executed[r] = 1..n /\ approvals \in Nat
    <3>1. approvals \in Nat
      BY <1>1 DEF CInv, CoordinatorTypeOK
    <3> QED BY <1>1, <2>1, <3>1, TypeFacts DEF CInv
  <2>5. IsFiniteSet(1..n) /\ Cardinality(1..n) = n
    <3>1. /\ IsFiniteSet(1..n)
          /\ Cardinality(1..n) = IF 1 > n THEN 0 ELSE n - 1 + 1
      BY <2>4, FS_Interval
    <3> QED BY <2>4, <3>1
  <2>6. P \subseteq 1..n /\ G = (1..n) \ P /\ (1..n) \cap P = P
    BY <2>2, <2>3, <2>4 DEF PlainExecutions
  <2>7. /\ IsFiniteSet(P) /\ IsFiniteSet(G) /\ Cardinality(P) \in Nat /\ Cardinality(G) \in Nat
        /\ Cardinality(G) = n - Cardinality(P)
    <3>1. IsFiniteSet(P)
      BY <2>5, <2>6, FS_Subset
    <3>2. IsFiniteSet(G) /\ Cardinality(G) = n - Cardinality(P)
      <4>1. /\ IsFiniteSet((1..n) \ P)
            /\ Cardinality((1..n) \ P) = Cardinality(1..n) - Cardinality((1..n) \cap P)
        BY <2>5, FS_Difference
      <4> QED BY <2>5, <2>6, <4>1
    <3> QED BY <3>1, <3>2, FS_CardinalityType
  <2>8. Cardinality(P) <= MaxToolCalls
    <3>1. /\ IsFiniteSet(Invoking(r)) /\ Cardinality(Invoking(r)) \in Nat
          /\ Cardinality(P) + Cardinality(Invoking(r)) <= MaxToolCalls
      BY <1>1, <2>2, FS_CardinalityType DEF CInv, CallsCounted
    <3> QED BY <2>7, <3>1, CoordinatorAssumption
  <2>9. Cardinality(G) <= Cardinality(GatedExecutions) /\ Cardinality(GatedExecutions) \in Nat
    <3>1. PICK f : f = [i \in G |-> <<r, i>>]
      OBVIOUS
    <3>2. \A i \in G : <<r, i>> \in GatedExecutions
      BY <2>2, <2>3 DEF PlainExecutions, GatedExecutions
    <3>3. f \in Injection(G, GatedExecutions)
      BY <3>1, <3>2 DEF Injection, IsInjective
    <3>4. IsFiniteSet(GatedExecutions)
      BY <1>1 DEF CInv, ApprovalsCover
    <3> QED BY <3>3, <3>4, FS_Injection, FS_CardinalityType
  <2>10. Cardinality(GatedExecutions) <= approvals
    <3>1. /\ Cardinality(GatedExecutions) + Cardinality(Granted) <= approvals
          /\ Cardinality(Granted) \in Nat
      BY <1>1, FS_CardinalityType DEF CInv, ApprovalsCover
    <3> QED BY <2>4, <2>9, <3>1
  <2> QED BY <2>1, <2>4, <2>7, <2>8, <2>9, <2>10, CoordinatorAssumption
<1> QED BY <1>1, CoordinatorInvariant, PTL
=============================================================================
