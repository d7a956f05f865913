------------------------------ MODULE Handoff ------------------------------
(***************************************************************************)
(* Handing work of one agent to another: the delegate tool                  *)
(* (internal/tool/handoff/executor.go), the handoff commands of the API     *)
(* (internal/server/commands_tasks.go), the handoff service                 *)
(* (internal/task/handoff/service.go) with its policy and context package,  *)
(* and the tool an agent exports (internal/tool/agenttool/handler.go) with  *)
(* its delegation records.                                                  *)
(*                                                                          *)
(* A worker is a goroutine inside one tool call or one command.  Checks,    *)
(* store calls and the run of the child task are separate steps; the run of *)
(* a child is started inside the call that delegates and is waited for.     *)
(***************************************************************************)
EXTENDS Naturals, FiniteSetsExt

CONSTANTS
  Agents,       \* agents of the tenant
  Tasks,        \* task ids (bound, model checking only)
  Handoffs,     \* handoff ids (bound, model checking only)
  Workers,      \* calls and commands in progress at the same time (bound)
  NoOne,        \* no task, no handoff, no agent
  Roots,        \* Roots: tasks that run from the start
  RootAgent,    \* RootAgent: the agent of the root tasks
  Collaborators,\* pairs <<a, b>>: b is an enabled collaborator of a
  MaxDepth,     \* runtime.max_handoff_depth, 0 = no limit
  MaxChildren,  \* runtime.max_child_tasks, 0 = no limit
  Requests,     \* what is asked for: a mode and features of the request
  Grants,       \* what the handoff policy allows and asks for
  MaxCommands,  \* API commands (bound, model checking only)
  MaxHandoffFailures  \* store calls that fail (bound, model checking only)

ASSUME HandoffAssumption ==
  /\ NoOne \notin Agents \cup Tasks \cup Handoffs /\ IsFiniteSet(Tasks)
  /\ Roots \subseteq Tasks /\ RootAgent \in Agents
  /\ Collaborators \subseteq Agents \X Agents
  /\ MaxDepth \in Nat /\ MaxChildren \in Nat /\ MaxCommands \in Nat /\ MaxHandoffFailures \in Nat
  /\ Grants \subseteq {"full_context", "artifact_read", "memory_read",
                       "approve_artifacts", "approve_cross_agent"}
  /\ Requests \subseteq
       [mode : {"full_context", "summary_only", "reference_only", "hybrid"},
        features : SUBSET {"mismatch", "cross_tenant", "artifacts", "memory", "none_fits"}]

VARIABLES
  atomicStore,\* the repository is an AtomicRepository (postgres), or the in-memory one
  task,       \* task[t]: agent, parent and status of a task
  handoff,    \* handoff[h]: the agent_handoffs row and its context package
  delegation, \* delegation[t]: the agent_delegations row of the tool call that task t
              \* has in progress
  worker,     \* worker[w]: where the call or command is, and its locals
  commands,   \* API commands received so far
  hFailures,
  origin      \* history: how a task came about

handoffVars == <<atomicStore, task, handoff, delegation, worker, commands, hFailures, origin>>

Ended == {"completed", "failed", "waiting"}
Final == Ended \cup {"cancelled"}

NoTask    == [agent |-> NoOne, parent |-> NoOne, status |-> "absent"]
NoHandoff == [status |-> "absent", parent |-> NoOne, child |-> NoOne, pkg |-> {}]
Free      == [pc |-> "idle", run |-> NoOne, tool |-> FALSE, parent |-> NoOne, to |-> NoOne, h |-> NoOne,
              row |-> NoHandoff]

HandoffInit ==
  /\ atomicStore \in BOOLEAN
  /\ task = [t \in Tasks |-> IF t \in Roots
                               THEN [NoTask EXCEPT !.agent = RootAgent, !.status = "running"]
                               ELSE NoTask]
  /\ handoff    = [h \in Handoffs |-> NoHandoff]
  /\ delegation = [t \in Tasks |-> "none"]
  /\ worker     = [w \in Workers |-> Free]
  /\ commands   = 0
  /\ hFailures  = 0
  /\ origin     = [t \in Tasks |-> IF t \in Roots THEN "root" ELSE "none"]

-----------------------------------------------------------------------------
(* Rules.                                                                  *)

\* The task and the tasks it was handed down from, by parent_task_id: the least set with
\* the task in it that has the parent of each of its members.
HasParents(S) == \A v \in S : task[v].parent \in S \cup {NoOne}
Chain(t)      == {u \in Tasks : \A S \in SUBSET Tasks : t \in S /\ HasParents(S) => u \in S}

\* Mutant: only the delegating task's own agent is compared.
ChainOfOne(parent, to) ==
  /\ task[parent].agent # to
  /\ MaxDepth > 0 => Cardinality(Chain(parent)) <= MaxDepth

\* No task of the chain belongs to the target; Cardinality(Chain) - 1 is the depth of
\* the delegating task.
validateHandoffChain(parent, to) ==
  /\ \A u \in Chain(parent) : task[u].agent # to
  /\ MaxDepth > 0 => Cardinality(Chain(parent)) <= MaxDepth

Children(t) == {u \in Tasks : task[u].parent = t}

\* The child about to be created counts.
validateChildTaskLimit(parent) ==
  MaxChildren > 0 => Cardinality(Children(parent)) + 1 <= MaxChildren

\* The handoff policy's decision on a request.
EvaluateRequest(from, to, r) ==
  IF \/ {"mismatch", "cross_tenant"} \cap r.features # {}
     \/ r.mode = "full_context" /\ "full_context" \notin Grants
     \/ "artifacts" \in r.features /\ "artifact_read" \notin Grants
     \/ "memory" \in r.features /\ "memory_read" \notin Grants
  THEN "denied"
  ELSE IF \/ "artifacts" \in r.features /\ "approve_artifacts" \in Grants
          \/ from # to /\ "approve_cross_agent" \in Grants
  THEN "approval_required"
  ELSE "allowed"

\* What the context package carries in a mode.
packageScope(r) ==
  LET grant == [artifacts |-> "artifact_read", memory |-> "memory_read"]
      refs  == {x \in r.features \cap {"artifacts", "memory"} : grant[x] \in Grants}
  IN  CASE r.mode = "summary_only"   -> {"summary"}
        [] r.mode = "reference_only" -> refs
        [] OTHER                   -> {"summary"} \cup refs

\* Over the token budget the summary is cut and those artifacts are kept that fit in what
\* it leaves.  "artifacts" stands for one or more of them, so that it is gone only when the
\* request is such that none fits.
enforceTokenBudget(content, r) ==
  IF "none_fits" \in r.features THEN content \ {"artifacts"} ELSE content

\* The transitions the commands ask for.
validateTransition(current, next) ==
  \/ current = next
  \/ next \in {"accepted", "rejected"} /\ current = "created"
  \/ next = "failed" /\ current \notin {"completed", "rejected"}

\* The row of a new handoff; with a child the handoff is running at once.
NewHandoff(parent, decision, child, pkg) ==
  [status |-> IF decision = "allowed" THEN "running" ELSE "created",
   parent |-> parent, child |-> child, pkg |-> pkg]

-----------------------------------------------------------------------------
(* The stores.  A call fails while the budget of failures lasts.           *)

\* Ids are random and never used twice; which of the unused ones is taken makes no
\* difference.  Nothing is created when the bound is reached.
NewTaskID    == CHOOSE t \in Tasks : task[t].status = "absent"
NewHandoffID == CHOOSE h \in Handoffs :
                  handoff[h].status = "absent" /\ \A w \in Workers : worker[w].h # h
IdsLeft ==
  /\ \E t \in Tasks : task[t].status = "absent"
  /\ \E h \in Handoffs : handoff[h].status = "absent" /\ \A w \in Workers : worker[w].h # h

StoreOK    == UNCHANGED hFailures
StoreFails == hFailures < MaxHandoffFailures /\ hFailures' = hFailures + 1

CreateTask(t, agent, parent, how) ==
  /\ task[t].status = "absent"
  /\ task' = [task EXCEPT ![t] = [agent |-> agent, parent |-> parent, status |-> "created"]]
  /\ origin' = [origin EXCEPT ![t] = how]

Save(h, row)   == handoff[h].status = "absent" /\ handoff' = [handoff EXCEPT ![h] = row]
Update(h, row) == handoff' = [handoff EXCEPT ![h] = row]

\* One transaction: package, handoff, child task and events.
CreateWithChild(h, row, agent, how) ==
  /\ Save(h, row)
  /\ IF row.child = NoOne THEN UNCHANGED <<task, origin>>
                          ELSE CreateTask(row.child, agent, row.parent, how)

Upsert(t, status) == delegation' = [delegation EXCEPT ![t] = status]

-----------------------------------------------------------------------------
(* Handing over.                                                           *)

At(w, pc)   == worker[w].pc = pc
Goto(w, pc) == worker' = [worker EXCEPT ![w].pc = pc]
Return(w)   == worker' = [worker EXCEPT ![w] = Free]

Command(w)  == At(w, "idle") /\ commands < MaxCommands /\ commands' = commands + 1
How(w)      == IF worker[w].tool THEN "delegate" ELSE "command"

\* A task's run makes one tool call at a time.
CanCall(t) == task[t].status = "running" /\ \A w \in Workers : worker[w].run # t

collaboratorFor(source, to) == <<task[source].agent, to>> \in Collaborators

\* The delegate tool up to the call of the handoff service, for the run of task t or, with
\* t = NoOne, for the API.  The parent is the caller's own task or the one the arguments
\* name.  Refusals change nothing.
Delegate(w, t, parent, to) ==
  /\ task[parent].status # "absent"
  /\ collaboratorFor(parent, to)
  /\ validateChildTaskLimit(parent)
  /\ validateHandoffChain(parent, to)
  /\ worker' = [worker EXCEPT ![w] =
       [Free EXCEPT !.pc = "create", !.run = t, !.tool = TRUE, !.parent = parent, !.to = to]]
  /\ UNCHANGED <<task, handoff, delegation, hFailures, origin>>

CallDelegate(w, t, parent, to) ==
  /\ At(w, "idle") /\ CanCall(t)
  /\ Delegate(w, t, parent, to)
  /\ UNCHANGED commands

\* The API runs the same tool, outside any run.
delegateAgent(w, parent, to) == Command(w) /\ Delegate(w, NoOne, parent, to)

\* The create_handoff command up to the same call: no collaborators, limits or chain.
CommandCreate(w, parent, to) ==
  /\ Command(w)
  /\ task[parent].status # "absent"
  /\ worker' = [worker EXCEPT ![w] =
                  [Free EXCEPT !.pc = "create", !.parent = parent, !.to = to]]
  /\ UNCHANGED <<task, handoff, delegation, hFailures, origin>>

\* Create with a postgres repository: the policy, the package, one transaction.
CreateAtomically(w, r) ==
  LET decision == EvaluateRequest(task[worker[w].parent].agent, worker[w].to, r)
      row      == NewHandoff(worker[w].parent, decision,
                             IF decision = "allowed" THEN NewTaskID ELSE NoOne,
                             enforceTokenBudget(packageScope(r), r))
      h        == NewHandoffID
  IN  /\ At(w, "create") /\ atomicStore /\ IdsLeft
      /\ UNCHANGED <<delegation, commands>>
      /\ \/ /\ decision = "denied" \/ StoreFails
            /\ Return(w)
            /\ decision = "denied" => StoreOK
            /\ UNCHANGED <<task, handoff, origin>>
         \/ /\ decision # "denied"
            /\ CreateWithChild(h, row, worker[w].to, How(w))
            /\ StoreOK
            /\ IF row.child # NoOne /\ worker[w].tool
                 THEN worker' = [worker EXCEPT ![w].pc = "start", ![w].h = h, ![w].row = row]
                 ELSE Return(w)

\* Create with a repository that has no transactions starts with the child task.
CreateChild(w, r) ==
  LET decision == EvaluateRequest(task[worker[w].parent].agent, worker[w].to, r)
      row      == NewHandoff(worker[w].parent, decision,
                             IF decision = "allowed" THEN NewTaskID ELSE NoOne,
                             enforceTokenBudget(packageScope(r), r))
      h        == NewHandoffID
  IN  /\ At(w, "create") /\ ~atomicStore /\ IdsLeft
      /\ UNCHANGED <<handoff, delegation, commands>>
      /\ \/ /\ decision = "denied" \/ (decision = "allowed" /\ StoreFails)
            /\ Return(w)
            /\ decision = "denied" => StoreOK
            /\ UNCHANGED <<task, origin>>
         \/ /\ decision # "denied"
            /\ IF row.child = NoOne THEN UNCHANGED <<task, origin>>
                                    ELSE CreateTask(row.child, worker[w].to, worker[w].parent, How(w))
            /\ StoreOK
            /\ worker' = [worker EXCEPT ![w].pc = "save", ![w].h = h, ![w].row = row]

\* ... then the handoff row; if it fails the child is cancelled.
SaveHandoff(w) ==
  /\ At(w, "save")
  /\ \/ Save(worker[w].h, worker[w].row) /\ StoreOK /\ Goto(w, "append")
     \/ StoreFails /\ UNCHANGED handoff
        /\ worker' = [worker EXCEPT ![w].pc = "undo", ![w].h = NoOne]
  /\ UNCHANGED <<task, delegation, commands, origin>>

\* ... then the package and the parent's event; if one fails both are undone.
AppendEvent(w) ==
  /\ At(w, "append")
  /\ \/ StoreFails /\ Goto(w, "undo")
     \/ /\ StoreOK
        /\ IF worker[w].row.child # NoOne /\ worker[w].tool
             THEN Goto(w, "start") ELSE Return(w)
  /\ UNCHANGED <<task, handoff, delegation, commands, origin>>

\* Mutant: the child task is left as it is.
KeepCreatedChild(w) ==
  /\ At(w, "undo")
  /\ IF worker[w].h = NoOne THEN Return(w) ELSE Goto(w, "undo_handoff")
  /\ UNCHANGED <<task, handoff, delegation, commands, hFailures, origin>>

\* Best effort: its own failure is ignored.
cancelCreatedChild(w) ==
  /\ At(w, "undo")
  /\ LET child == worker[w].row.child
     IN  \/ /\ child # NoOne /\ StoreOK
            /\ task' = [task EXCEPT ![child].status =
                          IF @ \in {"completed", "failed"} THEN @ ELSE "cancelled"]
         \/ child = NoOne /\ StoreOK /\ UNCHANGED task
         \/ child # NoOne /\ StoreFails /\ UNCHANGED task
  /\ IF worker[w].h = NoOne THEN Return(w) ELSE Goto(w, "undo_handoff")
  /\ UNCHANGED <<handoff, delegation, commands, origin>>

failCreatedChild(w) ==
  /\ At(w, "undo_handoff")
  /\ \/ Update(worker[w].h, [worker[w].row EXCEPT !.status = "failed"]) /\ StoreOK
     \/ UNCHANGED handoff /\ StoreFails
  /\ Return(w)
  /\ UNCHANGED <<task, delegation, commands, origin>>

\* The delegate tool starts the run of the child task and waits for it.
StartTaskRun(w) ==
  /\ At(w, "start")
  /\ LET child == worker[w].row.child
     IN  IF task[child].status = "created"
           THEN task' = [task EXCEPT ![child].status = "running"] /\ Goto(w, "wait")
           ELSE UNCHANGED task /\ Return(w)
  /\ UNCHANGED <<handoff, delegation, commands, hFailures, origin>>

\* The run of task t ends; a run is over when its last call has returned.
EndRun(t, status) ==
  /\ task[t].status = "running" /\ \A w \in Workers : worker[w].run # t
  /\ task' = [task EXCEPT ![t].status = status]
  /\ UNCHANGED <<handoff, delegation, worker, commands, hFailures, origin>>

\* Mutant: the handoff is completed however the run ended.
CompleteHoweverEnded(w) ==
  /\ At(w, "wait") /\ task[worker[w].row.child].status \in Final
  /\ Goto(w, "complete")
  /\ UNCHANGED <<task, handoff, delegation, commands, hFailures, origin>>

\* The delegate tool after the run of the child: only a completed run completes the
\* handoff; after any other the handoff stays running.
AfterTaskRun(w) ==
  /\ At(w, "wait") /\ task[worker[w].row.child].status \in Final
  /\ IF task[worker[w].row.child].status = "completed" THEN Goto(w, "complete") ELSE Return(w)
  /\ UNCHANGED <<task, handoff, delegation, commands, hFailures, origin>>

\* The service's Complete reads the row ...
CompleteRead(w) ==
  /\ At(w, "complete")
  /\ worker' = [worker EXCEPT ![w].pc = "write",
                  ![w].row = [handoff[worker[w].h] EXCEPT !.status = "completed"]]
  /\ UNCHANGED <<task, handoff, delegation, commands, hFailures, origin>>

\* ... and writes it back whole, as Transition does.  Event, audit, trace and sync are
\* best effort and change no row.
WriteBack(w) ==
  /\ At(w, "write")
  /\ \/ Update(worker[w].h, worker[w].row) /\ StoreOK
     \/ UNCHANGED handoff /\ StoreFails
  /\ Return(w)
  /\ UNCHANGED <<task, delegation, commands, origin>>

\* The complete_handoff command: no transition is checked.
CommandComplete(w, h) ==
  /\ Command(w) /\ handoff[h].status # "absent"
  /\ worker' = [worker EXCEPT ![w] = [Free EXCEPT !.pc = "complete", !.h = h]]
  /\ UNCHANGED <<task, handoff, delegation, hFailures, origin>>

\* The accept, reject and fail commands: read and check now, write later.  Accepting
\* creates no child task.
Transition(w, h, next) ==
  /\ Command(w) /\ handoff[h].status # "absent"
  /\ validateTransition(handoff[h].status, next)
  /\ worker' = [worker EXCEPT ![w] =
       [Free EXCEPT !.pc = "write", !.h = h, !.row = [handoff[h] EXCEPT !.status = next]]]
  /\ UNCHANGED <<task, handoff, delegation, hFailures, origin>>

-----------------------------------------------------------------------------
(* The tool an agent exports.                                              *)

\* The call is recorded and the provider's run started, on a task without a parent: no
\* chain is walked.  A failed write of the record is ignored.
InvokeAgentTool(w, t, provider) ==
  /\ At(w, "idle") /\ CanCall(t) /\ \E u \in Tasks : task[u].status = "absent"
  /\ \/ Upsert(t, "invoked") /\ StoreOK
     \/ UNCHANGED delegation /\ StoreFails
  /\ task' = [task EXCEPT ![NewTaskID] =
                [agent |-> provider, parent |-> NoOne, status |-> "running"]]
  /\ origin' = [origin EXCEPT ![NewTaskID] = "agent_tool"]
  /\ worker' = [worker EXCEPT ![w] = [Free EXCEPT !.pc = "provider", !.run = t, !.to = provider,
                                        !.row = [NoHandoff EXCEPT !.child = NewTaskID]]]
  /\ UNCHANGED <<handoff, commands>>

\* The record is closed: failed with the run's error, completed otherwise (also when
\* the run waits for an answer).
AgentToolReturns(w) ==
  /\ At(w, "provider") /\ task[worker[w].row.child].status \in Final
  /\ \/ /\ Upsert(worker[w].run, IF task[worker[w].row.child].status = "failed"
                                   THEN "failed" ELSE "completed")
        /\ StoreOK
     \/ UNCHANGED delegation /\ StoreFails
  /\ Return(w)
  /\ UNCHANGED <<task, handoff, commands, origin>>

-----------------------------------------------------------------------------
WorkerStep(w) ==
  \/ \E r \in Requests : CreateAtomically(w, r) \/ CreateChild(w, r)
  \/ SaveHandoff(w) \/ AppendEvent(w) \/ cancelCreatedChild(w) \/ failCreatedChild(w)
  \/ StartTaskRun(w) \/ AfterTaskRun(w) \/ CompleteRead(w) \/ WriteBack(w)
  \/ AgentToolReturns(w)

HandoffNext ==
  /\ UNCHANGED atomicStore
  /\ \/ \E w \in Workers : WorkerStep(w)
     \/ \E w \in Workers, t \in Tasks, parent \in Tasks, to \in Agents :
          CallDelegate(w, t, parent, to)
     \/ \E w \in Workers, parent \in Tasks, to \in Agents :
          CommandCreate(w, parent, to) \/ delegateAgent(w, parent, to)
     \/ \E w \in Workers, h \in Handoffs : CommandComplete(w, h)
     \/ \E w \in Workers, h \in Handoffs, next \in {"accepted", "rejected", "failed"} :
          Transition(w, h, next)
     \/ \E w \in Workers, t \in Tasks, provider \in Agents : InvokeAgentTool(w, t, provider)
     \/ \E t \in Tasks, status \in Ended : EndRun(t, status)

HandoffSpec == HandoffInit /\ [][HandoffNext]_handoffVars

-----------------------------------------------------------------------------
(* Properties.                                                             *)

TaskRows ==
  [agent : Agents \cup {NoOne}, parent : Tasks \cup {NoOne},
   status : Final \cup {"absent", "created", "running"}]
HandoffRows ==
  [status : {"absent", "created", "accepted", "rejected", "running", "completed", "failed"},
   parent : Tasks \cup {NoOne}, child : Tasks \cup {NoOne},
   pkg : SUBSET {"summary", "artifacts", "memory"}]
WorkerPCs ==
  {"idle", "create", "save", "append", "undo", "undo_handoff", "start", "wait", "complete",
   "write", "provider"}
WorkerStates ==
  [pc : WorkerPCs, run : Tasks \cup {NoOne}, tool : BOOLEAN, parent : Tasks \cup {NoOne},
   to : Agents \cup {NoOne}, h : Handoffs \cup {NoOne}, row : HandoffRows]

\* Rows and the locals of a call have their types.
HandoffTypeOK ==
  /\ task \in [Tasks -> TaskRows] /\ handoff \in [Handoffs -> HandoffRows]
  /\ delegation \in [Tasks -> {"none", "invoked", "completed", "failed"}]
  /\ worker \in [Workers -> WorkerStates]
  /\ hFailures \in 0..MaxHandoffFailures
  /\ origin \in [Tasks -> {"none", "root", "delegate", "command", "agent_tool"}]

\* A task the delegate tool has created belongs to an agent none of the tasks it was
\* handed down from belongs to, and is no deeper than max_handoff_depth: the checks run
\* before the task is created, while other calls create tasks.
NoDelegationCycle ==
  \A t \in Tasks : origin[t] = "delegate" =>
    /\ \A u \in Chain(t) \ {t} : task[u].agent # task[t].agent
    /\ MaxDepth > 0 => Cardinality(Chain(t)) - 1 <= MaxDepth

\* A child task that may still run has a handoff that names it, unless its creation is
\* still in progress: when a step of Create fails, the child is cancelled.  Undoing is
\* best effort, so this is for one failure only.
NoOrphanChild ==
  hFailures <= 1 =>
    \A t \in Tasks :
      origin[t] \in {"delegate", "command"} /\ task[t].status # "cancelled" =>
        \/ \E h \in Handoffs : handoff[h].child = t
        \/ \E w \in Workers : worker[w].row.child = t

\* A handoff becomes completed when the run of its child has completed, or because a
\* complete_handoff command says so.
CompletedByRunOrCommand ==
  [][\A h \in Handoffs :
       handoff'[h].status = "completed" /\ handoff[h].status # "completed" =>
         \/ handoff[h].child # NoOne /\ task[handoff[h].child].status = "completed"
         \/ \E w \in Workers : At(w, "write") /\ worker[w].h = h /\ ~worker[w].tool
    ]_handoffVars

\* A rejected handoff has no child task, although a transition writes back a row it read
\* earlier without comparing versions.
RejectedHasNoChild == \A h \in Handoffs : handoff[h].status = "rejected" => handoff[h].child = NoOne

\* Artifacts the policy wants approved first reach no child task.
SensitiveNeedsApproval ==
  "approve_artifacts" \in Grants =>
    \A h \in Handoffs : "artifacts" \in handoff[h].pkg => handoff[h].child = NoOne

\* Without failures of the store, a delegation record is open only while the call that
\* opened it is in progress.
DelegationClosed ==
  hFailures = 0 =>
    \A t \in Tasks : delegation[t] = "invoked" => \E w \in Workers : worker[w].run = t

\* Children and delegation records are accounted for: no child runs that no handoff names,
\* none was let through that was rejected or still needs approval, and no record stays
\* open (Create, transition, delegateExecutor).
HandoffsAccounted ==
  NoOrphanChild /\ RejectedHasNoChild /\ SensitiveNeedsApproval /\ DelegationClosed

=============================================================================
