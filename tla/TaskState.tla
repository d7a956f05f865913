------------------------------ MODULE TaskState ------------------------------
(***************************************************************************)
(* The task state machine of internal/task/state/machine.go, and the       *)
(* reading of an event type back into a status that                        *)
(* internal/task/recovery/checker.go does.  Pure definitions: the modules  *)
(* that keep tasks extend this one.                                        *)
(***************************************************************************)

TaskStatuses ==
  {"created", "accepted", "planning", "running", "waiting_input",
   "waiting_approval", "waiting_tool", "paused", "blocked",
   "completed", "failed", "cancelled", "rejected"}

\* IsTerminal: "rejected" is listed by the code although no transition reaches it.
Terminal == {"completed", "failed", "cancelled", "rejected"}

\* The rows of the table: the statuses a command joins, the event type the
\* update writes and whether the caller must log an audit record.
Row(from, command, to, event, audit) ==
  [from |-> from, command |-> command, to |-> to, event |-> event, audit |-> audit]

Table ==
  { Row("created",          "accept",            "accepted",         "task.accepted",          FALSE),
    Row("accepted",         "plan_started",      "planning",         "task.plan_started",      FALSE),
    Row("planning",         "run_started",       "running",          "task.run_started",       FALSE),
    Row("running",          "ask_clarification", "waiting_input",    "task.waiting_input",     FALSE),
    Row("waiting_input",    "provide_input",     "running",          "task.input_provided",    FALSE),
    Row("running",          "approval_required", "waiting_approval", "task.approval_required", TRUE),
    Row("waiting_approval", "approve_action",    "running",          "task.approved",          TRUE),
    Row("waiting_approval", "reject_action",     "blocked",          "task.approval_rejected", TRUE),
    Row("running",          "tool_waiting",      "waiting_tool",     "task.tool_waiting",      FALSE),
    Row("waiting_tool",     "tool_completed",    "running",          "task.tool_completed",    FALSE),
    Row("running",          "pause",             "paused",           "task.paused",            TRUE),
    Row("paused",           "resume",            "running",          "task.resumed",           TRUE),
    Row("running",          "complete",          "completed",        "task.completed",         FALSE),
    Row("running",          "fail",              "failed",           "task.failed",            FALSE) }

\* cancel is not a row: it is accepted from every status that is not terminal.
CancelRows ==
  { Row(s, "cancel", "cancelled", "task.cancelled", TRUE) : s \in TaskStatuses \ Terminal }

Transitions == Table \cup CancelRows

TaskCommands == { r.command : r \in Transitions }

\* state.Apply: the row for a status and a command (at most one), none when
\* the command is refused.
Apply(status, command) ==
  { r \in Transitions : r.from = status /\ r.command = command }

CreatedEvent == "task.created"

\* statusFromEvent: the checker's own list of the event types it reads a status
\* from, kept apart from the table as in the code.  Every other type (plan,
\* handoff, input and upgrade events) it passes over.
StatusEventTypes ==
  {CreatedEvent, "task.accepted", "task.plan_started", "task.run_started",
   "task.waiting_input", "task.input_provided", "task.approval_required",
   "task.approved", "task.approval_rejected", "task.tool_waiting",
   "task.tool_completed", "task.paused", "task.resumed", "task.completed",
   "task.failed", "task.cancelled"}

StatusFromEvent ==
  [ e \in StatusEventTypes |->
      CASE e = "task.created"           -> "created"
        [] e = "task.accepted"          -> "accepted"
        [] e = "task.plan_started"      -> "planning"
        [] e = "task.waiting_input"     -> "waiting_input"
        [] e = "task.approval_required" -> "waiting_approval"
        [] e = "task.approval_rejected" -> "blocked"
        [] e = "task.tool_waiting"      -> "waiting_tool"
        [] e = "task.paused"            -> "paused"
        [] e = "task.completed"         -> "completed"
        [] e = "task.failed"            -> "failed"
        [] e = "task.cancelled"         -> "cancelled"
        [] OTHER                        -> "running" ]
=============================================================================
