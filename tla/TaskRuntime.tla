----------------------------- MODULE TaskRuntime -----------------------------
(***************************************************************************)
(* internal/task/runtime (Service) over internal/task/repository and the   *)
(* Postgres TaskStore: tasks with an optimistic version, the append-only   *)
(* task event log, the audit log, and the concurrent callers that read a   *)
(* task, decide, and write it back.                                        *)
(*                                                                         *)
(* A caller's ApplyCommand is two steps, because the store is unlocked     *)
(* between them: Get (read the task, state.Apply, read the clock) and      *)
(* Commit (one transaction that compares the version, writes the task and  *)
(* appends the event).  A third step logs the audit record.  Any caller    *)
(* may stop between two steps (cancelled request, storage or audit error,  *)
(* crash): Abandon.                                                        *)
(*                                                                         *)
(* events[t] is the set of t's events.  Both stores list it sorted by      *)
(* (created_at, event_id), so the list is a function of the set; two reads *)
(* of the clock are assumed to differ, so event_id never decides.          *)
(***************************************************************************)
EXTENDS TaskState, Naturals

CONSTANTS Tasks, Clients,
          MaxClock      \* bound on clock readings (model checking only)

ASSUME MaxClockAssumption == MaxClock \in Nat

VARIABLES
  tasks,    \* tasks[t]: the stored row, status "absent" before CreateTask
  events,   \* events[t]: the task_events of t
  clock,    \* the next reading of time.Now
  client,   \* client[c]: what caller c holds between its steps
  audits    \* audit records written by recordTransitionAudit

vars == <<tasks, events, clock, client, audits>>

Absent == "absent"

UpgradedEvent == "task.agent_version_upgraded"
NoteEvent     == "note"      \* plan, handoff and input events: no status

\* upgrade_agent_version writes the status it read and an event without one.
UpgradeRow(status) ==
  Row(status, "upgrade_agent_version", status, UpgradedEvent, FALSE)

\* AppendEvent changes no task: only the event it adds matters.
NoteRow == Row(Absent, "append", Absent, NoteEvent, FALSE)

Rows == Transitions \cup { UpgradeRow(s) : s \in TaskStatuses } \cup {NoteRow}

Event(type, from, at) == [type |-> type, from |-> from, at |-> at]

Idle == [pc |-> "idle"]

Holding(pc, t, row, version, at) ==
  [pc |-> pc, task |-> t, row |-> row, version |-> version, at |-> at]

-----------------------------------------------------------------------------
Init ==
  /\ tasks  = [t \in Tasks |-> [status |-> Absent, version |-> 0]]
  /\ events = [t \in Tasks |-> {}]
  /\ clock  = 0
  /\ client = [c \in Clients |-> Idle]
  /\ audits = {}

Tick == clock < MaxClock /\ clock' = clock + 1

\* CreateTask: the task and its task.created event in one transaction.  A
\* second create of the same id is refused and changes nothing.
CreateTask(t) ==
  /\ tasks[t].status = Absent
  /\ Tick
  /\ tasks'  = [tasks EXCEPT ![t] = [status |-> "created", version |-> 0]]
  /\ events' = [events EXCEPT ![t] = @ \cup {Event(CreatedEvent, Absent, clock)}]
  /\ UNCHANGED <<client, audits>>

\* The first half of ApplyCommand: Get, state.Apply, now.  A command the table
\* refuses returns an error here and changes nothing.
Get(c, t, command) ==
  /\ client[c].pc = "idle"
  /\ Tick
  /\ \E r \in Apply(tasks[t].status, command) :
       client' = [client EXCEPT ![c] = Holding("commit", t, r, tasks[t].version, clock)]
  /\ UNCHANGED <<tasks, events, audits>>

\* upgradeTaskAgentVersion: the task read by task.command, in any status.
GetForUpgrade(c, t) ==
  /\ client[c].pc = "idle"
  /\ tasks[t].status # Absent
  /\ Tick
  /\ client' = [client EXCEPT ![c] =
                  Holding("commit", t, UpgradeRow(tasks[t].status), tasks[t].version, clock)]
  /\ UNCHANGED <<tasks, events, audits>>

\* Mutant: the version is not compared.
CommitUnversioned(c) ==
  LET h == client[c] IN
  /\ h.pc = "commit"
  /\ tasks'  = [tasks EXCEPT ![h.task] = [status |-> h.row.to, version |-> h.version + 1]]
  /\ events' = [events EXCEPT ![h.task] = @ \cup {Event(h.row.event, h.row.from, h.at)}]
  /\ client' = [client EXCEPT ![c] = IF h.row.audit THEN [h EXCEPT !.pc = "audit"] ELSE Idle]
  /\ UNCHANGED <<clock, audits>>

\* Mutant: the event is not part of the transaction that writes the task.
CommitWithoutEvent(c) ==
  LET h == client[c] IN
  /\ h.pc = "commit"
  /\ tasks[h.task].version = h.version
  /\ tasks'  = [tasks EXCEPT ![h.task] = [status |-> h.row.to, version |-> h.version + 1]]
  /\ client' = [client EXCEPT ![c] = IF h.row.audit THEN [h EXCEPT !.pc = "audit"] ELSE Idle]
  /\ UNCHANGED <<events, clock, audits>>

\* UpdateWithVersionAndAppendEvent, version unchanged since the read: the whole
\* row, status included, is written from what the caller holds.
Commit(c) ==
  LET h == client[c] IN
  /\ h.pc = "commit"
  /\ tasks[h.task].version = h.version
  /\ tasks'  = [tasks EXCEPT ![h.task] = [status |-> h.row.to, version |-> h.version + 1]]
  /\ events' = [events EXCEPT ![h.task] = @ \cup {Event(h.row.event, h.row.from, h.at)}]
  /\ client' = [client EXCEPT ![c] = IF h.row.audit THEN [h EXCEPT !.pc = "audit"] ELSE Idle]
  /\ UNCHANGED <<clock, audits>>

\* Mutant: the conflict is swallowed and the caller goes on to its audit record.
ConflictIgnored(c) ==
  LET h == client[c] IN
  /\ h.pc = "commit"
  /\ tasks[h.task].version # h.version
  /\ client' = [client EXCEPT ![c] = IF h.row.audit THEN [h EXCEPT !.pc = "audit"] ELSE Idle]
  /\ UNCHANGED <<tasks, events, clock, audits>>

\* The same call when somebody else committed first: ErrConflict, no retry.
Conflict(c) ==
  LET h == client[c] IN
  /\ h.pc = "commit"
  /\ tasks[h.task].version # h.version
  /\ client' = [client EXCEPT ![c] = Idle]
  /\ UNCHANGED <<tasks, events, clock, audits>>

\* recordTransitionAudit, after the commit.
Audit(c) ==
  LET h == client[c] IN
  /\ h.pc = "audit"
  /\ audits' = audits \cup {[task |-> h.task, type |-> h.row.event, at |-> h.at]}
  /\ client' = [client EXCEPT ![c] = Idle]
  /\ UNCHANGED <<tasks, events, clock>>

\* AppendEvent (and EventRepository.Append): an event without a status,
\* stamped before the store's lock is taken and added without a version.
Stamp(c, t) ==
  /\ client[c].pc = "idle"
  /\ tasks[t].status # Absent
  /\ Tick
  /\ client' = [client EXCEPT ![c] =
                  Holding("append", t, NoteRow, tasks[t].version, clock)]
  /\ UNCHANGED <<tasks, events, audits>>

Append(c) ==
  LET h == client[c] IN
  /\ h.pc = "append"
  /\ events' = [events EXCEPT ![h.task] = @ \cup {Event(h.row.event, h.row.from, h.at)}]
  /\ client' = [client EXCEPT ![c] = Idle]
  /\ UNCHANGED <<tasks, clock, audits>>

\* The caller stops between two steps: the request context is cancelled, the
\* store or the audit log returns an error, or the process dies.
Abandon(c) ==
  /\ client[c].pc # "idle"
  /\ client' = [client EXCEPT ![c] = Idle]
  /\ UNCHANGED <<tasks, events, clock, audits>>

Next ==
  \/ \E t \in Tasks : CreateTask(t)
  \/ \E c \in Clients, t \in Tasks, command \in TaskCommands : Get(c, t, command)
  \/ \E c \in Clients, t \in Tasks : GetForUpgrade(c, t)
  \/ \E c \in Clients, t \in Tasks : Stamp(c, t)
  \/ \E c \in Clients : Commit(c)
  \/ \E c \in Clients : Conflict(c)
  \/ \E c \in Clients : Audit(c)
  \/ \E c \in Clients : Append(c)
  \/ \E c \in Clients : Abandon(c)

Spec == Init /\ [][Next]_vars

-----------------------------------------------------------------------------
(***************************************************************************)
(* Recovery: internal/task/recovery Check over the listed events.          *)
(***************************************************************************)
StatusEvents(t) == { e \in events[t] : e.type \in StatusEventTypes }

Latest(S) == CHOOSE e \in S : \A f \in S : f.at <= e.at

\* The status a replay of the events S ends in; "created" when it finds none.
Replay(S) == IF S = {} THEN "created" ELSE StatusFromEvent[Latest(S).type]

-----------------------------------------------------------------------------
EventSet == [type : StatusEventTypes \cup {UpgradedEvent, NoteEvent},
             from : TaskStatuses \cup {Absent}, at : Nat]

HoldingSet == [pc : {"commit", "audit", "append"}, task : Tasks, row : Rows,
               version : Nat, at : Nat]

(***************************************************************************)
(* Types of the store, the log and what callers hold between their steps.  *)
(***************************************************************************)
TypeOK ==
  /\ tasks  \in [Tasks -> [status : TaskStatuses \cup {Absent}, version : Nat]]
  /\ events \in [Tasks -> SUBSET EventSet]
  /\ clock  \in Nat
  /\ client \in [Clients -> {Idle} \cup HoldingSet]
  /\ audits \in SUBSET [task : Tasks, type : StatusEventTypes, at : Nat]

(***************************************************************************)
(* The recovery check never reports a task inconsistent: replaying the     *)
(* event log ends in the stored status, whatever commands, upgrades and    *)
(* unversioned appends interleave (task/recovery/checker.go Check).        *)
(***************************************************************************)
RecoveryConsistent ==
  \A t \in Tasks :
    tasks[t].status # Absent => Replay(StatusEvents(t)) = tasks[t].status

(***************************************************************************)
(* No lost update: the from_status each committed event records is the     *)
(* status the events before it lead to, so no caller ever overwrote a      *)
(* change it had not read (task/runtime/service.go ApplyCommand).          *)
(***************************************************************************)
NoLostUpdate ==
  \A t \in Tasks : \A e \in StatusEvents(t) :
    e.type # CreatedEvent =>
      e.from = Replay({ f \in StatusEvents(t) : f.at < e.at })

(***************************************************************************)
(* The audit log never runs ahead of the task log: every audited           *)
(* transition is a committed event with the same stamp, even when callers  *)
(* lose the race or stop half way (recordTransitionAudit).                 *)
(***************************************************************************)
AuditsCommitted ==
  \A a \in audits : \E e \in events[a.task] : e.type = a.type /\ e.at = a.at

(***************************************************************************)
(* The callers' unlocked read and write implement the one-row-at-a-time    *)
(* life cycle: TaskLifecycle with the stored status.                       *)
(***************************************************************************)
Lifecycle == INSTANCE TaskLifecycle WITH status <- [t \in Tasks |-> tasks[t].status]

LifecycleSpec == Lifecycle!LifecycleSpec
=============================================================================
