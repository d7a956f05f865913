-------------------------- MODULE TaskRuntimeProofs --------------------------
(***************************************************************************)
(* Proofs about TaskRuntime, for any tasks, callers and clock bound.       *)
(*                                                                         *)
(* RecoveryConsistent is not inductive: that replaying the log gives the   *)
(* stored status says nothing of what a caller about to commit will write, *)
(* nor of where its event will be sorted.  The strengthening adds what     *)
(* holds of the callers between read and write: one whose version is still *)
(* current read the current status, and its stamp is later than that of    *)
(* every status event, so its event becomes the last.                      *)
(***************************************************************************)
EXTENDS TaskRuntime, TLAPS

UpdateRows == Transitions \cup { UpgradeRow(s) : s \in TaskStatuses }

StampsPast ==
  /\ \A t \in Tasks : \A e \in events[t] : e.at < clock
  /\ \A c \in Clients : client[c].pc # "idle" => client[c].at < clock

StampsUnique ==
  \A t \in Tasks : \A e, f \in StatusEvents(t) : e.at = f.at => e = f

LatestIsStatus ==
  \A t \in Tasks : tasks[t].status # Absent =>
    \E e \in StatusEvents(t) :
      /\ \A f \in StatusEvents(t) : f.at <= e.at
      /\ StatusFromEvent[e.type] = tasks[t].status

AbsentHasNoEvents ==
  \A t \in Tasks : tasks[t].status = Absent => events[t] = {}

\* What a caller that is about to commit holds.
CurrentHolder(h) ==
  /\ h.row \in UpdateRows
  /\ tasks[h.task].status # Absent
  /\ h.version <= tasks[h.task].version
  /\ h.version = tasks[h.task].version =>
       /\ h.row.from = tasks[h.task].status
       /\ \A e \in StatusEvents(h.task) : e.at < h.at

\* What a caller that is about to log its audit record holds.
AuditHolder(h) ==
  /\ h.row \in Transitions
  /\ \E e \in events[h.task] : e.type = h.row.event /\ e.at = h.at

HolderOK(h) ==
  /\ h.pc = "commit" => CurrentHolder(h)
  /\ h.pc = "append" => h.row = NoteRow /\ tasks[h.task].status # Absent
  /\ h.pc = "audit"  => AuditHolder(h)

HoldersOK == \A c \in Clients : HolderOK(client[c])

IInv ==
  /\ TypeOK
  /\ StampsPast
  /\ StampsUnique
  /\ LatestIsStatus
  /\ AbsentHasNoEvents
  /\ HoldersOK
  /\ NoLostUpdate
  /\ AuditsCommitted

-----------------------------------------------------------------------------
(***************************************************************************)
(* The table and the checker agree: the event a transition writes is read  *)
(* back as the status the transition leads to.                             *)
(***************************************************************************)
LEMMA TableEventsRoundTrip ==
  \A r \in Transitions :
    /\ r.from \in TaskStatuses
    /\ r.to \in TaskStatuses
    /\ r.event \in StatusEventTypes \ {CreatedEvent}
    /\ StatusFromEvent[r.event] = r.to
<1>1. /\ StatusFromEvent["task.accepted"] = "accepted"
      /\ StatusFromEvent["task.plan_started"] = "planning"
      /\ StatusFromEvent["task.run_started"] = "running"
      /\ StatusFromEvent["task.waiting_input"] = "waiting_input"
      /\ StatusFromEvent["task.input_provided"] = "running"
      /\ StatusFromEvent["task.approval_required"] = "waiting_approval"
      /\ StatusFromEvent["task.approved"] = "running"
      /\ StatusFromEvent["task.approval_rejected"] = "blocked"
  BY DEF StatusFromEvent, StatusEventTypes, CreatedEvent
<1>2. /\ StatusFromEvent["task.tool_waiting"] = "waiting_tool"
      /\ StatusFromEvent["task.tool_completed"] = "running"
      /\ StatusFromEvent["task.paused"] = "paused"
      /\ StatusFromEvent["task.resumed"] = "running"
      /\ StatusFromEvent["task.completed"] = "completed"
      /\ StatusFromEvent["task.failed"] = "failed"
      /\ StatusFromEvent["task.cancelled"] = "cancelled"
  BY DEF StatusFromEvent, StatusEventTypes, CreatedEvent
<1>3. \A r \in Table : r.from \in TaskStatuses /\ r.to \in TaskStatuses
  BY DEF Table, Row, TaskStatuses
<1>4. \A r \in Table : r.event \in StatusEventTypes \ {CreatedEvent}
  BY DEF Table, Row, StatusEventTypes, CreatedEvent
<1>5. \A r \in Table : StatusFromEvent[r.event] = r.to
  BY <1>1, <1>2 DEF Table, Row
<1>6. \A r \in CancelRows :
        /\ r.from \in TaskStatuses
        /\ r.to \in TaskStatuses
        /\ r.event \in StatusEventTypes \ {CreatedEvent}
        /\ StatusFromEvent[r.event] = r.to
  BY <1>2 DEF CancelRows, Row, TaskStatuses, StatusEventTypes, CreatedEvent
<1> QED BY <1>3, <1>4, <1>5, <1>6 DEF Transitions

(***************************************************************************)
(* The rows a caller may hold, and which of them write a status event.     *)
(***************************************************************************)
LEMMA RowFacts ==
  /\ \A s \in TaskStatuses : /\ UpgradeRow(s) \in UpdateRows
                             /\ UpgradeRow(s).from = s
  /\ \A r \in UpdateRows :
       /\ r \in Rows
       /\ r.from \in TaskStatuses
       /\ r.to \in TaskStatuses
       /\ r.event \in (StatusEventTypes \ {CreatedEvent}) \cup {UpgradedEvent}
       /\ r.event \in StatusEventTypes => StatusFromEvent[r.event] = r.to
       /\ r.event \notin StatusEventTypes => r.to = r.from
       /\ r.audit => r \in Transitions
  /\ NoteRow \in Rows
  /\ NoteRow.event = NoteEvent
  /\ NoteRow.from = Absent
  /\ NoteEvent \notin StatusEventTypes
  /\ UpgradedEvent \notin StatusEventTypes
  /\ CreatedEvent \in StatusEventTypes
  /\ StatusFromEvent[CreatedEvent] = "created"
  /\ "created" \in TaskStatuses
  /\ Absent \notin TaskStatuses
<1>1. /\ NoteEvent \notin StatusEventTypes
      /\ UpgradedEvent \notin StatusEventTypes
      /\ CreatedEvent \in StatusEventTypes
  BY DEF NoteEvent, UpgradedEvent, StatusEventTypes, CreatedEvent
<1>2. StatusFromEvent[CreatedEvent] = "created"
  BY DEF StatusFromEvent, StatusEventTypes, CreatedEvent
<1>3. "created" \in TaskStatuses /\ Absent \notin TaskStatuses
  BY DEF TaskStatuses, Absent
<1>4. /\ NoteRow \in Rows
      /\ NoteRow.event = NoteEvent
      /\ NoteRow.from = Absent
  BY DEF NoteRow, Rows, Row
<1>5. ASSUME NEW s \in TaskStatuses
      PROVE  /\ UpgradeRow(s) \in UpdateRows
             /\ UpgradeRow(s) \in Rows
             /\ UpgradeRow(s).from = s
             /\ UpgradeRow(s).to = s
             /\ UpgradeRow(s).event = UpgradedEvent
             /\ UpgradeRow(s).audit = FALSE
  BY DEF UpgradeRow, UpdateRows, Rows, Row
<1>6. ASSUME NEW r \in UpdateRows
      PROVE  r \in Transitions \/ \E s \in TaskStatuses : r = UpgradeRow(s)
  BY DEF UpdateRows
<1>7. \A r \in Transitions : r \in Rows
  BY DEF Rows
<1>8. ASSUME NEW r \in UpdateRows
      PROVE  /\ r \in Rows
             /\ r.from \in TaskStatuses
             /\ r.to \in TaskStatuses
             /\ r.event \in (StatusEventTypes \ {CreatedEvent}) \cup {UpgradedEvent}
             /\ r.event \in StatusEventTypes => StatusFromEvent[r.event] = r.to
             /\ r.event \notin StatusEventTypes => r.to = r.from
             /\ r.audit => r \in Transitions
  <2>1. CASE r \in Transitions
    BY <2>1, <1>7, TableEventsRoundTrip
  <2>2. CASE \E s \in TaskStatuses : r = UpgradeRow(s)
    BY <2>2, <1>1, <1>5
  <2> QED BY <2>1, <2>2, <1>6
<1> QED BY <1>1, <1>2, <1>3, <1>4, <1>5, <1>8

(***************************************************************************)
(* With unique stamps the last event of a set is well defined.             *)
(***************************************************************************)
LEMMA LatestUnique ==
  ASSUME NEW S, NEW e \in S,
         \A f \in S : f.at <= e.at,
         \A f \in S : f.at \in Nat,
         \A f, g \in S : f.at = g.at => f = g
  PROVE  Latest(S) = e
<1>1. \E g \in S : \A f \in S : f.at <= g.at
  OBVIOUS
<1>2. Latest(S) \in S /\ \A f \in S : f.at <= Latest(S).at
  BY <1>1 DEF Latest
<1> QED BY <1>2

(***************************************************************************)
(* The inductive invariant gives the recovery check.                       *)
(***************************************************************************)
LEMMA IInvRecovers ==
  ASSUME IInv PROVE RecoveryConsistent
<1> SUFFICES ASSUME NEW t \in Tasks, tasks[t].status # Absent
             PROVE  Replay(StatusEvents(t)) = tasks[t].status
  BY DEF RecoveryConsistent
<1>1. PICK e \in StatusEvents(t) :
        /\ \A f \in StatusEvents(t) : f.at <= e.at
        /\ StatusFromEvent[e.type] = tasks[t].status
  BY DEF IInv, LatestIsStatus
<1>2. \A f \in StatusEvents(t) : f.at \in Nat
  BY DEF IInv, TypeOK, StatusEvents, EventSet
<1>3. Latest(StatusEvents(t)) = e
  BY <1>1, <1>2, LatestUnique DEF IInv, StampsUnique
<1> QED BY <1>1, <1>3 DEF Replay

(***************************************************************************)
(* A step that changes only what one caller holds, and perhaps the clock   *)
(* and the audit log, preserves the invariant when what the caller then    *)
(* holds is in order.                                                      *)
(***************************************************************************)
LEMMA CallerStep ==
  ASSUME IInv,
         NEW c \in Clients, NEW h \in {Idle} \cup HoldingSet,
         client' = [client EXCEPT ![c] = h],
         UNCHANGED <<tasks, events>>,
         clock' \in Nat, clock <= clock',
         h.pc # "idle" => h.at < clock',
         HolderOK(h),
         audits' \in SUBSET [task : Tasks, type : StatusEventTypes, at : Nat],
         AuditsCommitted'
  PROVE  IInv'
<1> USE DEF IInv
<1>1. TypeOK'
  BY DEF TypeOK
<1>2. \A t \in Tasks : StatusEvents(t)' = StatusEvents(t)
  BY DEF StatusEvents
<1>3. StampsPast'
  <2>1. ASSUME NEW t \in Tasks, NEW e \in events[t] PROVE e.at < clock'
    BY DEF StampsPast, TypeOK, EventSet
  <2>2. ASSUME NEW d \in Clients, client'[d].pc # "idle" PROVE client'[d].at < clock'
    <3>1. CASE d = c
      BY <2>2, <3>1 DEF TypeOK
    <3>2. CASE d # c
      <4>1. client'[d] = client[d] /\ client[d] \in {Idle} \cup HoldingSet
        BY <3>2 DEF TypeOK
      <4>2. client[d] \in HoldingSet
        BY <4>1, <2>2 DEF Idle
      <4>3. client[d].at \in Nat
        BY <4>2 DEF HoldingSet
      <4> QED BY <4>1, <4>3, <2>2 DEF StampsPast, TypeOK
    <3> QED BY <3>1, <3>2
  <2> QED BY <2>1, <2>2 DEF StampsPast
<1>4. StampsUnique'
  BY <1>2 DEF StampsUnique
<1>5. LatestIsStatus'
  BY <1>2 DEF LatestIsStatus
<1>6. AbsentHasNoEvents'
  BY DEF AbsentHasNoEvents
<1>7. HoldersOK'
  <2> SUFFICES ASSUME NEW d \in Clients PROVE HolderOK(client[d])'
    BY DEF HoldersOK
  <2>1. PICK g \in {Idle} \cup HoldingSet : client'[d] = g /\ HolderOK(g)
    BY DEF TypeOK, HoldersOK
  <2>2. g \in HoldingSet => g.task \in Tasks
    BY DEF HoldingSet
  <2>3. g.pc = "idle" \/ g \in HoldingSet
    BY DEF Idle
  <2> QED BY <2>1, <2>2, <2>3, <1>2 DEF HolderOK, CurrentHolder, AuditHolder
<1>8. NoLostUpdate'
  BY <1>2 DEF NoLostUpdate
<1> QED BY <1>1, <1>3, <1>4, <1>5, <1>6, <1>7, <1>8

(***************************************************************************)
(* A commit whose version is current preserves the invariant: its event    *)
(* becomes the last status event, or carries no status and leaves it so.   *)
(***************************************************************************)
LEMMA CommitStep ==
  ASSUME IInv, NEW c \in Clients, Commit(c)
  PROVE  IInv'
<1> USE DEF IInv
<1>0. PICK h \in HoldingSet : h = client[c]
  BY DEF Commit, TypeOK, Idle
<1> DEFINE t  == h.task
           ev == Event(h.row.event, h.row.from, h.at)
<1>1. /\ h.pc = "commit"
      /\ tasks[t].version = h.version
      /\ tasks'  = [tasks EXCEPT ![t] = [status |-> h.row.to, version |-> h.version + 1]]
      /\ events' = [events EXCEPT ![t] = @ \cup {ev}]
      /\ client' = [client EXCEPT ![c] = IF h.row.audit THEN [h EXCEPT !.pc = "audit"] ELSE Idle]
      /\ clock' = clock
      /\ audits' = audits
  BY <1>0 DEF Commit
<1>2. /\ t \in Tasks
      /\ h.at \in Nat
      /\ h.version \in Nat
  BY DEF HoldingSet
<1>3. CurrentHolder(h)
  BY <1>0, <1>1 DEF HoldersOK, HolderOK
<1>4. /\ h.row \in UpdateRows
      /\ h.row.from = tasks[t].status
      /\ tasks[t].status # Absent
      /\ \A e \in StatusEvents(t) : e.at < h.at
  BY <1>1, <1>3 DEF CurrentHolder
<1>5. /\ h.row.from \in TaskStatuses
      /\ h.row.to \in TaskStatuses
      /\ h.row.event \in (StatusEventTypes \ {CreatedEvent}) \cup {UpgradedEvent}
      /\ h.row.event \in StatusEventTypes => StatusFromEvent[h.row.event] = h.row.to
      /\ h.row.event \notin StatusEventTypes => h.row.to = h.row.from
      /\ h.row.audit => h.row \in Transitions
      /\ h.row.to # Absent
  BY <1>4, RowFacts
<1>6. /\ ev.type = h.row.event
      /\ ev.from = tasks[t].status
      /\ ev.at = h.at
      /\ ev \in EventSet
  BY <1>2, <1>4, <1>5 DEF Event, EventSet
<1>7. /\ tasks'[t].status = h.row.to
      /\ tasks'[t].version = h.version + 1
      /\ events'[t] = events[t] \cup {ev}
      /\ \A u \in Tasks \ {t} : tasks'[u] = tasks[u] /\ events'[u] = events[u]
  BY <1>1, <1>2 DEF TypeOK
<1>8. /\ \A u \in Tasks \ {t} : StatusEvents(u)' = StatusEvents(u)
      /\ h.row.event \notin StatusEventTypes => StatusEvents(t)' = StatusEvents(t)
      /\ h.row.event \in StatusEventTypes => StatusEvents(t)' = StatusEvents(t) \cup {ev}
  BY <1>6, <1>7 DEF StatusEvents
<1>9. \A u \in Tasks : \A e \in StatusEvents(u) : e \in EventSet /\ e.at \in Nat
  BY DEF StatusEvents, TypeOK, EventSet
<1>10. TypeOK'
  <2>1. tasks' \in [Tasks -> [status : TaskStatuses \cup {Absent}, version : Nat]]
    BY <1>1, <1>2, <1>5 DEF TypeOK
  <2>2. events' \in [Tasks -> SUBSET EventSet]
    BY <1>1, <1>6 DEF TypeOK
  <2>3. [h EXCEPT !.pc = "audit"] \in HoldingSet
    BY <1>1 DEF HoldingSet
  <2>4. client' \in [Clients -> {Idle} \cup HoldingSet]
    BY <1>1, <2>3 DEF TypeOK
  <2> QED BY <1>1, <2>1, <2>2, <2>4 DEF TypeOK
<1>11. StampsPast'
  <2>1. h.at < clock
    BY <1>0, <1>1 DEF StampsPast
  <2>2. \A u \in Tasks : \A e \in events'[u] : e.at < clock
    BY <1>6, <1>7, <2>1 DEF StampsPast
  <2>3. ASSUME NEW d \in Clients, client'[d].pc # "idle" PROVE client'[d].at < clock
    <3>1. CASE d = c
      BY <1>1, <2>1, <2>3, <3>1 DEF TypeOK, Idle, HoldingSet
    <3>2. CASE d # c
      BY <1>1, <2>3, <3>2 DEF TypeOK, StampsPast
    <3> QED BY <3>1, <3>2
  <2> QED BY <1>1, <2>2, <2>3 DEF StampsPast
<1>12. StampsUnique'
  <2> SUFFICES ASSUME NEW u \in Tasks, NEW e \in StatusEvents(u)', NEW f \in StatusEvents(u)',
                      e.at = f.at
               PROVE  e = f
    BY DEF StampsUnique
  <2>1. CASE u # t \/ h.row.event \notin StatusEventTypes
    BY <2>1, <1>8 DEF StampsUnique
  <2>2. CASE u = t /\ h.row.event \in StatusEventTypes
    BY <2>2, <1>2, <1>4, <1>6, <1>8, <1>9 DEF StampsUnique
  <2> QED BY <2>1, <2>2
<1>13. LatestIsStatus'
  <2> SUFFICES ASSUME NEW u \in Tasks, tasks'[u].status # Absent
               PROVE  \E e \in StatusEvents(u)' :
                        /\ \A f \in StatusEvents(u)' : f.at <= e.at
                        /\ StatusFromEvent[e.type] = tasks'[u].status
    BY DEF LatestIsStatus
  <2>1. CASE u # t
    BY <2>1, <1>7, <1>8 DEF LatestIsStatus
  <2>2. CASE u = t /\ h.row.event \notin StatusEventTypes
    BY <2>2, <1>2, <1>4, <1>5, <1>7, <1>8 DEF LatestIsStatus
  <2>3. CASE u = t /\ h.row.event \in StatusEventTypes
    <3>1. ev \in StatusEvents(u)'
      BY <2>3, <1>8
    <3>2. \A f \in StatusEvents(u)' : f.at <= ev.at
      BY <2>3, <1>2, <1>4, <1>6, <1>8, <1>9
    <3>3. StatusFromEvent[ev.type] = tasks'[u].status
      BY <2>3, <1>5, <1>6, <1>7
    <3> QED BY <3>1, <3>2, <3>3
  <2> QED BY <2>1, <2>2, <2>3
<1>14. AbsentHasNoEvents'
  BY <1>5, <1>7 DEF AbsentHasNoEvents
<1>15. HoldersOK'
  <2> SUFFICES ASSUME NEW d \in Clients PROVE HolderOK(client[d])'
    BY DEF HoldersOK
  <2>1. CASE d = c
    <3>1. CASE h.row.audit
      <4>1. client'[d] = [h EXCEPT !.pc = "audit"]
        BY <1>1, <2>1, <3>1 DEF TypeOK
      <4>2. /\ client'[d].pc = "audit"
            /\ client'[d].row = h.row
            /\ client'[d].task = t
            /\ client'[d].at = h.at
        BY <4>1, <1>1 DEF HoldingSet
      <4> QED BY <4>2, <3>1, <1>2, <1>5, <1>6, <1>7 DEF HolderOK, AuditHolder
    <3>2. CASE ~h.row.audit
      BY <1>1, <2>1, <3>2 DEF TypeOK, Idle, HolderOK
    <3> QED BY <3>1, <3>2
  <2>2. CASE d # c
    <3>1. client'[d] = client[d] /\ HolderOK(client[d])
      BY <1>1, <2>2 DEF TypeOK, HoldersOK
    <3>2. CASE client[d].pc = "idle"
      BY <3>1, <3>2 DEF HolderOK
    <3>3. CASE client[d].pc # "idle"
      <4> DEFINE g == client[d]
      <4>1. g \in HoldingSet /\ g.task \in Tasks /\ g.version \in Nat
        BY <3>3 DEF TypeOK, Idle, HoldingSet
      <4>2. g.task # t => HolderOK(g)'
        BY <4>1, <3>1, <1>7, <1>8 DEF HolderOK, CurrentHolder, AuditHolder
      <4>3. g.task = t /\ g.pc = "commit" => HolderOK(g)'
        BY <4>1, <3>1, <1>1, <1>2, <1>5, <1>7 DEF HolderOK, CurrentHolder
      <4>4. g.task = t /\ g.pc \in {"append", "audit"} => HolderOK(g)'
        BY <4>1, <3>1, <1>2, <1>5, <1>7 DEF HolderOK, AuditHolder
      <4> QED BY <4>1, <4>2, <4>3, <4>4, <3>1 DEF HoldingSet
    <3> QED BY <3>2, <3>3
  <2> QED BY <2>1, <2>2
<1>16. NoLostUpdate'
  <2> SUFFICES ASSUME NEW u \in Tasks, NEW e \in StatusEvents(u)', e.type # CreatedEvent
               PROVE  e.from = Replay({ f \in StatusEvents(u)' : f.at < e.at })
    BY DEF NoLostUpdate
  <2>1. CASE u # t \/ h.row.event \notin StatusEventTypes
    BY <2>1, <1>8 DEF NoLostUpdate
  <2>2. CASE u = t /\ h.row.event \in StatusEventTypes /\ e # ev
    <3>1. e \in StatusEvents(t)
      BY <2>2, <1>8
    <3>2. e.at < ev.at /\ e.at \in Nat /\ ev.at \in Nat
      BY <3>1, <1>2, <1>4, <1>6, <1>9
    <3>3. { f \in StatusEvents(u)' : f.at < e.at } = { f \in StatusEvents(t) : f.at < e.at }
      BY <2>2, <3>2, <1>8
    <3> QED BY <2>2, <3>1, <3>3, <1>2 DEF NoLostUpdate
  <2>3. CASE u = t /\ h.row.event \in StatusEventTypes /\ e = ev
    <3>1. { f \in StatusEvents(u)' : f.at < e.at } = StatusEvents(t)
      BY <2>3, <1>2, <1>4, <1>6, <1>8
    <3>2. Replay(StatusEvents(t)) = tasks[t].status
      BY <1>2, <1>4, IInvRecovers DEF RecoveryConsistent
    <3> QED BY <2>3, <3>1, <3>2, <1>6
  <2> QED BY <2>1, <2>2, <2>3
<1>17. AuditsCommitted'
  BY <1>1, <1>7 DEF AuditsCommitted, TypeOK
<1> QED BY <1>10, <1>11, <1>12, <1>13, <1>14, <1>15, <1>16, <1>17

(***************************************************************************)
(* Creating a task preserves the invariant: the created event is the whole *)
(* log of a task nobody could have read before.                            *)
(***************************************************************************)
LEMMA CreateStep ==
  ASSUME IInv, NEW t \in Tasks, CreateTask(t)
  PROVE  IInv'
<1> USE DEF IInv
<1>0. PICK now \in Nat : now = clock
  BY DEF TypeOK
<1>1. /\ tasks[t].status = Absent
      /\ clock' = now + 1
      /\ client' = client
      /\ audits' = audits
  BY <1>0 DEF CreateTask, Tick
<1>2. PICK new : new = Event(CreatedEvent, Absent, now)
  OBVIOUS
<1>3. /\ new.type = CreatedEvent
      /\ new.at = now
      /\ new \in EventSet
  BY <1>2, RowFacts DEF Event, EventSet
<1>4. /\ tasks'[t] = [status |-> "created", version |-> 0]
      /\ events'[t] = {new}
      /\ \A u \in Tasks \ {t} : tasks'[u] = tasks[u] /\ events'[u] = events[u]
  BY <1>0, <1>1, <1>2 DEF CreateTask, TypeOK, AbsentHasNoEvents
<1>5. /\ StatusEvents(t)' = {new}
      /\ \A u \in Tasks \ {t} : StatusEvents(u)' = StatusEvents(u)
  BY <1>3, <1>4, RowFacts DEF StatusEvents
<1>6. TypeOK'
  <2>1. tasks' \in [Tasks -> [status : TaskStatuses \cup {Absent}, version : Nat]]
    BY RowFacts DEF CreateTask, TypeOK
  <2>2. events' \in [Tasks -> SUBSET EventSet]
    BY <1>0, <1>2, <1>3 DEF CreateTask, TypeOK
  <2> QED BY <1>1, <2>1, <2>2 DEF TypeOK
<1>7. StampsPast'
  <2>1. \A u \in Tasks : \A e \in events'[u] : e.at < clock'
    BY <1>0, <1>1, <1>3, <1>4 DEF StampsPast, TypeOK, EventSet
  <2>2. ASSUME NEW c \in Clients, client[c].pc # "idle" PROVE client[c].at < clock'
    <3>1. client[c].at \in Nat
      BY <2>2 DEF TypeOK, Idle, HoldingSet
    <3> QED BY <3>1, <2>2, <1>0, <1>1 DEF StampsPast
  <2> QED BY <1>1, <2>1, <2>2 DEF StampsPast
<1>8. StampsUnique'
  BY <1>5 DEF StampsUnique
<1>9. LatestIsStatus'
  <2> SUFFICES ASSUME NEW u \in Tasks, tasks'[u].status # Absent
               PROVE  \E e \in StatusEvents(u)' :
                        /\ \A f \in StatusEvents(u)' : f.at <= e.at
                        /\ StatusFromEvent[e.type] = tasks'[u].status
    BY DEF LatestIsStatus
  <2>1. CASE u = t
    BY <2>1, <1>3, <1>4, <1>5, RowFacts
  <2>2. CASE u # t
    BY <2>2, <1>4, <1>5 DEF LatestIsStatus
  <2> QED BY <2>1, <2>2
<1>10. AbsentHasNoEvents'
  BY <1>4, RowFacts DEF AbsentHasNoEvents
<1>11. HoldersOK'
  <2> SUFFICES ASSUME NEW c \in Clients PROVE HolderOK(client[c])'
    BY DEF HoldersOK
  <2>1. PICK g \in {Idle} \cup HoldingSet : g = client[c] /\ HolderOK(g)
    BY DEF TypeOK, HoldersOK
  <2>2. CASE g.pc = "idle"
    BY <1>1, <2>1, <2>2 DEF HolderOK
  <2>3. CASE g \in HoldingSet /\ g.pc \in {"commit", "append"}
    <3>1. g.task \in Tasks /\ g.task # t
      BY <1>1, <2>1, <2>3 DEF HoldingSet, HolderOK, CurrentHolder
    <3> QED BY <1>1, <1>4, <1>5, <2>1, <2>3, <3>1 DEF HolderOK, CurrentHolder
  <2>4. CASE g \in HoldingSet /\ g.pc = "audit"
    <3>1. g.task \in Tasks /\ g.task # t
      BY <1>1, <2>1, <2>4 DEF HoldingSet, HolderOK, AuditHolder, AbsentHasNoEvents
    <3> QED BY <1>1, <1>4, <2>1, <2>4, <3>1 DEF HolderOK, AuditHolder
  <2> QED BY <2>2, <2>3, <2>4 DEF Idle, HoldingSet
<1>12. NoLostUpdate'
  <2> SUFFICES ASSUME NEW u \in Tasks, NEW e \in StatusEvents(u)', e.type # CreatedEvent
               PROVE  e.from = Replay({ f \in StatusEvents(u)' : f.at < e.at })
    BY DEF NoLostUpdate
  <2>1. u # t
    BY <1>3, <1>5
  <2> QED BY <2>1, <1>5 DEF NoLostUpdate
<1>13. AuditsCommitted'
  <2> SUFFICES ASSUME NEW a \in audits
               PROVE  \E e \in events'[a.task] : e.type = a.type /\ e.at = a.at
    BY <1>1 DEF AuditsCommitted
  <2>1. a.task \in Tasks /\ a.task # t
    BY <1>1 DEF TypeOK, AuditsCommitted, AbsentHasNoEvents
  <2> QED BY <2>1, <1>4 DEF AuditsCommitted
<1> QED BY <1>6, <1>7, <1>8, <1>9, <1>10, <1>11, <1>12, <1>13

(***************************************************************************)
(* Appending a note preserves the invariant although it compares no        *)
(* version: the event carries no status, wherever its stamp sorts it.      *)
(***************************************************************************)
LEMMA AppendStep ==
  ASSUME IInv, NEW c \in Clients, Append(c)
  PROVE  IInv'
<1> USE DEF IInv
<1>0. PICK h \in HoldingSet : h = client[c]
  BY DEF Append, TypeOK, Idle
<1> DEFINE t  == h.task
           ev == Event(h.row.event, h.row.from, h.at)
<1>1. /\ h.pc = "append"
      /\ events' = [events EXCEPT ![t] = @ \cup {ev}]
      /\ client' = [client EXCEPT ![c] = Idle]
      /\ UNCHANGED <<tasks, clock, audits>>
  BY <1>0 DEF Append
<1>2. t \in Tasks /\ h.at \in Nat
  BY DEF HoldingSet
<1>3. /\ h.row = NoteRow
      /\ tasks[t].status # Absent
      /\ h.at < clock
  BY <1>0, <1>1 DEF HoldersOK, HolderOK, StampsPast
<1>4. /\ ev \in EventSet
      /\ ev.type \notin StatusEventTypes
      /\ ev.at = h.at
  BY <1>2, <1>3, RowFacts DEF Event, EventSet
<1>5. /\ events'[t] = events[t] \cup {ev}
      /\ \A u \in Tasks \ {t} : events'[u] = events[u]
      /\ \A u \in Tasks : events[u] \subseteq events'[u]
  BY <1>1, <1>2 DEF TypeOK
<1>6. \A u \in Tasks : StatusEvents(u)' = StatusEvents(u)
  <2>1. StatusEvents(t)' = StatusEvents(t)
    BY <1>4, <1>5 DEF StatusEvents
  <2>2. \A u \in Tasks \ {t} : StatusEvents(u)' = StatusEvents(u)
    BY <1>5 DEF StatusEvents
  <2> QED BY <2>1, <2>2
<1>7. TypeOK'
  BY <1>1, <1>4 DEF TypeOK
<1>8. StampsPast'
  <2>1. \A u \in Tasks : \A e \in events'[u] : e.at < clock
    BY <1>3, <1>4, <1>5 DEF StampsPast
  <2>2. \A d \in Clients : client'[d].pc # "idle" => client'[d].at < clock
    BY <1>1 DEF StampsPast, TypeOK, Idle
  <2> QED BY <1>1, <2>1, <2>2 DEF StampsPast
<1>9. StampsUnique' /\ LatestIsStatus' /\ NoLostUpdate'
  BY <1>1, <1>6 DEF StampsUnique, LatestIsStatus, NoLostUpdate
<1>10. AbsentHasNoEvents'
  BY <1>1, <1>3, <1>5 DEF AbsentHasNoEvents
<1>11. HoldersOK'
  <2> SUFFICES ASSUME NEW d \in Clients PROVE HolderOK(client[d])'
    BY DEF HoldersOK
  <2>1. CASE d = c
    BY <1>1, <2>1 DEF TypeOK, Idle, HolderOK
  <2>2. CASE d # c
    <3>1. PICK g \in {Idle} \cup HoldingSet : g = client[d] /\ HolderOK(g)
      BY DEF TypeOK, HoldersOK
    <3>2. client'[d] = g
      BY <1>1, <2>2, <3>1 DEF TypeOK
    <3>3. CASE g.pc = "idle"
      BY <3>2, <3>3 DEF HolderOK
    <3>4. CASE g \in HoldingSet
      <4>1. g.task \in Tasks
        BY <3>4 DEF HoldingSet
      <4> QED BY <4>1, <3>1, <3>2, <1>1, <1>5, <1>6 DEF HolderOK, CurrentHolder, AuditHolder
    <3> QED BY <3>3, <3>4 DEF Idle
  <2> QED BY <2>1, <2>2
<1>12. AuditsCommitted'
  BY <1>1, <1>5 DEF AuditsCommitted, TypeOK
<1> QED BY <1>7, <1>8, <1>9, <1>10, <1>11, <1>12

(***************************************************************************)
(* The reads preserve the invariant: what a caller takes away is current,  *)
(* and its stamp is later than every event.                                *)
(***************************************************************************)
LEMMA ReadStep ==
  ASSUME IInv, NEW c \in Clients, NEW t \in Tasks,
         NEW pc \in {"commit", "append"}, NEW row \in Rows, Tick,
         tasks[t].status # Absent,
         pc = "commit" => row \in UpdateRows /\ row.from = tasks[t].status,
         pc = "append" => row = NoteRow,
         client' = [client EXCEPT ![c] = Holding(pc, t, row, tasks[t].version, clock)],
         UNCHANGED <<tasks, events, audits>>
  PROVE  IInv'
<1>1. PICK h : h = Holding(pc, t, row, tasks[t].version, clock)
  OBVIOUS
<1>2. /\ clock \in Nat
      /\ clock' = clock + 1
      /\ tasks[t].version \in Nat
  BY DEF IInv, TypeOK, Tick
<1>3. /\ h \in HoldingSet
      /\ h.pc = pc
      /\ h.task = t
      /\ h.row = row
      /\ h.version = tasks[t].version
      /\ h.at = clock
  BY <1>1, <1>2 DEF Holding, HoldingSet
<1>4. \A e \in StatusEvents(t) : e.at < clock
  BY DEF IInv, StampsPast, StatusEvents
<1>5. HolderOK(h)
  BY <1>2, <1>3, <1>4 DEF HolderOK, CurrentHolder
<1>6. AuditsCommitted'
  BY DEF IInv, AuditsCommitted
<1>7. audits' \in SUBSET [task : Tasks, type : StatusEventTypes, at : Nat]
  BY DEF IInv, TypeOK
<1>8. client' = [client EXCEPT ![c] = h]
  BY <1>1
<1>9. clock' \in Nat /\ clock <= clock' /\ h.at < clock'
  BY <1>2, <1>3
<1>10. h \in {Idle} \cup HoldingSet /\ UNCHANGED <<tasks, events>>
  BY <1>3
<1> QED BY <1>5, <1>6, <1>7, <1>8, <1>9, <1>10, CallerStep

(***************************************************************************)
(* A caller that ends its call, with or without an audit record, preserves *)
(* the invariant.                                                          *)
(***************************************************************************)
LEMMA IdleStep ==
  ASSUME IInv, NEW c \in Clients,
         client' = [client EXCEPT ![c] = Idle],
         UNCHANGED <<tasks, events, clock>>,
         audits' \in SUBSET [task : Tasks, type : StatusEventTypes, at : Nat],
         AuditsCommitted'
  PROVE  IInv'
<1>1. Idle.pc = "idle" /\ HolderOK(Idle)
  BY DEF Idle, HolderOK
<1>2. clock' \in Nat /\ clock <= clock'
  BY DEF IInv, TypeOK
<1> QED BY <1>1, <1>2, CallerStep

(***************************************************************************)
(* The audit record of a committed transition preserves the invariant.     *)
(***************************************************************************)
LEMMA AuditStep ==
  ASSUME IInv, NEW c \in Clients, Audit(c)
  PROVE  IInv'
<1>1. PICK h \in HoldingSet : h = client[c]
  BY DEF IInv, Audit, TypeOK, Idle
<1>2. PICK a : a = [task |-> h.task, type |-> h.row.event, at |-> h.at]
  OBVIOUS
<1>3. AuditHolder(h)
  BY <1>1 DEF Audit, IInv, HoldersOK, HolderOK
<1>4. a \in [task : Tasks, type : StatusEventTypes, at : Nat]
  BY <1>2, <1>3, TableEventsRoundTrip DEF AuditHolder, HoldingSet
<1>5. audits' = audits \cup {a} /\ events' = events
  BY <1>1, <1>2 DEF Audit
<1>6. AuditsCommitted'
  BY <1>2, <1>3, <1>5 DEF IInv, AuditsCommitted, AuditHolder
<1>7. audits' \in SUBSET [task : Tasks, type : StatusEventTypes, at : Nat]
  BY <1>4, <1>5 DEF IInv, TypeOK
<1> QED BY <1>6, <1>7, IdleStep DEF Audit

(***************************************************************************)
(* Every step of the task runtime preserves the inductive invariant.       *)
(***************************************************************************)
LEMMA NextPreserves ==
  ASSUME IInv, [Next]_vars PROVE IInv'
<1>1. CASE \E t \in Tasks : CreateTask(t)
  BY <1>1, CreateStep
<1>2. ASSUME NEW c \in Clients, NEW t \in Tasks, NEW command \in TaskCommands,
             Get(c, t, command)
      PROVE  IInv'
  <2>1. PICK r \in Apply(tasks[t].status, command) :
          client' = [client EXCEPT ![c] = Holding("commit", t, r, tasks[t].version, clock)]
    BY <1>2 DEF Get
  <2>2. r \in Transitions /\ r.from = tasks[t].status
    BY <2>1 DEF Apply
  <2>3. r \in UpdateRows /\ r \in Rows /\ tasks[t].status # Absent
    BY <2>2, RowFacts DEF UpdateRows, Rows
  <2> QED BY <1>2, <2>1, <2>2, <2>3, ReadStep DEF Get
<1>3. ASSUME NEW c \in Clients, NEW t \in Tasks, GetForUpgrade(c, t)
      PROVE  IInv'
  <2>1. tasks[t].status \in TaskStatuses
    BY <1>3 DEF GetForUpgrade, IInv, TypeOK
  <2>2. PICK r : r = UpgradeRow(tasks[t].status)
    OBVIOUS
  <2>3. r \in UpdateRows /\ r \in Rows /\ r.from = tasks[t].status
    BY <2>1, <2>2, RowFacts
  <2> QED BY <1>3, <2>2, <2>3, ReadStep DEF GetForUpgrade
<1>4. ASSUME NEW c \in Clients, NEW t \in Tasks, Stamp(c, t)
      PROVE  IInv'
  BY <1>4, RowFacts, ReadStep DEF Stamp
<1>5. CASE \E c \in Clients : Commit(c)
  BY <1>5, CommitStep
<1>6. ASSUME NEW c \in Clients, Conflict(c) \/ Abandon(c)
      PROVE  IInv'
  <2>1. /\ client' = [client EXCEPT ![c] = Idle]
        /\ UNCHANGED <<tasks, events, clock, audits>>
    BY <1>6 DEF Conflict, Abandon
  <2>2. AuditsCommitted'
    BY <2>1 DEF IInv, AuditsCommitted
  <2>3. audits' \in SUBSET [task : Tasks, type : StatusEventTypes, at : Nat]
    BY <2>1 DEF IInv, TypeOK
  <2> QED BY <2>1, <2>2, <2>3, IdleStep
<1>7. CASE \E c \in Clients : Audit(c)
  BY <1>7, AuditStep
<1>8. CASE \E c \in Clients : Append(c)
  BY <1>8, AppendStep
<1>9. CASE UNCHANGED vars
  BY <1>9 DEF vars, IInv, TypeOK, StampsPast, StampsUnique, LatestIsStatus,
     AbsentHasNoEvents, HoldersOK, HolderOK, CurrentHolder, AuditHolder,
     NoLostUpdate, AuditsCommitted, StatusEvents
<1> QED BY <1>1, <1>2, <1>3, <1>4, <1>5, <1>6, <1>7, <1>8, <1>9 DEF Next

(***************************************************************************)
(* The empty store satisfies the inductive invariant.                      *)
(***************************************************************************)
LEMMA InitHolds == Init => IInv
<1> SUFFICES ASSUME Init PROVE IInv
  OBVIOUS
<1>1. \A t \in Tasks : tasks[t].status = Absent /\ events[t] = {} /\ StatusEvents(t) = {}
  BY DEF Init, StatusEvents
<1>2. \A c \in Clients : client[c].pc = "idle"
  BY DEF Init, Idle
<1>3. TypeOK
  BY DEF Init, TypeOK
<1> QED BY <1>1, <1>2, <1>3 DEF Init, IInv, StampsPast, StampsUnique, LatestIsStatus,
     AbsentHasNoEvents, HoldersOK, HolderOK, NoLostUpdate, AuditsCommitted

(***************************************************************************)
(* The inductive invariant holds in every reachable state.                 *)
(***************************************************************************)
THEOREM InductiveInvariant == Spec => []IInv
<1>1. Init => IInv
  BY InitHolds
<1>2. IInv /\ [Next]_vars => IInv'
  BY NextPreserves
<1> QED BY <1>1, <1>2, PTL DEF Spec

(***************************************************************************)
(* Store, log, audit records and callers' registers keep their types.      *)
(***************************************************************************)
THEOREM TypeCorrect == Spec => []TypeOK
<1>1. IInv => TypeOK
  BY DEF IInv
<1> QED BY <1>1, InductiveInvariant, PTL

(***************************************************************************)
(* For any number of tasks and concurrent callers the recovery checker     *)
(* finds every task consistent with its event log.                         *)
(***************************************************************************)
THEOREM RecoveryAlwaysConsistent == Spec => []RecoveryConsistent
<1>1. IInv => RecoveryConsistent
  BY IInvRecovers
<1> QED BY <1>1, InductiveInvariant, PTL

(***************************************************************************)
(* For any number of callers no committed command was computed from a      *)
(* status that another caller had already replaced.                        *)
(***************************************************************************)
THEOREM NoUpdateLost == Spec => []NoLostUpdate
<1>1. IInv => NoLostUpdate
  BY DEF IInv
<1> QED BY <1>1, InductiveInvariant, PTL

(***************************************************************************)
(* The audit log only ever names committed transitions.                    *)
(***************************************************************************)
THEOREM AuditNeverAhead == Spec => []AuditsCommitted
<1>1. IInv => AuditsCommitted
  BY DEF IInv
<1> QED BY <1>1, InductiveInvariant, PTL

-----------------------------------------------------------------------------
(***************************************************************************)
(* A commit is one row of the life cycle, or leaves the status alone.      *)
(***************************************************************************)
LEMMA CommitIsMove ==
  ASSUME IInv, NEW c \in Clients, Commit(c)
  PROVE  [Lifecycle!LifecycleNext]_([t \in Tasks |-> tasks[t].status])
<1>1. PICK h \in HoldingSet : h = client[c]
  BY DEF IInv, Commit, TypeOK, Idle
<1> DEFINE st == [t \in Tasks |-> tasks[t].status]
           new == [t \in Tasks |-> tasks'[t].status]
<1>2. /\ h.task \in Tasks
      /\ tasks' = [tasks EXCEPT ![h.task] = [status |-> h.row.to, version |-> h.version + 1]]
      /\ h.row \in UpdateRows
      /\ h.row.from = tasks[h.task].status
  BY <1>1 DEF HoldingSet, Commit, IInv, HoldersOK, HolderOK, CurrentHolder
<1>3. new = [st EXCEPT ![h.task] = h.row.to]
  BY <1>2 DEF IInv, TypeOK
<1>4. st[h.task] = h.row.from
  BY <1>2
<1>5. CASE h.row \in Transitions
  BY <1>2, <1>3, <1>4, <1>5
     DEF Lifecycle!LifecycleNext, Lifecycle!Move, Lifecycle!Transitions, Transitions,
         Lifecycle!Table, Table, Lifecycle!CancelRows, CancelRows, Lifecycle!Row, Row,
         Lifecycle!TaskStatuses, TaskStatuses, Lifecycle!Terminal, Terminal
<1>6. CASE h.row \notin Transitions
  <2>1. h.row.to = h.row.from
    BY <1>2, <1>6 DEF UpdateRows, UpgradeRow, Row
  <2>2. new = st
    BY <2>1, <1>2, <1>3, <1>4
  <2> QED BY <2>2
<1> QED BY <1>5, <1>6

(***************************************************************************)
(* The task runtime implements the life cycle: whatever the interleaving   *)
(* of reads, commits, conflicts and abandoned calls, the stored status of  *)
(* a task moves one row of the table at a time.                            *)
(***************************************************************************)
THEOREM ImplementsLifecycle == Spec => LifecycleSpec
<1> DEFINE st == [t \in Tasks |-> tasks[t].status]
<1>1. Init => Lifecycle!LifecycleInit
  BY DEF Init, Lifecycle!LifecycleInit, Lifecycle!Absent, Absent
<1>2. IInv /\ [Next]_vars => [Lifecycle!LifecycleNext]_st
  <2> SUFFICES ASSUME IInv, [Next]_vars PROVE [Lifecycle!LifecycleNext]_st
    OBVIOUS
  <2>1. ASSUME NEW t \in Tasks, CreateTask(t) PROVE [Lifecycle!LifecycleNext]_st
    <3>1. st' = [st EXCEPT ![t] = "created"]
      BY <2>1 DEF CreateTask, IInv, TypeOK
    <3>2. st[t] = Absent
      BY <2>1 DEF CreateTask
    <3> QED BY <3>1, <3>2
            DEF Lifecycle!LifecycleNext, Lifecycle!Create, Lifecycle!Absent, Absent
  <2>2. CASE \E c \in Clients : Commit(c)
    BY <2>2, CommitIsMove
  <2>3. CASE UNCHANGED tasks
    BY <2>3
  <2> QED BY <2>1, <2>2, <2>3
          DEF Next, vars, Get, GetForUpgrade, Stamp, Conflict, Audit, Append, Abandon
<1> QED BY <1>1, <1>2, InductiveInvariant, PTL DEF Spec, LifecycleSpec, Lifecycle!LifecycleSpec
=============================================================================
