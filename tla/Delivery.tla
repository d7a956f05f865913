------------------------------ MODULE Delivery ------------------------------
(***************************************************************************)
(* Messages and artifacts a task writes back to the external task it is     *)
(* bound to (internal/bridge/array, its postgres store, and the replay      *)
(* command of the API): the sender queues a row in the outbox, calls the    *)
(* provider and marks the row; the retry worker and the replay command send *)
(* again what is due.  Nothing locks a row between these steps, the errors  *)
(* of the store are ignored, and an answer of the provider may be lost.     *)
(*                                                                          *)
(* One external task, and an adapter for its provider is configured.        *)
(***************************************************************************)
EXTENDS Naturals, Sequences

CONSTANTS
  Messages,       \* idempotency keys: provider, task, run, kind of event and text
  Senders,        \* runs and commands that write back or replay at the same time
  RetryWorkers,   \* retry workers: one in each server process
  MaxAttempts,    \* external_delivery_retry_max_attempts, 0 = no limit
  BatchSize,      \* external_delivery_retry_batch_size
  MaxSends,       \* messages sent (bound, model checking only)
  MaxReplays,     \* replay commands (bound, model checking only)
  MaxFaults       \* failing store calls and stopped processes (bound)

ASSUME DeliveryAssumption ==
  /\ Senders \cap RetryWorkers = {}
  /\ MaxAttempts \in Nat /\ BatchSize \in Nat \ {0}
  /\ MaxSends \in Nat /\ MaxReplays \in Nat /\ MaxFaults \in Nat

VARIABLES
  binding,    \* status of the external_task_bindings row
  outbox,     \* external_delivery_outbox: by message, and whether its tenant is known
  queued,     \* the ids of its rows in the order of created_at
  received,   \* messages the provider has received
  courier,    \* courier[c]: where the sender or the worker is, and its locals
  sends, replays, faults

deliveryVars == <<binding, outbox, queued, received, courier, sends, replays, faults>>

Couriers == Senders \cup RetryWorkers
NoId     == <<>>
\* work: the rows still to be sent, as they were read; limit: 0 when nothing is given up.
AtRest   == [pc |-> "idle", work |-> <<>>, limit |-> 0, answer |-> "none"]

DeliveryInit ==
  /\ binding  = "active"
  /\ outbox   = <<>>
  /\ queued   = <<>>
  /\ received = {}
  /\ courier  = [c \in Couriers |-> AtRest]
  /\ sends = 0 /\ replays = 0 /\ faults = 0

-----------------------------------------------------------------------------
(* The store.                                                              *)

StoreAnswers == UNCHANGED faults
StoreFails   == faults < MaxFaults /\ faults' = faults + 1

SaveBinding(status)         == binding' = status
UpdateBindingStatus(status) == binding' = status

\* A row of the same key is made pending again; its attempts and its next attempt stay.
EnqueueDelivery(id) ==
  IF id \in DOMAIN outbox
    THEN outbox' = [outbox EXCEPT ![id].status = "pending"] /\ UNCHANGED queued
    ELSE /\ outbox' = [i \in DOMAIN outbox \cup {id} |->
                         IF i = id THEN [status |-> "pending", attempts |-> 0, later |-> FALSE] ELSE outbox[i]]
         /\ queued' = Append(queued, id)

\* The status is written whatever it was; a failed attempt is repeated in a minute.
MarkDeliveryAttempt(id, status) ==
  outbox' = [outbox EXCEPT ![id] =
               [status   |-> status,
                attempts |-> @.attempts + (IF status \in {"delivered", "failed"} THEN 1 ELSE 0),
                later    |-> status = "failed"]]

First(list, n) == SubSeq(list, 1, IF Len(list) < n THEN Len(list) ELSE n)

\* Mutant: a row that was never marked is not listed.
ListFailedDue(statuses, limit) ==
  LET due == SelectSeq(queued, LAMBDA id : outbox[id].status \in statuses \ {"pending"} /\ ~outbox[id].later)
  IN  First(due, limit)

\* The oldest rows of these statuses whose next attempt is due.
ListDeliveriesDue(statuses, limit) ==
  LET due == SelectSeq(queued, LAMBDA id : outbox[id].status \in statuses /\ ~outbox[id].later)
  IN  First(due, limit)

-----------------------------------------------------------------------------
(* Senders, the replay command and the retry worker.                       *)

CourierAt(c, pc) == courier[c].pc = pc
Item(id)         == [id |-> id, message |-> id[1], attempts |-> outbox[id].attempts]
Take(c, ids, limit) ==
  courier' = [courier EXCEPT ![c] =
                [AtRest EXCEPT !.pc = "send", !.work = [i \in DOMAIN ids |-> Item(ids[i])], !.limit = limit]]

\* SendMessage and AttachArtifact of a sender whose task has a binding.
SendMessage(c, m) ==
  /\ CourierAt(c, "idle") /\ sends < MaxSends
  /\ sends' = sends + 1
  /\ courier' = [courier EXCEPT ![c] =
                   [AtRest EXCEPT !.pc = "enqueue", !.work = <<[id |-> NoId, message |-> m, attempts |-> 0]>>]]
  /\ UNCHANGED <<binding, outbox, queued, received, replays, faults>>

\* enqueueDelivery: without the binding the row has no tenant; without a row the message
\* is sent all the same.
enqueueDelivery(c) ==
  /\ CourierAt(c, "enqueue")
  /\ \/ \E known \in BOOLEAN :
          LET id == <<courier[c].work[1].message, known>> IN
          /\ IF known THEN StoreAnswers ELSE StoreFails
          /\ EnqueueDelivery(id)
          /\ courier' = [courier EXCEPT ![c].pc = "send", ![c].work[1].id = id]
     \/ /\ StoreFails
        /\ courier' = [courier EXCEPT ![c].pc = "send"]
        /\ UNCHANGED <<outbox, queued>>
  /\ UNCHANGED <<binding, received, sends, replays>>

\* ReplayDelivery: one row of the caller's tenant, whatever its status.
ReplayDelivery(c, id) ==
  /\ CourierAt(c, "idle") /\ replays < MaxReplays /\ id \in DOMAIN outbox /\ id[2]
  /\ replays' = replays + 1
  /\ Take(c, <<id>>, 0)
  /\ UNCHANGED <<binding, outbox, queued, received, sends, faults>>

\* ReplayDueDeliveries: the rows of the caller's tenant in statuses the caller names.
ReplayDueDeliveries(c, statuses) ==
  LET ids == SelectSeq(ListDeliveriesDue(statuses, Len(queued)), LAMBDA id : id[2]) IN
  /\ CourierAt(c, "idle") /\ replays < MaxReplays /\ ids # <<>>
  /\ replays' = replays + 1
  /\ Take(c, First(ids, BatchSize), 0)
  /\ UNCHANGED <<binding, outbox, queued, received, sends, faults>>

\* RunOnce of the retry worker, on a tick that finds something due.
RunOnce(c) ==
  LET ids == ListDeliveriesDue({"failed", "pending"}, BatchSize) IN
  /\ CourierAt(c, "idle") /\ ids # <<>>
  /\ Take(c, ids, MaxAttempts)
  /\ UNCHANGED <<binding, outbox, queued, received, sends, replays, faults>>

\* A row that has used up its attempts when it was listed is not sent any more.
Exhausted(c) == courier[c].limit > 0 /\ courier[c].work[1].attempts >= courier[c].limit

\* The adapter's call: an error may hide that the provider has the message.
Outcomes(m) == {[answer |-> "delivered", received |-> {m}], [answer |-> "failed", received |-> {m}],
                [answer |-> "failed", received |-> {}]}

Deliver(c) ==
  /\ CourierAt(c, "send") /\ ~Exhausted(c)
  /\ \E outcome \in Outcomes(courier[c].work[1].message) :
       /\ received' = received \cup outcome.received
       /\ courier' = [courier EXCEPT ![c].pc = "mark", ![c].answer = outcome.answer]
  /\ UNCHANGED <<binding, outbox, queued, sends, replays, faults>>

GiveUp(c) ==
  /\ CourierAt(c, "send") /\ Exhausted(c)
  /\ courier' = [courier EXCEPT ![c].pc = "mark", ![c].answer = "dead_letter"]
  /\ UNCHANGED <<binding, outbox, queued, received, sends, replays, faults>>

\* The next item, or the end of the call.
NextItem(c) ==
  courier' = [courier EXCEPT ![c] =
                IF Len(@.work) > 1 THEN [@ EXCEPT !.pc = "send", !.work = Tail(@), !.answer = "none"] ELSE AtRest]

\* markDelivery; its error is ignored.
markDelivery(c) ==
  LET id == courier[c].work[1].id IN
  /\ CourierAt(c, "mark")
  /\ \/ id # NoId /\ StoreAnswers /\ MarkDeliveryAttempt(id, courier[c].answer)
     \/ id # NoId /\ StoreFails /\ UNCHANGED outbox
     \/ id = NoId /\ UNCHANGED <<faults, outbox>>
  /\ IF courier[c].answer = "dead_letter" THEN NextItem(c) ELSE courier' = [courier EXCEPT ![c].pc = "bind"]
  /\ UNCHANGED <<binding, queued, received, sends, replays>>

\* MarkWritebackActive, MarkWritebackFailed; the error is ignored.
MarkWriteback(c) ==
  /\ CourierAt(c, "bind")
  /\ \/ /\ StoreAnswers
        /\ UpdateBindingStatus(IF courier[c].answer = "delivered" THEN "active" ELSE "writeback_failed")
     \/ StoreFails /\ UNCHANGED binding
  /\ NextItem(c)
  /\ UNCHANGED <<outbox, queued, received, sends, replays>>

\* BindTask: the task command binds the external task again.
BindTask ==
  /\ SaveBinding("active")
  /\ UNCHANGED <<outbox, queued, received, courier, sends, replays, faults>>

\* The process stops, or the request is cancelled.
Interrupted(c) ==
  /\ ~CourierAt(c, "idle") /\ StoreFails
  /\ courier' = [courier EXCEPT ![c] = AtRest]
  /\ UNCHANGED <<binding, outbox, queued, received, sends, replays>>

\* The minute before the next attempt of some rows is over.
MinutePasses ==
  /\ \E id \in DOMAIN outbox : outbox[id].later
  /\ outbox' = [id \in DOMAIN outbox |-> [outbox[id] EXCEPT !.later = FALSE]]
  /\ UNCHANGED <<binding, queued, received, courier, sends, replays, faults>>

Proceed(c) ==
  enqueueDelivery(c) \/ Deliver(c) \/ GiveUp(c) \/ markDelivery(c) \/ MarkWriteback(c)

DeliveryNext ==
  \/ \E c \in Senders : \/ \E m \in Messages : SendMessage(c, m)
                        \/ \E id \in DOMAIN outbox : ReplayDelivery(c, id)
                        \/ \E statuses \in SUBSET {"pending", "failed", "delivered", "dead_letter"} :
                             ReplayDueDeliveries(c, statuses)
  \/ \E c \in RetryWorkers : RunOnce(c)
  \/ \E c \in Couriers : Proceed(c) \/ Interrupted(c)
  \/ BindTask \/ MinutePasses

-----------------------------------------------------------------------------
(***************************************************************************)
(* Once no more is sent and nothing fails any more in the store, every row  *)
(* of the outbox ends, and stays, as delivered with the provider in         *)
(* possession of the message, or as a dead letter after all its attempts:   *)
(* whatever the provider answered, wherever a sender or the worker was      *)
(* interrupted, and although late marks overwrite each other (stub.go       *)
(* SendMessage, ReplayDueDeliveriesWithOptions; delivery_retry_worker.go).  *)
(***************************************************************************)
DeliveriesSettle ==
  <>[]\A id \in DOMAIN outbox :
        \/ outbox[id].status = "delivered" /\ id[1] \in received
        \/ outbox[id].status = "dead_letter" /\ outbox[id].attempts >= MaxAttempts
=============================================================================
