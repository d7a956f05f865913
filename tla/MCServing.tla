----------------------------- MODULE MCServing -----------------------------
(* What a server takes on and has to bring to an end, for TLC: run          *)
(* admission, external delivery, the goroutines of a run, and the           *)
(* migrations of the database.  The components share no state: one of them  *)
(* moves in a behaviour, so that their states add and do not multiply.      *)
EXTENDS Admission, Delivery, Coordinator, MCSchemaMigration

VARIABLE moving
servingVars == <<vars, deliveryVars, coordinatorVars, migrationVars, moving>>

ServingInit ==
  /\ moving \in {"admission", "delivery", "run", "migration"}
  /\ Init /\ DeliveryInit /\ CoordinatorInit /\ MigrationInit
  /\ moving # "admission" => mode = "sync"

ServingNext ==
  \/ moving = "admission" /\ Next
       /\ UNCHANGED <<deliveryVars, coordinatorVars, migrationVars, moving>>
  \/ moving = "delivery" /\ DeliveryNext
       /\ UNCHANGED <<vars, coordinatorVars, migrationVars, moving>>
  \/ moving = "run" /\ CoordinatorNext
       /\ UNCHANGED <<vars, deliveryVars, migrationVars, moving>>
  \/ moving = "migration" /\ MigrationNext
       /\ UNCHANGED <<vars, deliveryVars, coordinatorVars, moving>>

\* A handler runs until it returns (that a run ends is what ThreadsEnd shows); a sender's
\* and a worker's calls return, the worker's ticker goes on, and time passes; the
\* goroutines of a run are scheduled.
ServingFairness ==
  /\ \A q \in Requests : WF_vars(moving = "admission" /\ Serve(q))
  /\ \A c \in Couriers : WF_deliveryVars(moving = "delivery" /\ Proceed(c))
  /\ \A c \in RetryWorkers : WF_deliveryVars(moving = "delivery" /\ RunOnce(c))
  /\ WF_deliveryVars(moving = "delivery" /\ MinutePasses)
  /\ \A h \in Threads : WF_coordinatorVars(moving = "run" /\ Drive(h))
  /\ \A h \in Approvers : WF_coordinatorVars(moving = "run" /\ ApproverStep(h))

ServingSpec == ServingInit /\ [][ServingNext]_servingVars /\ ServingFairness
=============================================================================
