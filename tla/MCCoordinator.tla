--------------------------- MODULE MCCoordinator ---------------------------
\* TLC instance of Coordinator.
EXTENDS Coordinator, TLC

Symmetry == Permutations(Runs) \cup Permutations(Approvers)

OneRun      == \E r \in Runs : thread[r].pc = "idle"
OneApprover == \E a \in Approvers : thread[a].pc = "idle"

\* Every decision so far made at most one call.
OneCallEach ==
  /\ \A h \in Threads : Len(thread[h].calls) <= 1
  /\ \A r \in Runs : \A i, j \in DOMAIN results[r] :
       results[r][i].key.step = results[r][j].key.step => results[r][i].key = results[r][j].key

\* No decision so far gave a key of its own.
NoKeyGiven ==
  /\ \A k \in SuppliedKeys : saved[k] = NoCall
  /\ \A h \in Threads : \A i \in DOMAIN thread[h].calls : thread[h].calls[i].given = Ungiven

\* No goroutine handles an error or a question of the model.
NoneErrs == \A h \in Threads : thread[h].pc \notin {"errorFail", "errorMarkFailed", "ask"}

\* Every call so far was of a gated tool.
GatedCalls ==
  \A h \in Threads : \A i \in DOMAIN thread[h].calls : thread[h].calls[i].tool \in Gated

\* The instance: one run and one approver; or two runs and one approver, whose decisions
\* make one call each and give it no key, or complete the task; or one run and two
\* approvers, whose decisions do the same with a gated call.
SmallInstance ==
  \/ OneRun /\ OneApprover
  \/ OneApprover /\ OneCallEach /\ NoKeyGiven /\ NoneErrs
  \/ OneRun /\ OneCallEach /\ NoKeyGiven /\ NoneErrs /\ GatedCalls
=============================================================================
