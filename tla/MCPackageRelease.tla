-------------------------- MODULE MCPackageRelease --------------------------
(* TLC instance of PackageRelease: members of each set are interchangeable. *)
EXTENDS PackageRelease, TLC

Lenient == [windows |-> FALSE, canary |-> FALSE, approval |-> FALSE]
Strict  == [windows |-> TRUE, canary |-> TRUE, approval |-> TRUE]
MCLenient  == {Lenient}
MCPolicies == {Lenient, Strict}

Symmetry == Permutations(Handlers) \cup Permutations(Approvals) \cup Permutations(Versions)

\* The instance: one request at a time on two versions under the lenient policy, or two
\* requests on one version under the strict one with one restart.
OneAtATime == Cardinality({h \in Handlers : handler[h].pc # "idle"}) <= 1
SmallInstance ==
  IF releasePolicy = Lenient
    THEN OneAtATime /\ \A a \in Approvals : approvals[a].status = "unsent"
    ELSE Len(published) <= 1 /\ restarts <= 1

\* With requests one after the other, new runs of the agent are sent to a version
\* ensureRunnableAgentVersion lets run: at every point of a stable, rollback or
\* activate command, after its failure in the store and after a restart.
ActiveRunnableAlone == releasePolicy = Lenient /\ OneAtATime => ActiveRunnable

\* With requests one after the other, a version that was rolled back stays so in the
\* store (validateReleaseTransition).
RolledBackFinalAlone ==
  [][releasePolicy = Lenient /\ OneAtATime /\ OneAtATime' =>
       \A v \in Versions : stored[v] = "rolled_back" => stored'[v] = "rolled_back"]_vars
=============================================================================
