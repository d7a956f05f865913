-------------------------- MODULE MCPolicyRelease --------------------------
(* Policy bodies and tables found at the start, for TLC.                    *)
EXTENDS PolicyRelease, TLC

Lenient == [name |-> "lenient", windows |-> TRUE, canary |-> FALSE, approval |-> FALSE, reason |-> FALSE]
Strict  == [name |-> "strict", windows |-> FALSE, canary |-> TRUE, approval |-> TRUE, reason |-> TRUE]
MCBodies == {Lenient, Strict}

DraftOf(status, v, body) == [status |-> status, version |-> v, body |-> body]
RowOf(status, body, age) == [status |-> status, body |-> body, age |-> age]

NoTables ==
  [drafts |-> [d \in PolicyDrafts |-> NoPolicy], rows |-> [v \in PolicyVersions |-> NoPolicy],
   inForce |-> NoPolicy, passed |-> {}]

\* v1 was published and passed; its draft has been changed and validated since.
Evaluated ==
  [NoTables EXCEPT !.drafts[1] = DraftOf("validated", 1, Strict),
                   !.rows[1] = RowOf("evaluated", Lenient, 1), !.passed = {<<1, Lenient>>}]

\* The same with v1 stable, and a canary of v2.
TwoReleased ==
  [drafts |-> [d \in PolicyDrafts |->
     IF d = 1 THEN DraftOf("validated", 1, Strict) ELSE DraftOf("published", 2, Strict)],
   rows |-> [v \in PolicyVersions |->
     IF v = 1 THEN RowOf("stable", Lenient, 1) ELSE RowOf("canary", Strict, 2)],
   inForce |-> [version |-> 1, body |-> Lenient], passed |-> {<<1, Lenient>>, <<2, Strict>>}]

MCPolicies == {NoTables, Evaluated, TwoReleased}
=============================================================================
