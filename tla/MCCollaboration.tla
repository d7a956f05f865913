-------------------------- MODULE MCCollaboration --------------------------
(* Handoffs, plans, governance processes and knowledge sharing, for TLC.    *)
(* The components share no state: one of them moves in a behaviour, so that *)
(* their states add and do not multiply.                                    *)
EXTENDS Handoff, Plan, GovernanceProcess, Sharing, TLC

CONSTANTS a1, a2
VARIABLE moving
collaborationVars == <<handoffVars, planVars, govVars, sharingVars, moving>>

-----------------------------------------------------------------------------
(* Handoffs.                                                               *)

MCCollaborators == {<<a1, a2>>, <<a2, a1>>}
MCRequests == {[mode |-> "hybrid", features |-> {}], [mode |-> "hybrid", features |-> {"artifacts"}]}

-----------------------------------------------------------------------------
(* Governance processes: templates to start from, and runs found at start. *)

Definition == [id |-> 0, mode |-> "multi", policy |-> "", escalation |-> "", required |-> 0, min |-> 0]
MCDefinitions ==
  {<<>>, <<Definition, [Definition EXCEPT !.id = 1]>>, <<[Definition EXCEPT !.mode = "unknown"]>>,
   <<[Definition EXCEPT !.mode = ""], [Definition EXCEPT !.mode = "single", !.min = 1]>>}

OpenedGate(g) == [id |-> g, status |-> "open", mode |-> "multi", policy |-> "majority",
                  escalation |-> "none", required |-> 2, min |-> 2, decision |-> ""]
MCGates ==
  {<<OpenedGate(1), [OpenedGate(2) EXCEPT !.mode = "single", !.policy = "any", !.required = 1, !.min = 1]>>,
   <<[OpenedGate(1) EXCEPT !.policy = "all", !.escalation = "orchestrator"]>>}
MCReviews == {[reviewer |-> "r1", type |-> "", decision |-> "approve"],
              [reviewer |-> "r1", type |-> "user", decision |-> "reject"],
              [reviewer |-> "r2", type |-> "user", decision |-> "abstain"],
              [reviewer |-> "r2", type |-> "user", decision |-> "unknown"]}

-----------------------------------------------------------------------------
(* Sharing: what requests may say, and what is on record at the start.     *)

MCSubjects == <<[type |-> "role", id |-> "searcher"], [type |-> "user", id |-> "member"]>>
Policy(actions) == [actions |-> actions, scopes |-> {}, approval |-> FALSE]
ShareOf(bases, redaction) ==
  [source |-> "a", target |-> "b", bases |-> bases, redaction |-> redaction, approval |-> FALSE,
   status |-> "enabled"]
Document(base, group, visibility) ==
  [base |-> base, group |-> group, visibility |-> visibility, matches |-> TRUE]
Gated == [ShareOf({1}, "strict") EXCEPT !.approval = TRUE]

MCInputs ==
  [bases |-> {[owner |-> "a", visibility |-> ""]},
   documents |-> {Document(1, "", "shared"), Document(2, "b", "")},
   queries |-> {[requester |-> "b", source |-> "", bases |-> {2}, cross |-> FALSE],
                [requester |-> "b", source |-> "a", bases |-> {}, cross |-> TRUE]},
   pairs |-> {[source |-> "a", requester |-> "b"]},
   shares |-> {[id |-> "p1", row |-> ShareOf({2}, "summary_only"), approval |-> ""],
               [id |-> "", row |-> Gated, approval |-> "x"], [id |-> "p2", row |-> Gated, approval |-> ""]},
   policies |-> {[key |-> <<"b", 1>>, policy |-> [Policy({"cross_group.search"}) EXCEPT !.scopes = {"group"}]],
                 [key |-> <<"b", 2>>, policy |-> Policy({"knowledge.search", "cross_group.policy"})],
                 [key |-> <<"a", 2>>, policy |-> [Policy({"*"}) EXCEPT !.approval = TRUE]]}]

ReadyBase == [owner |-> "a", visibility |-> "shared", status |-> "ready", count |-> 2]
NothingYet == [permissions |-> <<>>, remembered |-> FALSE, bases |-> <<>>, documents |-> <<>>,
               shares |-> <<>>, approvals |-> <<>>]
AllGranted == (<<"b", 1>> :> Policy({"*"}))
MCSharing ==
  {NothingYet,
   [permissions |-> AllGranted, remembered |-> TRUE,
    bases |-> <<ReadyBase, [ReadyBase EXCEPT !.visibility = "group"]>>,
    documents |-> <<Document(1, "a", "shared"), Document(1, "a", "group"), Document(2, "a", "tenant")>>,
    shares |-> ("p1" :> ShareOf({1}, "summary_only")) @@ ("p2" :> ShareOf({1}, "strict")),
    approvals |-> ("x" :> [status |-> "approved", resource |-> <<"a", "b">>])],
   [permissions |-> AllGranted, remembered |-> FALSE,
    bases |-> <<[ReadyBase EXCEPT !.status = "disabled"], ReadyBase>>,
    documents |-> <<Document(1, "a", "shared"), [Document(2, "a", "tenant") EXCEPT !.matches = FALSE],
                    Document(2, "b", "shared")>>,
    shares |-> ("p1" :> [ShareOf({}, "mask_emails") EXCEPT !.status = "disabled"]),
    approvals |-> <<>>]}

-----------------------------------------------------------------------------
\* The callers of each component are the same two.
CollaborationSymmetry == Permutations(Workers)

\* A component that does not move is in one of its initial states.
CollaborationInit ==
  /\ moving \in {"handoffs", "plans", "governance", "sharing"}
  /\ HandoffInit /\ PlanInit /\ GovInit /\ SharingInit
  /\ moving # "handoffs" => atomicStore
  /\ moving # "governance" => govRun = "absent"
  /\ moving # "sharing" => DOMAIN shareRows = {}

CollaborationNext ==
  \/ moving = "handoffs" /\ HandoffNext /\ UNCHANGED <<planVars, govVars, sharingVars, moving>>
  \/ moving = "plans" /\ PlanNext /\ UNCHANGED <<handoffVars, govVars, sharingVars, moving>>
  \/ moving = "governance" /\ GovNext /\ UNCHANGED <<handoffVars, planVars, sharingVars, moving>>
  \/ moving = "sharing" /\ SharingNext /\ UNCHANGED <<handoffVars, planVars, govVars, moving>>

CollaborationSpec == CollaborationInit /\ [][CollaborationNext]_collaborationVars
=============================================================================
