-------------------------- MODULE MCConfiguration --------------------------
(* What administrators and authors change while agents run, for TLC: the    *)
(* tool catalog with its service connection, runtime hooks, agent drafts    *)
(* and agent resources.  The components share no state: one of them moves   *)
(* in a behaviour, so that their states add and do not multiply.            *)
EXTENDS ToolCatalog, Hooks, AgentDraft, AgentResources, TLC

VARIABLE moving
configurationVars == <<connectionVars, catalogVars, hookVars, draftVars, resourceVars, moving>>

-----------------------------------------------------------------------------
(* Connections and catalogs found at the start.                            *)

On   == [status |-> "enabled", scope |-> 1, net |-> 1, health |-> "unknown"]
Full == [host |-> [status |-> "enabled", health |-> "unknown"],
         adapter |-> [status |-> "enabled", health |-> "healthy"],
         operation |-> "enabled", group |-> "enabled", tool |-> [t \in Tools |-> "enabled"]]
MCConnections == {NoConnection, On, [On EXCEPT !.status = "disabled"]}
MCCatalogs    == {Empty, Full, [Full EXCEPT !.group = "disabled", !.host.health = "unhealthy"]}

-----------------------------------------------------------------------------
(* Hooks: rows requests may carry, and rows found at the start.            *)

Block  == [blocks |-> 1, secret |-> FALSE, ranked |-> {}, dropped |-> {}]
Denied == [blocks |-> 0, secret |-> FALSE, ranked |-> {"t1"}, dropped |-> {}]
MCHookPatches == {Block, Denied, NoPatch}

Static == [status |-> "enabled", type |-> "static_hook_host", reach |-> "service_connection",
           health |-> "healthy"]
Never  == [required |-> FALSE, types |-> {}, phases |-> {}, failures |-> {}]
IfRejecting == [Never EXCEPT !.required = TRUE, !.failures = {"reject"}]
ManifestOf(h) == [status |-> "enabled", hook |-> h, version |-> 1, phase |-> "p",
                  provider |-> TRUE, gated |-> FALSE, policy |-> Never, failure |-> "ignore"]
Bound(h) == [status |-> "enabled", hook |-> h, phase |-> "p", kind |-> "static_hook_host",
             gated |-> FALSE, policy |-> Never, failure |-> "ignore", config |-> Block]
MCAgentHooks == <<[Bound(2) EXCEPT !.kind = "go", !.config = Denied]>>

MCHookRows ==
  [providers |-> {Static, [Static EXCEPT !.status = "disabled", !.reach = "endpoint"],
                  [Static EXCEPT !.type = "go", !.reach = "none"]},
   manifests |-> {ManifestOf(1), [ManifestOf(1) EXCEPT !.version = 2, !.gated = TRUE],
                  [ManifestOf(2) EXCEPT !.phase = "q", !.provider = FALSE]},
   bindings  |-> {Bound(1), [Bound(1) EXCEPT !.gated = TRUE, !.status = "disabled"],
                  [Bound(2) EXCEPT !.kind = "go", !.config = Denied],
                  [Bound(2) EXCEPT !.kind = "go_provider", !.failure = "reject", !.policy = IfRejecting]},
   listed    |-> {<<[ManifestOf(1) EXCEPT !.version = 2, !.gated = TRUE], ManifestOf(2)>>,
                  <<[ManifestOf(1) EXCEPT !.phase = "q", !.status = "disabled"]>>}]

NoHooks == [provider |-> NoRow, manifest |-> [h \in HookIds |-> NoRow],
            binding  |-> [k \in Keys |-> NoRow], approval |-> [a \in HookApprovals |-> NoRow]]
TwoHooks ==
  [provider |-> Static, manifest |-> [h \in HookIds |-> ManifestOf(h)],
   binding  |-> [k \in Keys |-> IF k[2] = "q" THEN NoRow
                                ELSE IF k[1] = 1 THEN [Bound(1) EXCEPT !.kind = "go"]
                                ELSE [Bound(2) EXCEPT !.failure = "reject"]],
   approval |-> [a \in HookApprovals |-> [status |-> "approved", resource |-> <<1, "p">>]]]
MCHooks == {NoHooks, TwoHooks}

-----------------------------------------------------------------------------
(* Drafts: the agent denies a tool and disables delegation; an edit gives   *)
(* it a duration that overflows.                                           *)

ExportOf(t) == [tool |-> t, complete |-> TRUE, risk |-> "", visibility |-> "", status |-> ""]
RefOf(a)    == [agent |-> a, defaultMode |-> "", modes |-> {}, maxTokens |-> 0, status |-> ""]
Undelegated ==
  [EmptySource EXCEPT !.prompt = "p1", !.strategies.collaboration.mode = "disabled",
                      !.strategies.tools.denied = <<"t1">>, !.exports = <<ExportOf("t1")>>]
MCSources == {Undelegated}
MCEdits ==
  {[op |-> "prompt_profile", prompt |-> "", agentsMD |-> ""],
   [op |-> "tool_bindings", tools |-> [NoTools EXCEPT !.denied = <<"t2">>]],
   [op |-> "strategies", patch |-> [runtime |-> [maxSeconds |-> {100}]]],
   [op |-> "collaborators", list |-> <<RefOf("a"), RefOf("a")>>],
   [op |-> "collaborator", ref |-> RefOf("a")], [op |-> "collaborator_remove", agent |-> "a"],
   [op |-> "exports", list |-> <<ExportOf("t2")>>], [op |-> "exported_tool", tool |-> ExportOf("t1")],
   [op |-> "exported_tool_remove", id |-> "t1"],
   [op |-> "skill", skill |-> "s", version |-> "v1"], [op |-> "skill_remove", skill |-> "s", version |-> ""]}
MCPlugins ==
  {[provider |-> "plugin", prompt |-> "p1", agentsMD |-> "", strategies |-> NoStrategies,
    tools |-> <<[tool |-> "t1", named |-> TRUE, schema |-> TRUE]>>, collaborators |-> <<>>, exports |-> <<>>,
    hooks |-> <<[hook |-> "h", phase |-> "before_model_call", status |-> "", timeout |-> 0, failure |-> "",
                 policy |-> [types |-> {}, phases |-> {}, failures |-> {}]]>>]}
DraftFound(status, proposal) ==
  [draft |-> [d \in DraftIds |-> IF d = 1 THEN [status |-> status, source |-> Undelegated] ELSE NoDraft],
   proposal |-> proposal]
NoDraftFound == [draft |-> [d \in DraftIds |-> NoDraft], proposal |-> NoDraft]
MCDrafts == {NoDraftFound, DraftFound("draft", NoDraft),
             DraftFound("reviewed", [status |-> "pending_review", draft |-> 1])}
MCVersions == <<"v1", "v1">>

-----------------------------------------------------------------------------
(* Resources: a skill with two versions, or an agent from the image only.  *)

SkillOf(v, status) == [version |-> v, status |-> status, card |-> "enabled", gen |-> 1]
Resources(skills, default) ==
  [releases |-> [v \in ReleasedVersions |-> IF v = "v1" THEN "stable" ELSE "published"],
   rows |-> [k \in ResourceKinds |-> AbsentRow], skills |-> skills, asset |-> AbsentRow, default |-> default]
MCResources ==
  {Resources(<<SkillOf("v1", "published"), SkillOf("v1", "stable"), AbsentRow>>, "v1"),
   Resources([v \in SkillVersions |-> AbsentRow], "v0")}
MCPromptPatches == {[identity |-> "p"], [identity |-> ""], [agentsMD |-> "m"]}

-----------------------------------------------------------------------------
\* The callers of each component are the same two.
ConfigurationSymmetry == Permutations(Admins) \cup Permutations(DraftServers)

\* A component that does not move is in one of its initial states.
ConfigurationInit ==
  /\ moving \in {"catalog", "hooks", "drafts", "resources"}
  /\ CatalogInit /\ HookInit /\ DraftInit /\ ResourceInit
  /\ moving # "catalog" => connection.status = "absent" /\ stored = Empty
  /\ moving # "hooks" => hookProvider.status = "absent" /\ hookConnection
  /\ moving # "drafts" <=> \A d \in DraftIds : draftRow[d] = NoDraft
  /\ moving # "resources" => \A s \in ResourceServers : registryDefault[s] = "v0"

ConfigurationNext ==
  \/ moving = "catalog" /\ CatalogNext /\ UNCHANGED <<hookVars, draftVars, resourceVars, moving>>
  \/ moving = "hooks" /\ HookNext
       /\ UNCHANGED <<connectionVars, catalogVars, draftVars, resourceVars, moving>>
  \/ moving = "drafts" /\ DraftNext
       /\ UNCHANGED <<connectionVars, catalogVars, hookVars, resourceVars, moving>>
  \/ moving = "resources" /\ ResourceNext
       /\ UNCHANGED <<connectionVars, catalogVars, hookVars, draftVars, moving>>

ConfigurationSpec == ConfigurationInit /\ [][ConfigurationNext]_configurationVars
=============================================================================
