-------------------------- MODULE AgentResources --------------------------
(***************************************************************************)
(* The resources an agent is made of, kept beside its releases: its asset,  *)
(* and standalone rows for its prompt profile, tool bindings, collaborators,*)
(* exported tools and skills (internal/agentdef/package, its postgres store *)
(* and the handlers of the API).  Of the overlay loader, which lays these   *)
(* rows over the released definition, the version and the skill are         *)
(* modelled: the requests here depend on no other part.                     *)
(*                                                                          *)
(* One agent, one collaborator, one exported tool and one skill with its    *)
(* versions are followed.  The transactions on the skill rows run statement *)
(* by statement under READ COMMITTED: a statement sees what was committed   *)
(* when it began, waits for the rows another transaction has changed and    *)
(* looks at each of them again.                                             *)
(***************************************************************************)
EXTENDS Integers, Sequences, FiniteSets

CONSTANTS
  ResourceServers,      \* server processes: each has a registry and a copy of the asset
  ResourceCallers,      \* requests handled at the same time
  ReleasedVersions,     \* agent versions with a release
  StaticVersions,       \* agent versions registered from a static definition
  SkillVersions,        \* versions of the skill: numbers
  PromptPatches,        \* prompt fields a request sets
  InitialResources,     \* what the database and the registries may hold at first
  MaxResourceRequests   \* requests handled in all (bound, model checking only)

VARIABLES
  releaseStatus,     \* status of each release; its resource rows carry the same status
  resourceRow,       \* resourceRow[k]: the standalone row of kind k
  skillRow,          \* skillRow[v]: the standalone row of skill version v
  exportManifest,    \* status of the exported tool in the tool catalog
  assetMem,          \* assetMem[s]: the asset in the memory of server s
  assetRow,          \* agent_assets
  registryDefault,   \* registryDefault[s]: default version of server s's registry
  editor,            \* editor[c]: where the request is, its locals and its transaction
  resourceRequests,  \* requests received so far
  lastSkillWrite,    \* history: the last committed change of the skill
  skillsOverlapped   \* history: two changes of the skill ran at the same time

resourceVars == <<releaseStatus, resourceRow, skillRow, exportManifest, assetMem, assetRow, registryDefault,
                  editor, resourceRequests, lastSkillWrite, skillsOverlapped>>

AgentVersions   == ReleasedVersions \cup StaticVersions
ResourceKinds   == {"prompt", "tools", "collaborator", "export"}
AbsentRow       == [version |-> "absent"]
RowFound(row)   == row.version # "absent"
IdleEditor      == [pc |-> "idle"]
EditorAt(c, pc) == editor[c].pc = pc

GivenVersions == {""} \cup AgentVersions

\* Rows have their columns.
SkillStored(row) == "version" \in DOMAIN row /\ (RowFound(row) => {"status", "card", "gen"} \subseteq DOMAIN row)
AssetStored(row) ==
  /\ "version" \in DOMAIN row
  /\ RowFound(row) => /\ {"status", "default"} \subseteq DOMAIN row
                      /\ row.version \in GivenVersions /\ row.default \in GivenVersions
ActiveSkill(row) == RowFound(row) /\ row.status = "stable"

\* Fields, or rows, laid over others.
LaidOver(new, base) == [f \in DOMAIN new \cup DOMAIN base |-> IF f \in DOMAIN new THEN new[f] ELSE base[f]]

ASSUME ResourceAssumption ==
  /\ ReleasedVersions \cap StaticVersions = {} /\ SkillVersions \subseteq Nat \ {0}
  /\ MaxResourceRequests \in Nat /\ "absent" \notin AgentVersions
  /\ \A init \in InitialResources :
       /\ init.skills = [v \in SkillVersions |-> init.skills[v]] /\ \A v \in SkillVersions : SkillStored(init.skills[v])
       /\ \A v, w \in SkillVersions : ActiveSkill(init.skills[v]) /\ ActiveSkill(init.skills[w]) => v = w
       /\ AssetStored(init.asset) /\ init.default \in GivenVersions

\* The prompt of a released definition.
releasedPrompt == [identity |-> "released", agentsMD |-> "", system |-> "released"]

ResourceInit ==
  /\ \E init \in InitialResources :
       /\ releaseStatus = init.releases /\ resourceRow = init.rows /\ skillRow = init.skills
       /\ assetRow = init.asset /\ registryDefault = [s \in ResourceServers |-> init.default]
  /\ exportManifest = IF RowFound(resourceRow["export"]) THEN "enabled" ELSE "absent"
  /\ assetMem = [s \in ResourceServers |-> AbsentRow]
  /\ editor = [c \in ResourceCallers |-> IdleEditor]
  /\ resourceRequests = 0
  /\ lastSkillWrite = IF \E v \in SkillVersions : ActiveSkill(skillRow[v]) THEN "activated" ELSE "none"
  /\ skillsOverlapped = FALSE

-----------------------------------------------------------------------------
(* Reading: the loader and the views.                                      *)

ListActiveSkillDefinitionProjections == {v \in SkillVersions : ActiveSkill(skillRow[v])}

skillProjectionDeleted(row) == row.status = "deprecated" \/ row.card = "deleted"

\* StaticLoader.
DefaultVersionForTenant(s) == registryDefault[s]
loadStatic(s, requested)   == IF requested = "" THEN registryDefault[s] ELSE requested

\* A row applies when no version is requested, or when it was saved for no version or for the one loaded.
rowApplies(row, requested, version) == RowFound(row) /\ (requested = "" \/ row.version \in {"", version})

\* The active skill rows are applied in the order of their versions: the highest wins.
applySkillDefinitions(requested, version) ==
  LET apply == {v \in ListActiveSkillDefinitionProjections : rowApplies(skillRow[v], requested, version)} IN
  IF apply = {} THEN 0 ELSE CHOOSE v \in apply : \A w \in apply : w <= v

\* PromptProfileOverlayLoader.Load: the version found and the version of the skill in it.
LoadAgent(s, requested) ==
  LET version == loadStatic(s, requested) IN
  [version |-> version, skill |-> applySkillDefinitions(requested, version)]

agentSubresourceProjectionVersion(s, requested) == IF requested # "" THEN requested ELSE LoadAgent(s, "").version

\* Every release has the skill in its first version.
releasedSkill(v) == IF releaseStatus[v] = "deprecated" THEN 0 ELSE 1

\* The version of the skill a view shows, 0 for none: any of the active rows may be the
\* newest of them.
skillDefinitionResourceView(s, requested) ==
  LET version == agentSubresourceProjectionVersion(s, requested) IN
  IF requested = "" /\ ListActiveSkillDefinitionProjections # {}
  THEN {IF skillProjectionDeleted(skillRow[v]) THEN 0 ELSE v : v \in ListActiveSkillDefinitionProjections}
  ELSE IF version \in ReleasedVersions THEN {releasedSkill(version)}
  ELSE {LoadAgent(s, requested).skill}

\* A stored version that is not deleted, else the one of a release.
skillDefinitionBySkillVersion(v) ==
  \/ RowFound(skillRow[v]) /\ ~ skillProjectionDeleted(skillRow[v])
  \/ v = 1 /\ \E r \in ReleasedVersions : releaseStatus[r] # "deprecated"

storedSkillVersions == {v \in SkillVersions : RowFound(skillRow[v])}
ListSkillDefinitionProjectionVersions == storedSkillVersions
nextSkillDefinitionVersion ==
  LET stored == ListSkillDefinitionProjectionVersions IN
  IF stored = {} THEN 1 ELSE 1 + (CHOOSE v \in stored : \A w \in stored : w <= v)

-----------------------------------------------------------------------------
(* Requests.                                                               *)

EditorGoes(c, r) == editor' = [editor EXCEPT ![c] = r]
EditorTo(c, pc)  == EditorGoes(c, [editor[c] EXCEPT !.pc = pc])
EditorAnswer(c)  == EditorGoes(c, IdleEditor)

keepSkills == UNCHANGED <<skillRow, lastSkillWrite, skillsOverlapped>>
keepAssets == UNCHANGED <<assetMem, assetRow, registryDefault>>
keepRows   == UNCHANGED <<resourceRow, exportManifest>>

EditorBegins(c, s, pc, kind, version, item) ==
  /\ EditorAt(c, "idle") /\ resourceRequests < MaxResourceRequests
  /\ resourceRequests' = resourceRequests + 1
  /\ EditorGoes(c, [pc |-> pc, server |-> s, kind |-> kind, version |-> version, item |-> item,
                    seen |-> {}, own |-> <<>>, then |-> ""])
  /\ UNCHANGED releaseStatus /\ keepSkills /\ keepAssets /\ keepRows

\* The version a standalone row is saved for when the request gives none.
GetAgentAsset(s) == IF RowFound(assetMem[s]) THEN assetMem[s] ELSE assetRow
standaloneAgentSubresourceVersion(s, given) ==
  LET asset == GetAgentAsset(s) IN
  IF given # "" THEN given
  ELSE IF RowFound(asset) /\ asset.version # "" THEN asset.version
  ELSE IF RowFound(asset) /\ asset.default # "" THEN asset.default
  ELSE DefaultVersionForTenant(s)

\* POST, PUT or PATCH of a prompt profile, tool bindings, a collaborator or an exported tool.
handleAgentPromptProfile(c) == \E s \in ResourceServers, given \in GivenVersions, p \in PromptPatches :
  EditorBegins(c, s, "prompt_read", "prompt", given, p)
handleAgentToolBindings(c) == \E s \in ResourceServers, given \in GivenVersions :
  EditorBegins(c, s, "put", "tools", standaloneAgentSubresourceVersion(s, given), <<"saved", c>>)
\* The collaborator is loaded from the registry first.
handleAgentCollaborators(c) == \E s \in ResourceServers, given \in GivenVersions :
  EditorBegins(c, s, "put", "collaborator", standaloneAgentSubresourceVersion(s, given), <<"saved", c>>)
handleAgentExportedTools(c) == \E s \in ResourceServers, given \in GivenVersions :
  EditorBegins(c, s, "put", "export", standaloneAgentSubresourceVersion(s, given), <<"saved", c>>)
handleAgentResourceDelete(c) == \E s \in ResourceServers, k \in ResourceKinds :
  EditorBegins(c, s, "delete", k, "", <<>>)

\* The fields of the registered definition or, unless the request names another version, of
\* the standalone row; the request's own fields over them.
GetActivePromptProfileProjection == resourceRow["prompt"]
basePromptProfileFields          == releasedPrompt
upsertStandalonePromptProfile(c) ==
  /\ EditorAt(c, "prompt_read")
  /\ LET given   == editor[c].version
         version == standaloneAgentSubresourceVersion(editor[c].server, given)
         row     == GetActivePromptProfileProjection
         base    == IF RowFound(row) /\ (given = "" \/ row.version = version) THEN row.content
                    ELSE basePromptProfileFields
         content == LaidOver(editor[c].item, base) IN
       IF content.identity = "" /\ content.agentsMD = "" THEN EditorAnswer(c)
       ELSE EditorGoes(c, [editor[c] EXCEPT !.pc = "put", !.version = version, !.item = content])
  /\ UNCHANGED <<releaseStatus, resourceRequests>> /\ keepSkills /\ keepAssets /\ keepRows

\* One row for each kind: the version and the content are replaced, or the row is deleted.
storeRow(k, row) == resourceRow' = [resourceRow EXCEPT ![k] = row]
promptProfileStore(row) == storeRow("prompt", row)
toolBindingStore(row)   == storeRow("tools", row)
collaboratorStore(row)  == storeRow("collaborator", row)
exportedToolStore(row)  == storeRow("export", row)

RowToSave(c) == [version |-> editor[c].version, content |-> editor[c].item]
EditorSaves(c, k)   == EditorAt(c, "put") /\ editor[c].kind = k
EditorDeletes(c, k) == EditorAt(c, "delete") /\ editor[c].kind = k
keepAllButRow == UNCHANGED <<releaseStatus, resourceRequests, exportManifest>> /\ keepSkills /\ keepAssets

UpsertPromptProfileProjection(c) ==
  EditorSaves(c, "prompt") /\ promptProfileStore(RowToSave(c)) /\ EditorAnswer(c) /\ keepAllButRow
UpsertToolBindingProjection(c) ==
  EditorSaves(c, "tools") /\ toolBindingStore(RowToSave(c)) /\ EditorAnswer(c) /\ keepAllButRow
UpsertCollaboratorProjection(c) ==
  EditorSaves(c, "collaborator") /\ collaboratorStore(RowToSave(c)) /\ EditorAnswer(c) /\ keepAllButRow
UpsertExportedToolProjection(c) ==
  EditorSaves(c, "export") /\ exportedToolStore(RowToSave(c)) /\ EditorTo(c, "enable") /\ keepAllButRow

DeleteActivePromptProfileProjection(c) ==
  EditorDeletes(c, "prompt") /\ promptProfileStore(AbsentRow) /\ EditorAnswer(c) /\ keepAllButRow
DeleteActiveToolBindingProjection(c) ==
  EditorDeletes(c, "tools") /\ toolBindingStore(AbsentRow) /\ EditorAnswer(c) /\ keepAllButRow
DeleteActiveCollaboratorProjection(c) ==
  EditorDeletes(c, "collaborator") /\ collaboratorStore(AbsentRow) /\ EditorAnswer(c) /\ keepAllButRow
DeleteActiveExportedToolProjection(c) ==
  EditorDeletes(c, "export") /\ exportedToolStore(AbsentRow) /\ EditorTo(c, "disable") /\ keepAllButRow

\* The catalog's manifest follows the row in a second call.
SyncExportManifest(c) ==
  /\ EditorAt(c, "enable") \/ EditorAt(c, "disable")
  /\ exportManifest' = IF EditorAt(c, "enable") THEN "enabled" ELSE "disabled"
  /\ EditorAnswer(c)
  /\ UNCHANGED <<releaseStatus, resourceRequests, resourceRow>> /\ keepSkills /\ keepAssets

-----------------------------------------------------------------------------
(* Skills.                                                                 *)

UpsertSkillDefinitionProjection(c, s, version, v) == EditorBegins(c, s, "demote", "skill", version, v)
ActivateSkillDefinitionProjection(c, s, v)       == EditorBegins(c, s, "promote", "skill", "", v)
DeleteActiveSkillDefinitionProjection(c, s)      == EditorBegins(c, s, "delete_all", "skill", "", 0)

\* POST, PUT or PATCH of an agent's skill, in a version the request gives or the first.
upsertAgentSkill(c) == \E s \in ResourceServers, given \in GivenVersions, v \in SkillVersions :
  UpsertSkillDefinitionProjection(c, s, standaloneAgentSubresourceVersion(s, given), v)
activateSkillDefinitionVersion(c) == \E s \in ResourceServers, v \in SkillVersions :
  ActivateSkillDefinitionProjection(c, s, v)
deleteAgentSkill(c) == \E s \in ResourceServers : DeleteActiveSkillDefinitionProjection(c, s)
handleAgentSkills(c) == upsertAgentSkill(c) \/ activateSkillDefinitionVersion(c) \/ deleteAgentSkill(c)

\* The same for a skill without naming its agent.  A new version is the next one stored,
\* which is read before the transaction begins.
shouldCreateSkillVersion == nextSkillDefinitionVersion \in SkillVersions
upsertGlobalSkill(c) == \E s \in ResourceServers, given \in GivenVersions :
  /\ shouldCreateSkillVersion
  /\ UpsertSkillDefinitionProjection(c, s, standaloneAgentSubresourceVersion(s, given), nextSkillDefinitionVersion)

\* The agent is given, or found by looking for one that shows the skill.
resolveGlobalSkillOwner(s) == \E v \in skillDefinitionResourceView(s, "") : v # 0
deleteGlobalSkill(c) == \E s \in ResourceServers :
  resolveGlobalSkillOwner(s) /\ DeleteActiveSkillDefinitionProjection(c, s)
handleSkillResource(c) == upsertGlobalSkill(c) \/ deleteGlobalSkill(c)

\* What the transaction of c sees of a row: its own writes over what is committed.
VisibleSkill(c, v) == IF v \in DOMAIN editor[c].own THEN editor[c].own[v] ELSE skillRow[v]
SkillGen(v)        == IF RowFound(skillRow[v]) THEN skillRow[v].gen ELSE 0
LockedFor(c, v)    == \E d \in ResourceCallers \ {c} : ~ EditorAt(d, "idle") /\ v \in DOMAIN editor[d].own

\* The WHERE and the SET of each statement.
UpdateSelects(stmt, item, v, row) ==
  /\ RowFound(row)
  /\ CASE stmt = "demote"  -> row.status = "stable"
       [] stmt = "others"  -> v # item /\ row.status = "stable"
       [] stmt = "remove"  -> v = item
       [] stmt = "promote" -> v = item
       [] OTHER            -> TRUE
\* Mutant: deleting a skill removes its rows.
DeleteRemovesRows(stmt, row) ==
  CASE stmt \in {"demote", "others"} -> [row EXCEPT !.status = "published"]
    [] stmt \in {"remove", "delete_all"} -> AbsentRow
    [] OTHER                         -> [row EXCEPT !.status = "stable"]

UpdateSets(stmt, row) ==
  CASE stmt \in {"demote", "others"} -> [row EXCEPT !.status = "published"]
    [] stmt = "remove"               -> AbsentRow
    [] stmt = "promote"              -> [row EXCEPT !.status = "stable"]
    [] OTHER                         -> [row EXCEPT !.status = "deprecated", !.card = "deleted"]

\* A statement begins: the rows it selects, each in the form it has then.
SkillStatement(c) ==
  /\ editor[c].pc \in {"demote", "remove", "promote", "others", "delete_all"}
  /\ EditorGoes(c, [editor[c] EXCEPT
       !.pc = "wait", !.then = editor[c].pc,
       !.seen = {<<v, SkillGen(v)>> : v \in {w \in SkillVersions :
                    UpdateSelects(editor[c].pc, editor[c].item, w, VisibleSkill(c, w))}}])
  /\ skillsOverlapped' = (skillsOverlapped \/ \E d \in ResourceCallers \ {c} : ~ EditorAt(d, "idle") /\ editor[d].then # "")
  /\ UNCHANGED <<releaseStatus, resourceRequests, skillRow, lastSkillWrite>> /\ keepAssets /\ keepRows

\* Rows that another transaction changed meanwhile are looked at again; one that was deleted,
\* also when another was put in its place, is passed over.
AffectedSkills(c) ==
  {v \in SkillVersions : <<v, SkillGen(v)>> \in editor[c].seen
                           /\ UpdateSelects(editor[c].then, editor[c].item, v, VisibleSkill(c, v))}

\* Mutant: an activation that found no row goes on.
ActivationIgnoresCount(stmt, affected) ==
  CASE stmt = "demote" -> "remove" [] stmt = "remove" -> "insert" [] stmt = "promote" -> "others" [] OTHER -> "commit"

\* What follows a statement: an activation that found no row ends its transaction and looks
\* for the version elsewhere.
afterStatement(stmt, affected) ==
  CASE stmt = "demote"  -> "remove"
    [] stmt = "remove"  -> "insert"
    [] stmt = "promote" -> IF affected = {} THEN "lookup" ELSE "others"
    [] OTHER            -> "commit"

SkillStatementEnds(c) ==
  /\ EditorAt(c, "wait")
  /\ \A t \in editor[c].seen : ~ LockedFor(c, t[1])
  /\ LET affected == AffectedSkills(c)
         written  == LaidOver([v \in affected |-> UpdateSets(editor[c].then, VisibleSkill(c, v))], editor[c].own) IN
       EditorGoes(c, [editor[c] EXCEPT !.pc = afterStatement(editor[c].then, affected), !.own = written, !.seen = {}])
  /\ UNCHANGED <<releaseStatus, resourceRequests>> /\ keepSkills /\ keepAssets /\ keepRows

\* The insert waits for whoever is writing the key, and fails on a row that is there.
InsertSkill(c) ==
  /\ EditorAt(c, "insert") /\ ~ LockedFor(c, editor[c].item)
  /\ LET v == editor[c].item IN
       IF RowFound(VisibleSkill(c, v)) THEN EditorAnswer(c)
       ELSE EditorGoes(c, [editor[c] EXCEPT !.pc = "commit",
              !.own = LaidOver([w \in {v} |-> [version |-> editor[c].version, status |-> "stable", card |-> "enabled",
                                                gen |-> SkillGen(v) + 1]], @)])
  /\ UNCHANGED <<releaseStatus, resourceRequests>> /\ keepSkills /\ keepAssets /\ keepRows

CommitSkills(c) ==
  /\ EditorAt(c, "commit")
  /\ skillRow' = [v \in SkillVersions |-> VisibleSkill(c, v)]
  /\ lastSkillWrite' = IF editor[c].then = "delete_all" THEN "deleted" ELSE "activated"
  /\ EditorAnswer(c)
  /\ UNCHANGED <<releaseStatus, resourceRequests, skillsOverlapped>> /\ keepAssets /\ keepRows

\* The version to activate is not stored: the one a release has is stored and made active.
ActivateSkillLooksUp(c) ==
  /\ EditorAt(c, "lookup")
  /\ IF skillDefinitionBySkillVersion(editor[c].item)
     THEN EditorGoes(c, [editor[c] EXCEPT !.pc = "demote", !.own = <<>>,
                           !.version = standaloneAgentSubresourceVersion(editor[c].server, "")])
     ELSE EditorAnswer(c)
  /\ UNCHANGED <<releaseStatus, resourceRequests>> /\ keepSkills /\ keepAssets /\ keepRows

-----------------------------------------------------------------------------
(* Assets and activation of a version.                                     *)

\* version is the active version, "" if none.
NewAsset == [status |-> "active", version |-> "", default |-> ""]

handleAgentCreate(c) == \E s \in ResourceServers : EditorBegins(c, s, "create_asset", "asset", "", <<>>)
handleAgentPatch(c) == \E s \in ResourceServers, status \in {"active", "disabled", "unknown"} :
  EditorBegins(c, s, "patch_asset", "asset", "", [status |-> status])
handleAgentPatchVersion(c) == \E s \in ResourceServers, v \in AgentVersions :
  EditorBegins(c, s, "patch_asset", "asset", "", [version |-> v])
handleAgentDelete(c) == \E s \in ResourceServers :
  EditorBegins(c, s, "patch_asset", "asset", "", [status |-> "deleted"])

validAgentAssetStatus(status) == status \in {"active", "disabled", "deleted"}

SaveAssetInMemory(c, asset) ==
  /\ assetMem' = [assetMem EXCEPT ![editor[c].server] = asset]
  /\ EditorGoes(c, [editor[c] EXCEPT !.pc = "asset_row", !.item = asset])
NotSaved(c) == EditorAnswer(c) /\ UNCHANGED assetMem

CreateAgentAssetForTenant(c) ==
  /\ EditorAt(c, "create_asset")
  /\ LET asset == GetAgentAsset(editor[c].server) IN
       IF RowFound(asset) /\ asset.status # "deleted" THEN NotSaved(c) ELSE SaveAssetInMemory(c, NewAsset)
  /\ UNCHANGED <<releaseStatus, resourceRequests, assetRow, registryDefault>> /\ keepSkills /\ keepRows

PatchAgentAssetForTenant(c) ==
  /\ EditorAt(c, "patch_asset")
  /\ LET asset == GetAgentAsset(editor[c].server)
         next  == LaidOver(editor[c].item, asset) IN
       IF ~ RowFound(asset) \/ ~ validAgentAssetStatus(next.status) THEN NotSaved(c) ELSE SaveAssetInMemory(c, next)
  /\ UNCHANGED <<releaseStatus, resourceRequests, assetRow, registryDefault>> /\ keepSkills /\ keepRows

\* POST versions/v/activate or restore, or activate of a resource, which must be found in v.
stableAgentVersionRelease(v) == v \in ReleasedVersions /\ releaseStatus[v] = "stable"
activateStableAgentVersion(c) == \E s \in ResourceServers, v \in AgentVersions :
  /\ stableAgentVersionRelease(v)
  /\ EditorBegins(c, s, "ensure_asset", "asset", v, <<>>)
activateAgentSkillVersion(c) == \E s \in ResourceServers, v \in AgentVersions :
  /\ stableAgentVersionRelease(v) /\ 0 \notin skillDefinitionResourceView(s, v)
  /\ EditorBegins(c, s, "ensure_asset", "asset", v, <<>>)

EnsureAgentAssetVersionForTenant(c) ==
  /\ EditorAt(c, "ensure_asset")
  /\ LET asset == GetAgentAsset(editor[c].server)
         found == IF RowFound(asset) THEN asset ELSE NewAsset IN
       SaveAssetInMemory(c, [found EXCEPT !.version = editor[c].version, !.default = editor[c].version,
                                          !.status = IF @ = "deleted" THEN "active" ELSE @])
  /\ UNCHANGED <<releaseStatus, resourceRequests, assetRow, registryDefault>> /\ keepSkills /\ keepRows

saveAgentAsset(c) ==
  /\ EditorAt(c, "asset_row")
  /\ assetRow' = editor[c].item
  /\ IF editor[c].version # "" THEN EditorTo(c, "set_default") ELSE EditorAnswer(c)
  /\ UNCHANGED <<releaseStatus, resourceRequests, assetMem, registryDefault>> /\ keepSkills /\ keepRows

SetDefaultForTenant(c) ==
  /\ EditorAt(c, "set_default")
  /\ registryDefault' = [registryDefault EXCEPT ![editor[c].server] = editor[c].version]
  /\ EditorAnswer(c)
  /\ UNCHANGED <<releaseStatus, resourceRequests, assetMem, assetRow>> /\ keepSkills /\ keepRows

-----------------------------------------------------------------------------

\* The database fails, or ends a transaction that waits in a circle: what the transaction
\* wrote is gone, what was written before stays.
ResourceStoreFails(c) ==
  /\ ~ EditorAt(c, "idle") /\ EditorAnswer(c)
  /\ UNCHANGED <<releaseStatus, resourceRequests>> /\ keepSkills /\ keepAssets /\ keepRows

\* A release and its resource rows change their status in one transaction (PackageRelease).
UpdateReleaseStatus ==
  /\ \E v \in ReleasedVersions, next \in {"stable", "deprecated"} :
       /\ <<releaseStatus[v], next>> \in {<<"published", "stable">>, <<"stable", "deprecated">>}
       /\ releaseStatus' = [releaseStatus EXCEPT ![v] = next]
  /\ UNCHANGED <<editor, resourceRequests>> /\ keepSkills /\ keepAssets /\ keepRows

EditorStep(c) ==
  \/ handleAgentPromptProfile(c) \/ handleAgentToolBindings(c) \/ handleAgentCollaborators(c)
  \/ handleAgentExportedTools(c) \/ handleAgentResourceDelete(c) \/ upsertStandalonePromptProfile(c)
  \/ UpsertPromptProfileProjection(c) \/ UpsertToolBindingProjection(c) \/ UpsertCollaboratorProjection(c)
  \/ UpsertExportedToolProjection(c) \/ DeleteActivePromptProfileProjection(c) \/ DeleteActiveToolBindingProjection(c)
  \/ DeleteActiveCollaboratorProjection(c) \/ DeleteActiveExportedToolProjection(c) \/ SyncExportManifest(c)
  \/ handleAgentSkills(c) \/ handleSkillResource(c)
  \/ SkillStatement(c) \/ SkillStatementEnds(c) \/ InsertSkill(c) \/ CommitSkills(c) \/ ActivateSkillLooksUp(c)
  \/ handleAgentCreate(c) \/ handleAgentPatch(c) \/ handleAgentPatchVersion(c) \/ handleAgentDelete(c)
  \/ activateStableAgentVersion(c) \/ activateAgentSkillVersion(c) \/ CreateAgentAssetForTenant(c) \/ PatchAgentAssetForTenant(c)
  \/ EnsureAgentAssetVersionForTenant(c) \/ saveAgentAsset(c) \/ SetDefaultForTenant(c) \/ ResourceStoreFails(c)

ResourceNext == (\E c \in ResourceCallers : EditorStep(c)) \/ UpdateReleaseStatus
ResourceSpec == ResourceInit /\ [][ResourceNext]_resourceVars

-----------------------------------------------------------------------------
(* Properties.                                                             *)

\* Once a version of a skill was published or activated the skill has an active version until
\* it is deleted, however the transactions of several requests interleave and wherever one of
\* them ends early; and it has one only, unless two changes of it ran at the same time
\* (UpsertSkillDefinitionProjection, ActivateSkillDefinitionProjection).
SkillStaysActive ==
  /\ lastSkillWrite = "activated" => ListActiveSkillDefinitionProjections # {}
  /\ ~ skillsOverlapped => Cardinality(ListActiveSkillDefinitionProjections) <= 1

\* No stored version of a skill is ever lost: a request that replaces it puts a new row in the
\* place of the one it deletes in the same transaction, or leaves the row as it was, and
\* neither an activation, a deletion of the skill nor a statement that fails takes one away
\* (UpsertSkillDefinitionProjection, DeleteActiveSkillDefinitionProjection): the version to go
\* back to is still there.
SkillVersionsKept ==
  [][\A v \in SkillVersions : RowFound(skillRow[v]) => RowFound(skillRow'[v])]_resourceVars

=============================================================================
