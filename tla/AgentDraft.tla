---------------------------- MODULE AgentDraft ----------------------------
(***************************************************************************)
(* Agent package drafts and proposals (internal/agentdef/package, its       *)
(* postgres store, the commands and the handlers of the API): a draft is    *)
(* edited, validated, reviewed and published, directly or through a         *)
(* proposal.  Each server keeps drafts, proposals and releases in memory    *)
(* behind one mutex, writes them to the shared database, and reads memory   *)
(* first: the copies of two servers part.  Every call of the database is a  *)
(* step, and it may fail.                                                   *)
(***************************************************************************)
EXTENDS AgentCompiler

CONSTANTS
  DraftServers,     \* server processes
  Authors,          \* requests handled at the same time
  DraftIds,         \* drafts, each of the version DraftVersion gives
  DraftVersion,
  NewSources,       \* sources a draft is created with
  Edits,            \* edits of a draft
  PluginManifests,  \* manifests plugin services publish
  DraftTools,       \* ids of exported and plugin tools
  InitialDrafts,    \* what the database may hold at first
  MaxDraftRequests  \* requests handled in all (bound, model checking only)

VARIABLES
  draftMem,         \* draftMem[s][d]: the draft in the memory of server s
  draftRow,         \* agent_package_drafts
  draftProjection,  \* the rows of the draft in the five resource tables
  proposalMem,      \* proposalMem[s]: the proposal in the memory of server s
  proposalRow,      \* agent_package_proposals
  draftMutex,       \* draftMutex[s]: who holds the service's mutex, {} if nobody
  releaseMem,       \* versions server s knows to be released
  releaseRow,       \* releaseRow[v]: the source and the definition released as v
  draftRegistry,    \* draftRegistry[s][v]: the definition server s registered as v
  draftCatalog,     \* the live tool catalog: status of each exported or plugin tool
  author,           \* author[c]: where the request is, and its locals
  draftRequests,    \* requests received so far
  approvedOnce      \* history: an approval of the proposal was written

draftVars ==
  <<draftMem, draftRow, draftProjection, proposalMem, proposalRow, draftMutex, releaseMem, releaseRow,
    draftRegistry, draftCatalog, author, draftRequests, approvedOnce>>

DraftVersions == {DraftVersion[d] : d \in DraftIds}
NoDraft       == [status |-> "absent"]
IdleAuthor    == [pc |-> "idle"]

Found(row)    == row.status # "absent"

EditOps == {"prompt_profile", "tool_bindings", "strategies", "collaborators", "collaborator",
            "collaborator_remove", "exports", "exported_tool", "exported_tool_remove", "skill", "skill_remove"}

\* The denied tools of a source and of its strategies are lists.
DeniedListed(part) == "denied" \in DOMAIN part /\ part.denied \in Seq(STRING)
StrategiesListed(strategies) == "tools" \in DOMAIN strategies /\ DeniedListed(strategies.tools)
SourceListed(source) ==
  /\ {"tools", "strategies"} \subseteq DOMAIN source
  /\ DeniedListed(source.tools) /\ StrategiesListed(source.strategies)
DraftListed(draft) ==
  "status" \in DOMAIN draft /\ (Found(draft) => "source" \in DOMAIN draft /\ SourceListed(draft.source))
ProposalNamed(proposal) ==
  "status" \in DOMAIN proposal /\ (Found(proposal) => "draft" \in DOMAIN proposal /\ proposal.draft \in DraftIds)

ASSUME DraftAssumption ==
  /\ DraftIds \subseteq DOMAIN DraftVersion /\ MaxDraftRequests \in Nat /\ DelegateTool \in STRING
  /\ \A s \in NewSources : DOMAIN s = DOMAIN EmptySource /\ SourceListed(s)
  /\ \A e \in Edits :
       /\ e.op \in EditOps
       /\ e.op = "tool_bindings" => DeniedListed(e.tools)
       /\ e.op = "strategies" /\ "tools" \in DOMAIN e.patch /\ "denied" \in DOMAIN e.patch.tools =>
            e.patch.tools.denied \in Seq(STRING)
  /\ \A m \in PluginManifests : StrategiesListed(m.strategies)
  /\ \A init \in InitialDrafts :
       /\ init.draft = [d \in DraftIds |-> init.draft[d]] /\ ProposalNamed(init.proposal)
       /\ \A d \in DraftIds : DraftListed(init.draft[d])

-----------------------------------------------------------------------------
(* Stores and memory.                                                      *)

\* Memory first, then the database.
getDraft(s, d) == IF Found(draftMem[s][d]) THEN draftMem[s][d] ELSE draftRow[d]
getProposal(s) == IF Found(proposalMem[s]) THEN proposalMem[s] ELSE proposalRow

SaveDraftRow(d, draft)        == draftRow' = [draftRow EXCEPT ![d] = draft]
DeleteProjections(d)          == draftProjection' = [draftProjection EXCEPT ![d] = NoDraft]
SaveProposal(proposal)        == proposalRow' = proposal

\* What the resource tables show of a draft: its compiled definition, or, when it does not
\* compile, its own fields without its skills.
projectionOf(draft) ==
  LET compiled == Compile(draft.source) IN
  [status |-> draft.status,
   skills |-> IF Compiled(compiled) THEN compiled.skillDefinitions ELSE <<>>,
   tools  |-> IF Compiled(compiled) THEN compiled.tools ELSE draft.source.tools]

\* Plain inserts: they fail on rows of another save.
saveAgentResourceProjections(d, draft) ==
  IF Found(draftProjection[d]) THEN UNCHANGED draftProjection
  ELSE draftProjection' = [draftProjection EXCEPT ![d] = projectionOf(draft)]

\* One transaction: the release, its definition and its resource rows; a version that is
\* there already is overwritten.
SaveRelease(v, source, definition) ==
  releaseRow' = [releaseRow EXCEPT ![v] = [status |-> "published", source |-> source, definition |-> definition]]

ListReleases == {v \in DraftVersions : Found(releaseRow[v])}

DraftInit ==
  /\ \E init \in InitialDrafts : draftRow = init.draft /\ proposalRow = init.proposal
  /\ draftMem        = [s \in DraftServers |-> [d \in DraftIds |-> NoDraft]]
  /\ draftProjection = [d \in DraftIds |-> IF Found(draftRow[d]) THEN projectionOf(draftRow[d]) ELSE NoDraft]
  /\ proposalMem     = [s \in DraftServers |-> NoDraft]
  /\ draftMutex      = [s \in DraftServers |-> {}]
  /\ releaseMem      = [s \in DraftServers |-> {}]
  /\ releaseRow      = [v \in DraftVersions |-> NoDraft]
  /\ draftRegistry   = [s \in DraftServers |-> [v \in DraftVersions |-> CompileError]]
  /\ draftCatalog    = [t \in DraftTools |-> "absent"]
  /\ author          = [c \in Authors |-> IdleAuthor]
  /\ draftRequests   = 0
  /\ approvedOnce    = (proposalRow.status \in {"approved", "published"})

-----------------------------------------------------------------------------
(* Edits of a source.  "read" is the draft as the request read it, "now" the *)
(* one the service patches.                                                *)

replaceBy(list, item, Same(_)) ==
  LET same == {i \in DOMAIN list : Same(list[i])} IN
  IF same = {} THEN Append(list, item) ELSE [i \in DOMAIN list |-> IF i \in same THEN item ELSE list[i]]

upsertCollaborator(list, r) == replaceBy(list, r, LAMBDA x : x.agent = r.agent)
removeCollaborator(list, agent) == SelectSeq(list, LAMBDA r : r.agent # agent)
removeExportedTool(list, tool)  == SelectSeq(list, LAMBDA t : t.tool # tool)
upsertExportedTool(list, t) == replaceBy(list, t, LAMBDA x : x.tool = t.tool)
upsertSkillDefinition(list, skill) ==
  LET same == {i \in DOMAIN list : list[i].skill = skill.skill /\ list[i].version = skill.version} IN
  IF same = {} THEN Append(list, skill) ELSE [list EXCEPT ![Min(same)] = skill]
upsertSkillRef(refs, r)     == replaceBy(refs, r, LAMBDA x : x.skill = r.skill)
removeSkillDefinition(list, skill, version) ==
  SelectSeq(list, LAMBDA x : ~ (x.skill = skill /\ version \in {"", x.version}))
removeSkillRef(refs, skill, version) ==
  SelectSeq(refs, LAMBDA x : ~ (x.skill = skill /\ version \in {"", x.version}))

skillDefinitionFromInput(e) ==
  [skill |-> e.skill, version |-> e.version, status |-> "", risk |-> "low", owner |-> e.skill, resources |-> TRUE]

UpsertSkill(source, e) ==
  [source EXCEPT
     !.skillDefinitions = upsertSkillDefinition(@, skillDefinitionFromInput(e)),
     !.skills = upsertSkillRef(@, [skill |-> e.skill, version |-> e.version])]

RemoveSkill(source, e) ==
  [source EXCEPT
     !.skillDefinitions = removeSkillDefinition(@, e.skill, e.version),
     !.skills = removeSkillRef(@, e.skill, e.version)]

\* Objects are merged, other values replaced.
mergeFields(base, patch) ==
  [f \in DOMAIN base |-> IF f \in DOMAIN patch THEN patch[f] ELSE base[f]]
mergeJSONObjects(base, patch) ==
  [f \in DOMAIN base |-> IF f \in DOMAIN patch THEN mergeFields(base[f], patch[f]) ELSE base[f]]

\* The prompt fields and the bindings of a draft are patched by writing its whole source.
patchPromptProfileDraft(source, e) ==
  [source EXCEPT !.prompt = e.prompt, !.agentsMD = e.agentsMD]

patched(e, read, now) ==
  CASE e.op = "prompt_profile"       -> patchPromptProfileDraft(read, e)
    [] e.op = "tool_bindings"        -> [read EXCEPT !.tools = e.tools]
    [] e.op = "strategies"           -> [now EXCEPT !.strategies = mergeJSONObjects(read.strategies, e.patch)]
    [] e.op = "collaborators"        -> [now EXCEPT !.collaborators = e.list]
    [] e.op = "collaborator"         -> [now EXCEPT !.collaborators = upsertCollaborator(@, e.ref)]
    [] e.op = "collaborator_remove"  -> [now EXCEPT !.collaborators = removeCollaborator(@, e.agent)]
    [] e.op = "exports"              -> [now EXCEPT !.exports = e.list]
    [] e.op = "exported_tool"        -> [now EXCEPT !.exports = upsertExportedTool(@, e.tool)]
    [] e.op = "exported_tool_remove" -> [now EXCEPT !.exports = removeExportedTool(@, e.id)]
    [] e.op = "skill"                -> UpsertSkill(now, e)
    [] e.op = "skill_remove"         -> RemoveSkill(now, e)

\* Edits whose request reads the draft first.
ReadsFirst(e) == e.op \in {"prompt_profile", "tool_bindings", "strategies", "exports", "exported_tool_remove"}

-----------------------------------------------------------------------------
(* The live catalog, written one manifest at a time: <<tool, status>>.     *)

syncAgentExportedTools(exports) ==
  LET live == SelectSeq(exports, LAMBDA t : t.status # "disabled") IN
  [i \in DOMAIN live |-> <<live[i].tool, live[i].status>>]

disableAgentExportedTool(tool) == <<<<tool, "disabled">>>>

disableRemovedAgentExportedTools(before, after) ==
  LET kept == {t.tool : t \in {x \in ToSet(after) : x.status # "disabled"}}
      gone == SelectSeq(before, LAMBDA t : t.tool # "" /\ t.tool \notin kept) IN
  [i \in DOMAIN gone |-> <<gone[i].tool, "disabled">>]

ToolManifests(m) == [i \in DOMAIN m.tools |-> <<m.tools[i].tool, "enabled">>]

\* What an edit writes to the catalog once the draft is saved; nothing if it does not compile.
syncDraftExportedTools(e, read, draft) ==
  LET compiled == Compile(draft.source) IN
  CASE e.op = "exported_tool_remove" -> disableAgentExportedTool(e.id)
    [] e.op = "exported_tool" /\ Compiled(compiled) -> syncAgentExportedTools(compiled.exports)
    [] e.op = "exports" /\ Compiled(compiled) ->
         disableRemovedAgentExportedTools(read.exports, compiled.exports) \o syncAgentExportedTools(compiled.exports)
    [] OTHER -> <<>>

-----------------------------------------------------------------------------
(* Requests.                                                               *)

AuthorAt(c, pc) == author[c].pc = pc
AuthorGoes(c, r) == author' = [author EXCEPT ![c] = r]
AuthorTo(c, pc)  == AuthorGoes(c, [author[c] EXCEPT !.pc = pc])
AuthorAnswer(c)  == AuthorGoes(c, IdleAuthor)

MutexFree(c)   == draftMutex[author[c].server] = {}
MutexTaken(c)  == draftMutex' = [draftMutex EXCEPT ![author[c].server] = {c}]
MutexLeft(c)   == draftMutex' = [draftMutex EXCEPT ![author[c].server] = @ \ {c}]

storesUnchanged ==
  UNCHANGED <<draftMem, draftRow, draftProjection, proposalMem, proposalRow, releaseMem, releaseRow,
              draftRegistry, draftCatalog, approvedOnce>>
only(others) == UNCHANGED <<draftRequests, others>>

\* read: the draft as read; draft: the one being written; todo: catalog writes to come;
\* via: the proposal is being published; edit: the edit, or [op |-> the other request].
AuthorBegins(c, s, d, edit, pc, via) ==
  /\ AuthorAt(c, "idle") /\ draftRequests < MaxDraftRequests
  /\ draftRequests' = draftRequests + 1
  /\ AuthorGoes(c, [pc |-> pc, server |-> s, id |-> d, edit |-> edit, read |-> EmptySource, draft |-> NoDraft,
                    todo |-> <<>>, via |-> via, proposal |-> NoDraft])
  /\ UNCHANGED draftMutex /\ storesUnchanged

Op(op) == [op |-> op]

\* Draft ids are unique: nobody else creates this one.
NewDraft(d) ==
  /\ ~ Found(draftRow[d]) /\ \A s \in DraftServers : ~ Found(draftMem[s][d])
  /\ {x \in Authors : ~ AuthorAt(x, "idle") /\ author[x].id = d} = {}

\* POST a draft, or agent.package.publish without one, which also validates and publishes.
\* A source of behaviour in the metadata, or of a plugin whose provider cannot be used, is
\* refused before the draft exists.
packageDraftCreate(c) ==
  \E s \in DraftServers, d \in DraftIds, source \in NewSources, op \in {"create", "create_and_publish"} :
    /\ ValidateSourceMetadata(source.metadata)
    /\ source.kind = "plugin_service" => ValidatePluginSourceMetadata(source.metadata)
    /\ NewDraft(d)
    /\ AuthorBegins(c, s, d, [op |-> op, source |-> source], "create", FALSE)

packageDraftEdit(c) ==
  \E s \in DraftServers, d \in DraftIds, e \in Edits :
    AuthorBegins(c, s, d, e, IF ReadsFirst(e) THEN "read" ELSE "lock", FALSE)

packageDraftValidate(c) == \E s \in DraftServers, d \in DraftIds :
  AuthorBegins(c, s, d, Op("validate"), "plugin", FALSE)
packageReview(c) == \E s \in DraftServers, d \in DraftIds :
  AuthorBegins(c, s, d, Op("review"), "plugin", FALSE)
packagePublish(c) == \E s \in DraftServers, d \in DraftIds :
  AuthorBegins(c, s, d, Op("publish"), "plugin", FALSE)
\* One proposal is followed.
packageProposalCreate(c) == \E s \in DraftServers, d \in DraftIds :
  /\ ~ Found(proposalRow) /\ \A x \in DraftServers : ~ Found(proposalMem[x])
  /\ {x \in Authors : ~ AuthorAt(x, "idle") /\ author[x].edit.op = "propose"} = {}
  /\ AuthorBegins(c, s, d, Op("propose"), "plugin", FALSE)
packageProposalDecide(c) == \E s \in DraftServers, d \in DraftIds, op \in {"submit", "approve", "reject"} :
  AuthorBegins(c, s, d, Op(op), "proposal", FALSE)

\* The proposal names the draft that is published.
packageProposalPublish(c) == \E s \in DraftServers :
  /\ Found(getProposal(s))
  /\ AuthorBegins(c, s, getProposal(s).draft, Op("publish"), "plugin", TRUE)

-----------------------------------------------------------------------------
(* Steps of a draft.                                                       *)

CreateDraft(c) ==
  /\ AuthorAt(c, "create")
  /\ LET draft == [status |-> "draft", source |-> author[c].edit.source] IN
       /\ draftMem' = [draftMem EXCEPT ![author[c].server][author[c].id] = draft]
       /\ AuthorGoes(c, [author[c] EXCEPT !.pc = "row", !.draft = draft])
  /\ only(<<draftMutex, draftRow, draftProjection, proposalMem, proposalRow, releaseMem, releaseRow,
            draftRegistry, draftCatalog, approvedOnce>>)

\* The draft of a validation, a review, a publication or a proposal is read once to see
\* whether the provider of a plugin source can be used: it and its connection may have been
\* disabled or become unhealthy at any time.
validateDraftPluginSourceForTenant(c) ==
  /\ AuthorAt(c, "plugin")
  /\ \E usable \in BOOLEAN : LET draft == getDraft(author[c].server, author[c].id) IN
       IF ~ Found(draft) \/ (draft.source.kind = "plugin_service" /\ ~ usable)
       THEN AuthorAnswer(c)
       ELSE AuthorTo(c, IF author[c].via THEN "proposal"
                        ELSE IF author[c].edit.op = "publish" THEN "lock" ELSE "read")
  /\ UNCHANGED <<draftMutex, draftRequests>> /\ storesUnchanged

readyForReview(draft)  == draft.status \in {"validated", "evaluated"}
readyToPublish(draft)  == draft.status \in {"validated", "evaluated", "reviewed"}

\* The draft is read before the mutex is taken: to be compiled, to be compared with, or as
\* the base of an edit.
ReadDraft(c) ==
  /\ AuthorAt(c, "read")
  /\ LET draft == getDraft(author[c].server, author[c].id)
         op    == author[c].edit.op IN
       IF \/ ~ Found(draft)
          \/ op = "validate" /\ ~ Compiled(Compile(draft.source))
          \/ op = "review" /\ ~ readyForReview(draft)
          \/ op = "prompt_profile" /\ ~ ValidateSourceMetadata(draft.source.metadata)
       THEN AuthorAnswer(c)
       ELSE AuthorGoes(c, [author[c] EXCEPT !.pc = IF op = "propose" THEN "propose" ELSE "lock",
                                            !.read = draft.source])
  /\ UNCHANGED <<draftMutex, draftRequests>> /\ storesUnchanged

\* What the request does to the draft the mutex protects.
patch(c, draft) ==
  CASE author[c].edit.op \in {"validate", "create_and_publish"} -> [draft EXCEPT !.status = "validated"]
    [] author[c].edit.op = "review"   -> [draft EXCEPT !.status = "reviewed"]
    [] OTHER -> [draft EXCEPT !.source = patched(author[c].edit, author[c].read, @)]

\* Under the mutex: the draft is changed in memory and the mutex kept for the writes, or a
\* publication looks for its version in memory first.
UnderMutex(c, draft) ==
  IF author[c].edit.op = "publish"
  THEN /\ IF readyToPublish(draft) /\ DraftVersion[author[c].id] \notin releaseMem[author[c].server]
          THEN AuthorGoes(c, [author[c] EXCEPT !.pc = "versions", !.draft = draft])
          ELSE AuthorAnswer(c)
       /\ UNCHANGED <<draftMem, draftMutex>>
  ELSE /\ draftMem' = [draftMem EXCEPT ![author[c].server][author[c].id] = patch(c, draft)]
       /\ AuthorGoes(c, [author[c] EXCEPT !.pc = "row", !.draft = patch(c, draft)])
       /\ MutexTaken(c)

\* A draft that is not in memory is read from the database without the mutex.
patchForTenant(c) ==
  /\ AuthorAt(c, "lock") /\ MutexFree(c)
  /\ LET draft == draftMem[author[c].server][author[c].id] IN
       IF Found(draft) THEN UnderMutex(c, draft)
       ELSE AuthorTo(c, "fetch") /\ UNCHANGED <<draftMem, draftMutex>>
  /\ only(<<draftRow, draftProjection, proposalMem, proposalRow, releaseMem, releaseRow, draftRegistry,
            draftCatalog, approvedOnce>>)

patchFetches(c) ==
  /\ AuthorAt(c, "fetch")
  /\ IF Found(draftRow[author[c].id])
     THEN AuthorGoes(c, [author[c] EXCEPT !.pc = "relock", !.draft = draftRow[author[c].id]])
     ELSE AuthorAnswer(c)
  /\ UNCHANGED <<draftMutex, draftRequests>> /\ storesUnchanged

patchRelocks(c) ==
  /\ AuthorAt(c, "relock") /\ MutexFree(c)
  /\ UnderMutex(c, author[c].draft)
  /\ only(<<draftRow, draftProjection, proposalMem, proposalRow, releaseMem, releaseRow, draftRegistry,
            draftCatalog, approvedOnce>>)

\* The versions in the database are listed without the mutex.
releaseVersionExistsLocked(c) ==
  /\ AuthorAt(c, "versions")
  /\ IF DraftVersion[author[c].id] \in ListReleases THEN AuthorAnswer(c) ELSE AuthorTo(c, "publish")
  /\ UNCHANGED <<draftMutex, draftRequests>> /\ storesUnchanged

\* The draft that is published is the one read before the versions were listed.
PublishDraft(c) ==
  /\ AuthorAt(c, "publish") /\ MutexFree(c)
  /\ LET draft == [author[c].draft EXCEPT !.status = "published"] IN
       IF ~ Compiled(Compile(draft.source))
       THEN AuthorAnswer(c) /\ UNCHANGED <<draftMem, releaseMem, draftMutex>>
       ELSE /\ releaseMem' = [releaseMem EXCEPT ![author[c].server] = @ \cup {DraftVersion[author[c].id]}]
            /\ draftMem' = [draftMem EXCEPT ![author[c].server][author[c].id] = draft]
            /\ AuthorGoes(c, [author[c] EXCEPT !.pc = "release", !.draft = draft])
            /\ MutexTaken(c)
  /\ only(<<draftRow, draftProjection, proposalMem, proposalRow, releaseRow, draftRegistry, draftCatalog,
            approvedOnce>>)

PublishSaves(c) ==
  /\ AuthorAt(c, "release")
  /\ SaveRelease(DraftVersion[author[c].id], author[c].draft.source, Compile(author[c].draft.source))
  /\ AuthorTo(c, "row")
  /\ only(<<draftMem, draftRow, draftProjection, proposalMem, proposalRow, releaseMem, draftRegistry,
            draftCatalog, draftMutex, approvedOnce>>)

\* The row of the draft, then the deletion of its resource rows, then their insertion.
SaveDraft(c) ==
  /\ AuthorAt(c, "row")
  /\ SaveDraftRow(author[c].id, author[c].draft)
  /\ AuthorTo(c, "delete")
  /\ only(<<draftMem, draftProjection, proposalMem, proposalRow, releaseMem, releaseRow, draftRegistry,
            draftCatalog, draftMutex, approvedOnce>>)

SaveDraftDeletes(c) ==
  /\ AuthorAt(c, "delete")
  /\ DeleteProjections(author[c].id)
  /\ AuthorTo(c, "insert")
  /\ only(<<draftMem, draftRow, proposalMem, proposalRow, releaseMem, releaseRow, draftRegistry,
            draftCatalog, draftMutex, approvedOnce>>)

\* Where the request goes once its draft is saved: the steps of agent.package.publish
\* without a draft follow each other, a publication registers what it released.
afterSave(c) ==
  CASE author[c].edit.op = "create_and_publish" /\ author[c].draft.status = "draft" ->
         [author[c] EXCEPT !.pc = IF Compiled(Compile(author[c].draft.source)) THEN "lock" ELSE "idle"]
    [] author[c].edit.op = "create_and_publish" /\ author[c].draft.status # "draft" ->
         [author[c] EXCEPT !.pc = "lock", !.edit = Op("publish")]
    [] author[c].edit.op = "publish" -> [author[c] EXCEPT !.pc = IF author[c].via THEN "proposal" ELSE "register"]
    [] author[c].edit.op = "plugin_sync" ->
         [author[c] EXCEPT !.pc = "sync", !.todo = ToolManifests(author[c].edit.manifest)]
    [] author[c].edit.op \in {"create", "validate", "review"} -> IdleAuthor
    [] OTHER -> [author[c] EXCEPT !.pc = "sync",
                   !.todo = syncDraftExportedTools(author[c].edit, author[c].read, author[c].draft)]

SaveDraftInserts(c) ==
  /\ AuthorAt(c, "insert")
  /\ saveAgentResourceProjections(author[c].id, author[c].draft)
  /\ MutexLeft(c)
  /\ AuthorGoes(c, LET next == afterSave(c) IN
                   IF Found(draftProjection[author[c].id]) \/ next.pc = "idle" THEN IdleAuthor ELSE next)
  /\ only(<<draftMem, draftRow, proposalMem, proposalRow, releaseMem, releaseRow, draftRegistry,
            draftCatalog, approvedOnce>>)

\* The draft is read again, compiled again and registered as the released version.
releaseAndRegisterDraft(c) ==
  /\ AuthorAt(c, "register")
  /\ LET draft    == getDraft(author[c].server, author[c].id)
         compiled == Compile(draft.source) IN
       IF ~ Found(draft) \/ ~ Compiled(compiled) THEN AuthorAnswer(c) /\ UNCHANGED draftRegistry
       ELSE /\ draftRegistry' = [draftRegistry EXCEPT ![author[c].server][DraftVersion[author[c].id]] = compiled]
            /\ AuthorGoes(c, [author[c] EXCEPT !.pc = "sync", !.todo = syncAgentExportedTools(compiled.exports)])
  /\ only(<<draftMem, draftRow, draftProjection, proposalMem, proposalRow, releaseMem, releaseRow,
            draftCatalog, draftMutex, approvedOnce>>)

\* One manifest of the catalog after the other.  A plugin sync goes on with its hooks, which
\* no draft depends on (module Hooks, syncAgentPluginHookManifests).
SyncCatalog(c) ==
  /\ AuthorAt(c, "sync")
  /\ IF author[c].todo = <<>>
     THEN AuthorAnswer(c) /\ UNCHANGED draftCatalog
     ELSE /\ draftCatalog' = [draftCatalog EXCEPT ![Head(author[c].todo)[1]] = Head(author[c].todo)[2]]
          /\ AuthorGoes(c, [author[c] EXCEPT !.todo = Tail(@)])
  /\ only(<<draftMem, draftRow, draftProjection, proposalMem, proposalRow, releaseMem, releaseRow,
            draftRegistry, draftMutex, approvedOnce>>)

\* A step of the database fails: the request ends, what memory and the database hold stays.
DraftStoreFails(c) ==
  /\ author[c].pc \in {"fetch", "versions", "row", "delete", "insert", "release", "proposal_row", "sync"}
  /\ AuthorAnswer(c) /\ MutexLeft(c)
  /\ UNCHANGED draftRequests /\ storesUnchanged

-----------------------------------------------------------------------------
(* Plugin services.                                                        *)

\* The manifest comes with the request or from the plugin service; when it cannot be
\* fetched only the tools of the provider's catalog are taken over and no draft is made.
agentPluginSync(c) ==
  \E s \in DraftServers, d \in DraftIds, m \in PluginManifests :
    LET source == BuildSource(m, "plugin", EmptySource) IN
    /\ Compiled(source)
    /\ NewDraft(d)
    /\ AuthorBegins(c, s, d, [op |-> "plugin_sync", source |-> source, manifest |-> m], "create", FALSE)

agentPluginSyncToolCatalogFallback(c) ==
  \E s \in DraftServers, d \in DraftIds, m \in PluginManifests :
    /\ AuthorAt(c, "idle") /\ draftRequests < MaxDraftRequests
    /\ draftRequests' = draftRequests + 1
    /\ AuthorGoes(c, [pc |-> "sync", server |-> s, id |-> d, edit |-> Op("fallback"), read |-> EmptySource,
                      draft |-> NoDraft, todo |-> ToolManifests(m), via |-> FALSE, proposal |-> NoDraft])
    /\ UNCHANGED draftMutex /\ storesUnchanged

-----------------------------------------------------------------------------
(* Proposals.                                                              *)

CreateProposal(c) ==
  /\ AuthorAt(c, "propose")
  /\ LET proposal == [status |-> "draft", draft |-> author[c].id] IN
       /\ proposalMem' = [proposalMem EXCEPT ![author[c].server] = proposal]
       /\ AuthorGoes(c, [author[c] EXCEPT !.pc = "proposal_row", !.proposal = proposal])
  /\ only(<<draftMem, draftRow, draftProjection, proposalRow, releaseMem, releaseRow, draftRegistry,
            draftCatalog, draftMutex, approvedOnce>>)

\* Mutant: a proposal is published whatever its status.
TransitionPublishAny(op, via, released, status) ==
  CASE op = "submit"  -> IF status = "draft" THEN "pending_review" ELSE "refused"
    [] op = "approve" -> IF status = "pending_review" THEN "approved" ELSE "refused"
    [] op = "reject"  -> IF status = "pending_review" THEN "rejected" ELSE "refused"
    [] OTHER          -> "published"

\* The next status of a proposal; "released" says that its draft has been published, after
\* which its status is not looked at again.
proposalTransition(op, via, released, status) ==
  CASE op = "submit"  -> IF status = "draft" THEN "pending_review" ELSE "refused"
    [] op = "approve" -> IF status = "pending_review" THEN "approved" ELSE "refused"
    [] op = "reject"  -> IF status = "pending_review" THEN "rejected" ELSE "refused"
    [] OTHER          -> IF released \/ status = "approved" THEN "published" ELSE "refused"

\* Read, checked and changed in a copy; a publication first publishes the draft.
updateProposalForTenant(c) ==
  /\ AuthorAt(c, "proposal")
  /\ LET proposal == getProposal(author[c].server)
         released == Found(author[c].draft)
         next     == IF Found(proposal)
                     THEN proposalTransition(author[c].edit.op, author[c].via, released, proposal.status)
                     ELSE "refused" IN
       CASE next = "refused" -> AuthorAnswer(c)
         [] next = "published" /\ ~ released -> AuthorTo(c, "lock")
         [] OTHER -> AuthorGoes(c, [author[c] EXCEPT !.pc = "proposal_write",
                                                     !.proposal = [proposal EXCEPT !.status = next]])
  /\ UNCHANGED <<draftMutex, draftRequests>> /\ storesUnchanged

updateProposalWrites(c) ==
  /\ AuthorAt(c, "proposal_write") /\ MutexFree(c)
  /\ proposalMem' = [proposalMem EXCEPT ![author[c].server] = author[c].proposal]
  /\ approvedOnce' = (approvedOnce \/ author[c].proposal.status = "approved")
  /\ AuthorTo(c, "proposal_row")
  /\ only(<<draftMem, draftRow, draftProjection, proposalRow, releaseMem, releaseRow, draftRegistry,
            draftCatalog, draftMutex>>)

updateProposalSaves(c) ==
  /\ AuthorAt(c, "proposal_row")
  /\ SaveProposal(author[c].proposal)
  /\ IF author[c].via THEN AuthorTo(c, "register") ELSE AuthorAnswer(c)
  /\ only(<<draftMem, draftRow, draftProjection, proposalMem, releaseMem, releaseRow, draftRegistry,
            draftCatalog, draftMutex, approvedOnce>>)

-----------------------------------------------------------------------------

AuthorStep(c) ==
  \/ packageDraftCreate(c) \/ packageDraftEdit(c) \/ packageDraftValidate(c) \/ packageReview(c)
  \/ packagePublish(c) \/ packageProposalCreate(c) \/ packageProposalDecide(c) \/ packageProposalPublish(c)
  \/ agentPluginSync(c) \/ agentPluginSyncToolCatalogFallback(c)
  \/ CreateDraft(c) \/ validateDraftPluginSourceForTenant(c) \/ ReadDraft(c) \/ patchForTenant(c)
  \/ patchFetches(c) \/ patchRelocks(c) \/ releaseVersionExistsLocked(c) \/ PublishDraft(c) \/ PublishSaves(c)
  \/ SaveDraft(c) \/ SaveDraftDeletes(c) \/ SaveDraftInserts(c) \/ releaseAndRegisterDraft(c) \/ SyncCatalog(c)
  \/ CreateProposal(c) \/ updateProposalForTenant(c)
  \/ updateProposalWrites(c) \/ updateProposalSaves(c) \/ DraftStoreFails(c)

DraftNext == \E c \in Authors : AuthorStep(c)
DraftSpec == DraftInit /\ [][DraftNext]_draftVars

-----------------------------------------------------------------------------
(* Properties.                                                             *)

Released == {releaseRow[v].definition : v \in ListReleases}

\* Every released definition has limits a run can work with, although a draft may be edited
\* after it was validated and reviewed, and a duration in seconds may overflow when it is
\* made a time.Duration (applyRuntimeStrategy).
ReleasedLimitsUsable ==
  \A d \in Released :
    d.limits.maxSteps > 0 /\ d.limits.maxDuration > 0 /\ d.limits.maxToolCalls >= 0 /\ d.limits.maxRepair >= 0

\* A released agent whose collaboration strategy disables delegation has the delegation tool
\* denied, whatever lists its bindings and its tool strategy give (applyCompiledStrategies).
DisabledDelegationDenied ==
  \A v \in ListReleases :
    releaseRow[v].source.strategies.collaboration.mode = "disabled" =>
      DelegateTool \in ToSet(releaseRow[v].definition.tools.denied)

\* A released definition is one a run can be governed by: usable limits and every denial its
\* source asks for (Compile).
ReleasedGovernable == ReleasedLimitsUsable /\ DisabledDelegationDenied

\* A proposal becomes published only after an approval of it was written, on whichever
\* server its steps ran and whichever copy they read (PublishProposalForTenant).
PublishedWasApproved ==
  \A p \in {proposalRow} \cup {proposalMem[s] : s \in DraftServers} : p.status = "published" => approvedOnce

=============================================================================
