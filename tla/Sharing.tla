------------------------------ MODULE Sharing ------------------------------
(***************************************************************************)
(* What groups share (internal/permission, knowledge, crossgroup,           *)
(* skillupdate and agentfactory, their postgres stores, the handlers of the *)
(* API and the origin.* tools): permission policies, knowledge bases and    *)
(* their documents, share policies between groups, searches, and requests   *)
(* for skill updates and agent drafts.  Every server keeps permission       *)
(* policies, bases and documents in memory beside the rows; requests        *)
(* interleave between any two calls of a store.                             *)
(*                                                                          *)
(* One tenant.  A document matches the query or does not, and a search      *)
(* returns all that match: ranking, snippets and the limit are left out.    *)
(***************************************************************************)
EXTENDS Integers, FiniteSets, Sequences, Functions

CONSTANTS
  Sharers,         \* requests handled at the same time
  SharingServers,  \* processes that share the database
  Groups,          \* groups of the tenant
  PermissionSubjects, \* subjects of permission policies, in the order they are sorted
  Bases, Documents, Shares, ShareApprovals, \* ids that the generator can give
  CallerRoles,     \* roles that authenticated callers have
  ClaimedRoles,    \* roles that tool calls give as arguments
  SharingInputs,   \* what requests ask for, by kind
  InitialSharing,  \* what the database and the servers may hold at first
  MaxSharingRequests \* requests in all (bound, model checking only)

VARIABLES
  permissionRows,   \* group_permission_policies, by group and subject
  permissionMemory, \* the policies each server remembers
  baseRows,         \* knowledge_bases
  baseMemory,       \* the bases each server remembers
  documentRows,     \* knowledge_documents
  documentMemory,   \* the documents each server remembers
  ingestionJobs,    \* knowledge_ingestion_jobs: the documents they are for
  shareRows,        \* cross_group_share_policies
  shareApproval,    \* the approval service's items for share policies
  skillRequests,    \* skill_update_requests
  draftRequests,    \* agent_draft_requests: the groups they are from
  groupDrafts,      \* agent package drafts made for groups
  sharer,           \* sharer[c]: where the request is, and its locals
  sharingRequests,  \* requests received so far
  grants,           \* history: what a search was granted since it was received
  ingested          \* history: documents answered as ingested

knowledgeVars == <<baseRows, baseMemory, documentRows, documentMemory, ingestionJobs, ingested>>
permissionVars == <<permissionRows, permissionMemory>>
shareVars == <<shareRows, shareApproval>>
requestVars == <<skillRequests, draftRequests, groupDrafts>>
sharingVars == <<permissionVars, knowledgeVars, shareVars, requestVars, sharer, sharingRequests, grants>>

Visibilities == {"group", "shared", "tenant"}
Redactions   == {"summary_only", "mask_emails", "mask_numbers", "strict"}
AdminRoles   == {"owner", "admin", "group_admin", "agent_admin"}
SharerIdle   == [pc |-> "idle"]
NotGranted   == [explicit |-> FALSE, some |-> {}, all |-> {}]
Put(rows, id, row) == [i \in DOMAIN rows \cup {id} |-> IF i = id THEN row ELSE rows[i]]

PermissionPolicies == [actions : SUBSET STRING, scopes : SUBSET STRING, approval : BOOLEAN]
BaseRows     == [owner : Groups, visibility : Visibilities, status : {"ready", "disabled"}, count : Nat]
DocumentRows == [base : Bases, group : Groups, visibility : Visibilities, matches : BOOLEAN]
ShareRows    == [source : Groups, target : Groups, bases : SUBSET Bases, redaction : Redactions,
                 approval : BOOLEAN, status : {"enabled", "disabled"}]

\* The key of a permission policy: its group, and its subject's place.
PermissionKeys == Groups \X DOMAIN PermissionSubjects

\* A search in another group names that group; only such a search carries share policies.
ASSUME SharingAssumption ==
  /\ PermissionSubjects \in Seq([type : {"user", "role", "agent"}, id : STRING])
  /\ \A init \in InitialSharing : DOMAIN init.permissions \subseteq PermissionKeys
  /\ \A input \in SharingInputs.policies : input.key \in PermissionKeys
  /\ \A share \in SharingInputs.shares : share.row \in ShareRows
  /\ \A pair \in SharingInputs.pairs : pair.source # ""
  /\ \A query \in SharingInputs.queries : "shares" \notin DOMAIN query
  /\ MaxSharingRequests \in Nat

-----------------------------------------------------------------------------
(* Permissions.                                                            *)

containsAction(actions, action) == "*" \in actions \/ action \in actions

\* A scope names the group, or the type, id or scope of the resource.
scopeMatches(scopes, ask) ==
  scopes = {} \/ "*" \in scopes \/ scopes \cap (ask.resources \cup {ask.group}) # {}

policyMatches(ask, key, policy) ==
  LET subject == PermissionSubjects[key[2]]
  IN /\ key[1] = ask.group
     /\ containsAction(policy.actions, ask.action)
     /\ scopeMatches(policy.scopes, ask)
     /\ IF subject.type = "role" THEN subject.id \in ask.roles ELSE subject.id = ask.actor

\* Mutant: an administrator may do everything.
NothingIsExplicit(action) == FALSE

requiresExplicitPolicy(action) == action = "cross_group.search"

adminAllowed(ask) == ~requiresExplicitPolicy(ask.action) /\ ask.roles \cap AdminRoles # {}

ListPolicies(group) == {key \in DOMAIN permissionRows : key[1] = group}

\* The first policy that matches decides.
firstMatch(ask, policies) ==
  LET matching == {key \in DOMAIN policies : policyMatches(ask, key, policies[key])}
  IN IF matching = {} THEN "denied"
     ELSE LET first == CHOOSE key \in matching : \A other \in matching : key[2] <= other[2]
          IN IF policies[first].approval THEN "approval_required" ELSE "allowed"

Explicit(ask, rows, memory) ==
  \E policies \in {rows, memory} : \E key \in DOMAIN policies :
    policyMatches(ask, key, policies[key]) /\ ~policies[key].approval

-----------------------------------------------------------------------------
(* Initial states, and how requests begin and end.                         *)

SharingInit ==
  \E init \in InitialSharing :
    /\ permissionRows = init.permissions
    /\ permissionMemory = [s \in SharingServers |-> IF init.remembered THEN init.permissions ELSE <<>>]
    /\ baseRows = init.bases /\ baseMemory = [s \in SharingServers |-> <<>>]
    /\ documentRows = init.documents /\ documentMemory = [s \in SharingServers |-> <<>>]
    /\ ingestionJobs = {} /\ shareRows = init.shares
    /\ shareApproval = init.approvals
    /\ skillRequests = {} /\ draftRequests = {} /\ groupDrafts = {}
    /\ sharer = [c \in Sharers |-> SharerIdle] /\ sharingRequests = 0
    /\ grants = [c \in Sharers |-> NotGranted] /\ ingested = {}

SharerStep(c, record) == sharer' = [sharer EXCEPT ![c] = record]
SharerAnswer(c) == SharerStep(c, SharerIdle)
SharerGoes(c, pc) == SharerStep(c, [sharer[c] EXCEPT !.pc = pc])

SharerBegin(c, record) ==
  /\ sharer[c].pc \in {"idle", "answered"}
  /\ sharingRequests < MaxSharingRequests
  /\ sharingRequests' = sharingRequests + 1
  /\ SharerStep(c, record)
  /\ UNCHANGED <<permissionVars, knowledgeVars, shareVars, requestVars>>

\* The locals of a request: its server, what it asks permission for and its input.
Request(s, op, pc, ask, arg) ==
  [pc |-> pc, op |-> op, server |-> s, ask |-> ask, arg |-> arg, decision |-> "none"]

Ask(group, actor, roles, action, resources) ==
  [group |-> group, actor |-> actor, roles |-> roles, action |-> action, resources |-> resources]

\* Any member: what tells callers apart is their roles.
Member == "member"

-----------------------------------------------------------------------------
(* The permission check of a request: the rows, or else the memory.        *)

\* After the check.  Where the code only refuses a denial, the request goes on with
\* "approval_required"; everywhere else anything but "allowed" ends it.
Decide(c, decision) ==
  IF decision = "allowed" \/ (decision = "approval_required" /\ sharer[c].op = "skill")
    THEN SharerStep(c, [sharer[c] EXCEPT !.pc = "decided", !.decision = decision])
    ELSE SharerAnswer(c)

SharingQuiet == UNCHANGED <<permissionVars, knowledgeVars, shareVars, requestVars, sharingRequests, grants>>

Check(c) ==
  LET ask == sharer[c].ask
  IN /\ sharer[c].pc = "check"
     /\ IF adminAllowed(ask) THEN Decide(c, "allowed")
        ELSE IF ListPolicies(ask.group) = {} THEN SharerGoes(c, "check_memory")
        ELSE Decide(c, firstMatch(ask, Restrict(permissionRows, ListPolicies(ask.group))))
     /\ SharingQuiet

CheckMemory(c) ==
  /\ sharer[c].pc = "check_memory"
  /\ Decide(c, firstMatch(sharer[c].ask, permissionMemory[sharer[c].server]))
  /\ SharingQuiet

SavePolicy(key, policy) == permissionRows' = Put(permissionRows, key, policy)

\* A policy this server remembers is replaced in memory only; any other is also saved.
\* The save may fail after the policy was remembered.
UpsertPolicy(s, key, policy) ==
  /\ permissionMemory' = [permissionMemory EXCEPT ![s] = Put(@, key, policy)]
  /\ IF key \in DOMAIN permissionMemory[s] THEN UNCHANGED permissionRows
     ELSE SavePolicy(key, policy) \/ UNCHANGED permissionRows

\* The command requires the group, the subject and at least one action.
permissionPolicyUpsert(s, input) ==
  /\ sharingRequests < MaxSharingRequests
  /\ sharingRequests' = sharingRequests + 1
  /\ input.policy.actions # {}
  /\ UpsertPolicy(s, input.key, input.policy)
  /\ grants' = [c \in Sharers |->
       IF sharer[c].pc # "idle" /\ sharer[c].pc # "answered" /\ sharer[c].op = "cross"
         THEN [grants[c] EXCEPT
                 !.explicit = @ \/ Explicit(sharer[c].ask, permissionRows',
                                            permissionMemory'[sharer[c].server])]
         ELSE grants[c]]
  /\ UNCHANGED <<knowledgeVars, shareVars, requestVars, sharer>>

-----------------------------------------------------------------------------
(* Knowledge bases and documents.                                          *)

\* The visibility of a base is "group" unless the request gives one.
Given(value, default) == IF value = "" THEN default ELSE value

CreateRequest(c, s, roles, input) ==
  /\ SharerBegin(c, Request(s, "create", "check",
       Ask(input.owner, Member, roles, "knowledge.create", {"knowledge_base"}), input))
  /\ UNCHANGED grants
handleKnowledgeBases(c, s, input) == \E roles \in CallerRoles : CreateRequest(c, s, roles, input)
knowledgeCreateTool(c, s, input) == \E roles \in ClaimedRoles : CreateRequest(c, s, roles, input)

\* The base is remembered before it is saved.
CreateKnowledgeBase(c) ==
  LET base == [owner |-> sharer[c].arg.owner, status |-> "ready", count |-> 0,
               visibility |-> Given(sharer[c].arg.visibility, "group")]
      s == sharer[c].server
  IN /\ sharer[c].pc = "decided" /\ sharer[c].op = "create"
     /\ \E b \in Bases :
          /\ b \notin DOMAIN baseRows /\ \A t \in SharingServers : b \notin DOMAIN baseMemory[t]
          /\ baseMemory' = [baseMemory EXCEPT ![s] = Put(@, b, base)]
          /\ SharerStep(c, [pc |-> "save_base", op |-> "create", id |-> b, base |-> base])
     /\ UNCHANGED <<permissionVars, baseRows, documentRows, documentMemory, ingestionJobs, ingested,
                    shareVars, requestVars, sharingRequests, grants>>

IngestRequest(c, s, input) ==
  SharerBegin(c, Request(s, "ingest", "read_base", {}, input)) /\ UNCHANGED grants
handleKnowledgeBaseDocuments(c, s, input) == IngestRequest(c, s, input)
knowledgeIngestTool(c, s, input) == IngestRequest(c, s, input)

ListKnowledgeBases == baseRows
ListDocuments == documentRows

\* The base as this server remembers it, or else its row.
GetKnowledgeBase(s, b) ==
  IF b \in DOMAIN baseMemory[s] THEN {baseMemory[s][b]}
  ELSE {ListKnowledgeBases[k] : k \in {b} \cap DOMAIN ListKnowledgeBases}

\* There is no permission check.
IngestReadsBase(c) ==
  LET s == sharer[c].server  b == sharer[c].arg.base
      known == GetKnowledgeBase(s, b)
  IN /\ sharer[c].pc = "read_base"
     /\ IF known = {} THEN SharerAnswer(c)
        ELSE \E base \in known :
               SharerStep(c, [pc |-> "remember", op |-> "ingest", server |-> s, arg |-> sharer[c].arg,
                              base |-> base, remembered |-> b \in DOMAIN baseMemory[s]])
     /\ SharingQuiet

documentCountLocked(documents, b) ==
  Cardinality({d \in DOMAIN documents : documents[d].base = b})

\* The document, and the base with the number of documents this server remembers.
IngestDocument(c) ==
  LET s == sharer[c].server  arg == sharer[c].arg  base == sharer[c].base
      document == [base |-> arg.base, group |-> Given(arg.group, base.owner),
                   visibility |-> Given(arg.visibility, base.visibility), matches |-> arg.matches]
  IN /\ sharer[c].pc = "remember"
     /\ \E d \in Documents :
          /\ d \notin DOMAIN documentRows
          /\ \A t \in SharingServers : d \notin DOMAIN documentMemory[t]
          /\ documentMemory' = [documentMemory EXCEPT ![s] = Put(@, d, document)]
          /\ LET counted == [owner |-> base.owner, visibility |-> base.visibility, status |-> "ready",
                             count |-> documentCountLocked(Put(documentMemory[s], d, document), arg.base)]
             IN /\ baseMemory' = [baseMemory EXCEPT ![s] = Put(@, arg.base, counted)]
                /\ SharerStep(c, [pc |-> "save_document", op |-> "ingest", id |-> arg.base,
                                  base |-> counted, document |-> document, name |-> d,
                                  remembered |-> sharer[c].remembered])
     /\ UNCHANGED <<permissionVars, baseRows, documentRows, ingestionJobs, ingested, shareVars,
                    requestVars, sharingRequests, grants>>

\* Every save may fail, and the request ends with the error.
SaveDocument(c) ==
  /\ sharer[c].pc = "save_document"
  /\ \/ /\ documentRows' = Put(documentRows, sharer[c].name, sharer[c].document)
        /\ SharerGoes(c, "save_base")
     \/ UNCHANGED documentRows /\ SharerAnswer(c)
  /\ UNCHANGED <<permissionVars, baseRows, baseMemory, documentMemory, ingestionJobs, ingested,
                 shareVars, requestVars, sharingRequests, grants>>

\* Mutant: a base that the server remembers has been saved.
SaveUnlessRemembered(c) ==
  /\ sharer[c].pc = "save_base"
  /\ LET known == sharer[c].op = "ingest" /\ sharer[c].remembered
     IN \/ /\ baseRows' = IF known THEN baseRows ELSE Put(baseRows, sharer[c].id, sharer[c].base)
           /\ IF sharer[c].op = "ingest" THEN SharerGoes(c, "save_job") ELSE SharerAnswer(c)
        \/ UNCHANGED baseRows /\ SharerAnswer(c)
  /\ UNCHANGED <<permissionVars, documentRows, baseMemory, documentMemory, ingestionJobs, ingested,
                 shareVars, requestVars, sharingRequests, grants>>

SaveKnowledgeBase(c) ==
  /\ sharer[c].pc = "save_base"
  /\ \/ /\ baseRows' = Put(baseRows, sharer[c].id, sharer[c].base)
        /\ IF sharer[c].op = "ingest" THEN SharerGoes(c, "save_job") ELSE SharerAnswer(c)
     \/ UNCHANGED baseRows /\ SharerAnswer(c)
  /\ UNCHANGED <<permissionVars, documentRows, baseMemory, documentMemory, ingestionJobs, ingested,
                 shareVars, requestVars, sharingRequests, grants>>

SaveIngestionJob(d) == ingestionJobs' = ingestionJobs \cup {d}

saveJob(c) ==
  /\ sharer[c].pc = "save_job"
  /\ \/ /\ SaveIngestionJob(sharer[c].name)
        /\ ingested' = ingested \cup {sharer[c].name}
     \/ UNCHANGED <<ingestionJobs, ingested>>
  /\ SharerAnswer(c)
  /\ UNCHANGED <<permissionVars, baseRows, baseMemory, documentRows, documentMemory, shareVars,
                 requestVars, sharingRequests, grants>>

-----------------------------------------------------------------------------
(* Searches.                                                               *)

visibleToGroup(base, document, requester, source, allowCrossGroup) ==
  /\ source = "" \/ document.group = source
  /\ \/ requester \in {document.group, base.owner}
     \/ document.visibility = "tenant"
     \/ document.visibility = "shared" /\ allowCrossGroup

\* The documents of a search: of the bases it may look at, ready, and visible to the group.
candidates(bases, documents, query) ==
  {d \in DOMAIN documents :
     LET document == documents[d]
     IN /\ query.bases = {} \/ document.base \in query.bases
        /\ document.base \in DOMAIN bases
        /\ bases[document.base].status # "disabled"
        /\ visibleToGroup(bases[document.base], document, query.requester, query.source, query.cross)}

LocalSearch(documents, found) == {d \in found : documents[d].matches}

SearchAsk(query, roles) ==
  Ask(query.requester, Member, roles, "knowledge.search", {"knowledge_base", query.requester})

SearchRequest(c, s, roles, query) ==
  /\ SharerBegin(c, Request(s, "search", "check", SearchAsk(query, roles), query))
  /\ grants' = [grants EXCEPT ![c] = NotGranted]
handleKnowledgeSearch(c, s, query) == \E roles \in CallerRoles : SearchRequest(c, s, roles, query)
knowledgeSearchTool(c, s, query) == \E roles \in ClaimedRoles : SearchRequest(c, s, roles, query)

\* The snapshot is two reads: first the bases, then the documents.
snapshotBases(c) ==
  /\ sharer[c].pc = "decided" /\ sharer[c].op = "search"
  /\ SharerStep(c, [pc |-> "documents", op |-> "search", arg |-> sharer[c].arg, bases |-> ListKnowledgeBases])
  /\ SharingQuiet

priority(redaction) ==
  CASE redaction = "strict" -> 3 [] redaction = "summary_only" -> 1 [] OTHER -> 2

\* Masking of emails and of numbers rank alike: an answer under both masks only one of them.
strongestRedactionPolicy(policies) ==
  (CHOOSE policy \in policies : \A p \in policies : priority(p.redaction) <= priority(policy.redaction)).redaction

\* How an answer is redacted: not at all without share policies.
redactResults(policies) == IF policies = {} THEN "none" ELSE strongestRedactionPolicy(policies)

snapshotDocuments(c) ==
  LET r == sharer[c]
      found == LocalSearch(ListDocuments, candidates(r.bases, ListDocuments, r.arg))
      shared == "shares" \in DOMAIN r.arg
  IN /\ r.pc = "documents"
     /\ SharerStep(c, [pc |-> "answered", source |-> r.arg.source, requester |-> r.arg.requester,
                       shared |-> shared, docs |-> found,
                       redaction |-> redactResults(IF shared THEN r.arg.shares ELSE {})])
     /\ SharingQuiet

-----------------------------------------------------------------------------
(* Search in another group.                                                *)

ListSharePolicies(source, target) ==
  {shareRows[i] : i \in {j \in DOMAIN shareRows :
                           shareRows[j].source = source /\ shareRows[j].target = target}}

Enabled(rows, source, target) ==
  {rows[i] : i \in {j \in DOMAIN rows : /\ rows[j].source = source /\ rows[j].target = target
                                        /\ rows[j].status = "enabled"}}

matchingPolicies(source, target) ==
  {policy \in ListSharePolicies(source, target) : policy.status = "enabled"}

\* The empty set stands for every base: one policy without a list is enough.
allowedKnowledgeBaseIDs(policies) ==
  IF \E policy \in policies : policy.bases = {} THEN {}
  ELSE UNION {policy.bases : policy \in policies}

CrossAsk(pair, roles) ==
  Ask(pair.requester, Member, roles, "cross_group.search", {"group", pair.source})

CrossRequest(c, s, roles, pair) ==
  /\ SharerBegin(c, Request(s, "cross", "check", CrossAsk(pair, roles), pair))
  /\ LET now == Enabled(shareRows, pair.source, pair.requester)
     IN grants' = [grants EXCEPT ![c] =
                     [explicit |-> Explicit(CrossAsk(pair, roles), permissionRows, permissionMemory[s]),
                      some |-> now, all |-> now]]
handleCrossGroupSearch(c, s, pair) == \E roles \in CallerRoles : CrossRequest(c, s, roles, pair)
crossGroupSearchTool(c, s, pair) == \E roles \in ClaimedRoles : CrossRequest(c, s, roles, pair)

\* With a share policy the request goes on as a knowledge search of its own, which checks again.
CrossGroupSearch(c) ==
  LET pair == sharer[c].arg
      policies == matchingPolicies(pair.source, pair.requester)
      query == [requester |-> pair.requester, source |-> pair.source, cross |-> TRUE,
                bases |-> allowedKnowledgeBaseIDs(policies), shares |-> policies]
  IN /\ sharer[c].pc = "decided" /\ sharer[c].op = "cross"
     /\ IF policies = {} THEN SharerAnswer(c)
        ELSE SharerStep(c, Request(sharer[c].server, "search", "check",
                                   SearchAsk(query, sharer[c].ask.roles), query))
     /\ SharingQuiet

-----------------------------------------------------------------------------
(* Share policies between groups.                                          *)

\* The resource of an approval: the policy's id, or its groups when it has none yet.
ShareResource(share) ==
  IF share.id = "" THEN <<share.row.source, share.row.target>> ELSE <<share.id>>

ShareAsk(share, roles) ==
  Ask(share.row.source, Member, roles, "cross_group.policy", {"cross_group_share_policy", share.id})

requireCrossGroupPolicyPermission(c, s, op, share, roles) ==
  Request(s, op, "check", ShareAsk(share, roles), share)

handleCrossGroupSharePolicies(c, s, share) ==
  \E roles \in CallerRoles :
    /\ SharerBegin(c, requireCrossGroupPolicyPermission(c, s, "post", share, roles))
    /\ UNCHANGED grants

PutSharePolicy(c, s, share) ==
  \E roles \in CallerRoles :
    /\ share.id # ""
    /\ SharerBegin(c, requireCrossGroupPolicyPermission(c, s, "put", share, roles))
    /\ UNCHANGED grants

GetSharePolicy(id) == {shareRows[i] : i \in {id} \cap DOMAIN shareRows}
SaveSharePolicy(id, row) == shareRows' = Put(shareRows, id, row)

\* The row is read before the check, and written back disabled after it.
DeleteSharePolicy(c, s, id) ==
  \E roles \in CallerRoles :
    /\ IF GetSharePolicy(id) = {} THEN SharerBegin(c, SharerIdle)
       ELSE \E row \in GetSharePolicy(id) :
              SharerBegin(c, requireCrossGroupPolicyPermission(c, s, "put",
                [id |-> id, row |-> [row EXCEPT !.status = "disabled"], approval |-> ""], roles))
    /\ UNCHANGED grants

handleCrossGroupSharePolicyResource(c, s) ==
  \/ \E share \in SharingInputs.shares : PutSharePolicy(c, s, share)
  \/ \E id \in Shares : DeleteSharePolicy(c, s, id)

\* An approval is consumed, or asked for when the request names none.
crossGroupSharePolicyApprovalGate(c) ==
  LET share == sharer[c].arg  a == share.approval
      approved == /\ a \in DOMAIN shareApproval
                  /\ shareApproval[a] = [status |-> "approved", resource |-> ShareResource(share)]
  IN /\ sharer[c].pc = "decided" /\ sharer[c].op = "post"
     /\ \/ ~share.row.approval /\ SharerGoes(c, "upsert") /\ UNCHANGED shareApproval
        \/ /\ share.row.approval /\ approved
           /\ shareApproval' = [shareApproval EXCEPT ![a].status = "used"] /\ SharerGoes(c, "upsert")
        \/ share.row.approval /\ a # "" /\ ~approved /\ SharerAnswer(c) /\ UNCHANGED shareApproval
        \/ /\ share.row.approval /\ a = ""
           /\ \E new \in ShareApprovals \ DOMAIN shareApproval :
                shareApproval' = Put(shareApproval, new, [status |-> "pending", resource |-> ShareResource(share)])
           /\ SharerAnswer(c)
     /\ UNCHANGED <<permissionVars, knowledgeVars, shareRows, requestVars, sharingRequests, grants>>

\* An approver resolves an approval that is pending.
shareApprovalResolve(a) ==
  /\ a \in DOMAIN shareApproval /\ shareApproval[a].status = "pending"
  /\ \E status \in {"approved", "rejected"} : shareApproval' = [shareApproval EXCEPT ![a].status = status]
  /\ UNCHANGED <<permissionVars, knowledgeVars, shareRows, requestVars, sharer, sharingRequests, grants>>

\* The row is saved under its id, or a new one; the save may fail, an approval stays used.
UpsertSharePolicy(c) ==
  LET share == sharer[c].arg
  IN /\ \/ sharer[c].pc = "upsert"
        \/ sharer[c].pc = "decided" /\ sharer[c].op = "put"
     /\ \/ \E id \in IF share.id = "" THEN Shares \ DOMAIN shareRows ELSE {share.id} :
             SaveSharePolicy(id, share.row)
        \/ UNCHANGED shareRows
     /\ grants' = [k \in Sharers |->
          LET r == sharer[k]
              pair == IF r.pc \in {"idle", "answered"} THEN {}
                      ELSE IF r.op = "cross" \/ (r.op = "search" /\ r.arg.cross /\ r.arg.source # "")
                        THEN Enabled(shareRows', r.arg.source, r.arg.requester) ELSE {}
          IN IF r.pc \in {"idle", "answered"} THEN grants[k]
             ELSE [grants[k] EXCEPT !.some = @ \cup pair, !.all = @ \cap pair]]
     /\ SharerAnswer(c)
     /\ UNCHANGED <<permissionVars, knowledgeVars, shareApproval, requestVars, sharingRequests>>

-----------------------------------------------------------------------------
(* Requests for skill updates and for agent drafts.                        *)

skillProposeTool(c, s, group) ==
  \E roles \in ClaimedRoles :
    /\ SharerBegin(c, Request(s, "skill", "check",
         Ask(group, Member, roles, "skill.propose_update", {"skill"}), group))
    /\ UNCHANGED grants

SaveSkillRequest(request) == skillRequests' = skillRequests \cup {request}

\* A proposal that needs approval is recorded as waiting for it.
Propose(c) ==
  /\ sharer[c].pc = "decided" /\ sharer[c].op = "skill"
  /\ \/ SaveSkillRequest(
          [group |-> sharer[c].arg,
           status |-> IF sharer[c].decision = "allowed" THEN "draft" ELSE "waiting_approval"])
     \/ UNCHANGED skillRequests
  /\ SharerAnswer(c)
  /\ UNCHANGED <<permissionVars, knowledgeVars, shareVars, draftRequests, groupDrafts,
                 sharingRequests, grants>>

agentCreateDraftTool(c, s, group) ==
  \E roles \in ClaimedRoles :
    /\ SharerBegin(c, Request(s, "draft", "check",
         Ask(group, Member, roles, "agent_package.create", {"agent_package"}), group))
    /\ UNCHANGED grants

\* The package draft is made first; the request may then fail to be saved.
CreateDraft(c) ==
  /\ sharer[c].pc = "decided" /\ sharer[c].op = "draft"
  /\ \/ groupDrafts' = groupDrafts \cup {sharer[c].arg} /\ SharerGoes(c, "save_draft_request")
     \/ UNCHANGED groupDrafts /\ SharerAnswer(c)
  /\ UNCHANGED <<permissionVars, knowledgeVars, shareVars, skillRequests, draftRequests,
                 sharingRequests, grants>>

SaveDraftRequest(c) ==
  /\ sharer[c].pc = "save_draft_request"
  /\ \/ draftRequests' = draftRequests \cup {sharer[c].arg}
     \/ UNCHANGED draftRequests
  /\ SharerAnswer(c)
  /\ UNCHANGED <<permissionVars, knowledgeVars, shareVars, skillRequests, groupDrafts,
                 sharingRequests, grants>>

-----------------------------------------------------------------------------
Received(c, s) ==
  \/ \E input \in SharingInputs.bases : handleKnowledgeBases(c, s, input) \/ knowledgeCreateTool(c, s, input)
  \/ \E input \in SharingInputs.documents :
       handleKnowledgeBaseDocuments(c, s, input) \/ knowledgeIngestTool(c, s, input)
  \/ \E query \in SharingInputs.queries : handleKnowledgeSearch(c, s, query) \/ knowledgeSearchTool(c, s, query)
  \/ \E pair \in SharingInputs.pairs : handleCrossGroupSearch(c, s, pair) \/ crossGroupSearchTool(c, s, pair)
  \/ \E share \in SharingInputs.shares : handleCrossGroupSharePolicies(c, s, share)
  \/ handleCrossGroupSharePolicyResource(c, s)
  \/ \E group \in Groups : skillProposeTool(c, s, group) \/ agentCreateDraftTool(c, s, group)

Handled(c) ==
  \/ Check(c) \/ CheckMemory(c)
  \/ CreateKnowledgeBase(c) \/ IngestReadsBase(c) \/ IngestDocument(c) \/ SaveDocument(c)
  \/ SaveKnowledgeBase(c) \/ saveJob(c)
  \/ snapshotBases(c) \/ snapshotDocuments(c) \/ CrossGroupSearch(c)
  \/ crossGroupSharePolicyApprovalGate(c) \/ UpsertSharePolicy(c)
  \/ Propose(c) \/ CreateDraft(c) \/ SaveDraftRequest(c)

SharingNext ==
  \/ \E c \in Sharers : \E s \in SharingServers : Received(c, s)
  \/ \E c \in Sharers : Handled(c)
  \/ \E s \in SharingServers : \E input \in SharingInputs.policies : permissionPolicyUpsert(s, input)
  \/ \E a \in ShareApprovals : shareApprovalResolve(a)

SharingSpec == SharingInit /\ [][SharingNext]_sharingVars

-----------------------------------------------------------------------------
(* Properties.                                                             *)

SharedAnswers == {c \in Sharers : sharer[c].pc = "answered" /\ sharer[c].shared}

\* What a search in another group returns was granted while the request was handled: by a
\* permission policy that names the action, whatever the caller's roles, and by an enabled
\* share policy for the document's base; and the document is the source group's and is
\* itself shared (crossgroup Service.Search, knowledge InMemoryService.Search).
SharedOnlyAsGranted ==
  \A c \in SharedAnswers :
    /\ grants[c].explicit
    /\ \A d \in sharer[c].docs :
         LET document == documentRows[d]
         IN /\ document.group = sharer[c].source
            /\ \E share \in grants[c].some : share.bases = {} \/ document.base \in share.bases
            /\ \/ document.visibility \in {"shared", "tenant"}
               \/ sharer[c].requester \in {document.group, baseRows[document.base].owner}

\* The answer is redacted at least as strongly as every share policy asks that was enabled
\* for the two groups all the time the request was handled (strongestRedactionPolicy).
RedactedEnough ==
  \A c \in SharedAnswers : \A share \in grants[c].all :
    priority(sharer[c].redaction) >= priority(share.redaction)

\* A document that was answered as ingested can be found: it and its base are on record,
\* although its base may have been taken from the server's memory, which keeps bases whose
\* save failed (IngestDocument).
IngestedIsFound ==
  \A d \in ingested : d \in DOMAIN documentRows /\ documentRows[d].base \in DOMAIN baseRows

\* An answer from another group's knowledge stays within what the policies granted while
\* the request was handled (crossgroup Service.Search).
SharedAsGranted == SharedOnlyAsGranted /\ RedactedEnough

=============================================================================
