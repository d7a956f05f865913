------------------------ MODULE ConfigurationProofs ------------------------
(***************************************************************************)
(* Proofs about what administrators configure: Hooks, for any hooks,       *)
(* phases, requests and approvals, ServiceConnection and the ToolCatalog   *)
(* around it, for any clients, tools, rows and restarts, AgentDraft, for   *)
(* any servers, requests, drafts and edits, and AgentResources, for any    *)
(* servers, requests and versions.                                         *)
(*                                                                         *)
(* An approval is spent in one step and the binding stored in a later one, *)
(* so the approvals used are compared with the bindings stored and those   *)
(* about to be stored (ApprovalsCover).  A run checks manifest, provider   *)
(* and connection one after the other: what it found enabled has been seen *)
(* since the invocation began, whatever has changed meanwhile (HookRunOK). *)
(*                                                                         *)
(* A request about the connection writes a row it has read steps before:   *)
(* while it is the only one, what it carries still fits what is stored     *)
(* (RequestFits), so the row and the resources it writes belong together.  *)
(*                                                                         *)
(* A write of the catalog goes to the database, then to memory, then tool  *)
(* by tool to the registry.  As long as requests do not overlap, memory is *)
(* the database but for the write in progress (OneByOne), and a tool that  *)
(* nobody has yet to apply is installed as memory says (RegistryFollows):  *)
(* the list a request works through is of this moment (QueueFits).         *)
(*                                                                         *)
(* A request that publishes a proposal looks at its status once, before    *)
(* the draft is released, and not again: from then on it carries that an   *)
(* approval was written (ApprovalSeen).  What it releases it compiled      *)
(* itself, after the last edit it could see (OpFits, ReleaseOK).           *)
(*                                                                         *)
(* A transaction on the skill that gets to its commit has its own version  *)
(* active among its writes, whatever the others did (TransactionFits); as  *)
(* long as none runs beside it, its statements have found every row they   *)
(* are about (UndisturbedFits), so that version is the only one.           *)
(***************************************************************************)
EXTENDS Hooks, ToolCatalog, AgentDraft, AgentResources, FiniteSetTheorems, SequenceTheorems, TLAPS

-----------------------------------------------------------------------------
(* The invariant of Hooks                                                  *)

ProviderLocals == [pc : {"upsert_provider", "store_provider", "probe", "catalog"}, row : Providers]
ManifestLocals == [pc : {"upsert_manifest"}, rows : Seq(HookManifests)]
GateLocals     == [pc : {"gate"}, row : Bindings, approval : HookApprovals \cup {"none"}, gated : {FALSE}]
BindingLocals  == [pc : {"upsert_binding"}, row : Bindings, gated : BOOLEAN]
SyncLocals     == [pc : {"sync_provider", "sync_store", "sync_manifest", "sync_binding"}, hooks : Seq(HookManifests)]
AdminLocals    ==
  {IdleHooks} \cup ProviderLocals \cup ManifestLocals \cup GateLocals \cup BindingLocals \cup SyncLocals

Merged == [hook : Bindings, patch : HookPatches]

HookRunLocals ==
  {IdleHooks} \cup
  [pc : {"next", "provider", "go", "connect", "send", "apply"}, phase : Phases, todo : Seq(Bindings),
   merged : Seq(Merged), provider : Providers \cup {NoRow}, sent : Nat]

HookEventRows ==
  [hook : HookIds \cup {0},
   status : {"ok", "no_op", "rejected", "failed", "timeout", "observed"}]

HookTables ==
  /\ hookProvider \in Providers \cup {NoRow}
  /\ hookManifest \in [HookIds -> HookManifests \cup {NoRow}]
  /\ manifestVersion \in [HookIds -> [HookVersions -> HookManifests \cup {NoRow}]]
  /\ hookBinding \in [Keys -> Bindings \cup {NoRow}]
  /\ hookApproval \in [HookApprovals -> ApprovalItems]
  /\ gatedWrites \in [Keys -> Nat]
  /\ bindingWriter \in [Keys -> {"earlier", "approved", "request", "sync"}]

\* A binding that got past the gate without an approval asks for none itself.
AdminOK(r) ==
  /\ r \in AdminLocals
  /\ r.pc = "upsert_manifest" => r.rows # <<>>
  /\ r \in SyncLocals => r.hooks # <<>>
  /\ r.pc = "upsert_binding" /\ ~r.gated => ~AsksApproval(r.row)

AdminsOK ==
  /\ admin \in [Admins -> AdminLocals]
  /\ \A c \in Admins : AdminOK(admin[c])

\* The requests that have used an approval and are about to store its binding.
Storing(k) ==
  {c \in Admins : admin[c].pc = "upsert_binding" /\ admin[c].gated /\ Resource(admin[c].row) = k}

UsedFor(k) == {a \in HookApprovals : hookApproval[a].status = "used" /\ hookApproval[a].resource = k}

ApprovalsCover ==
  \A k \in Keys :
    /\ IsFiniteSet(Storing(k))
    /\ gatedWrites[k] + Cardinality(Storing(k)) <= Cardinality(UsedFor(k))

GatedStored ==
  \A k \in Keys : hookBinding[k].status # "absent" /\ AsksApproval(hookBinding[k]) =>
    bindingWriter[k] \in {"earlier", "approved", "sync"}

\* What is merged is valid, and its hook was found enabled.
SeenFor(b, seen) ==
  /\ Named(b) => seen.provider
  /\ b.kind = "static_hook_host" => b.hook \in seen.manifests

MergedOK(m, seen) ==
  /\ m.patch.ranked \cap ToolsDenied = {} /\ m.patch.dropped \cap {"policy", "safety"} = {}
  /\ ~m.patch.secret
  /\ SeenFor(m.hook, seen)

HookRunOK ==
  /\ hookRun \in HookRunLocals
  /\ hookEvents \in Seq(HookEventRows)
  /\ seenEnabled \in [provider : BOOLEAN, manifests : SUBSET HookIds]
  /\ hookRun.pc # "idle" =>
       /\ hookProvider.status = "enabled" => seenEnabled.provider
       /\ \A h \in HookIds : hookManifest[h].status = "enabled" => h \in seenEnabled.manifests
       /\ \A i \in DOMAIN hookRun.merged : MergedOK(hookRun.merged[i], seenEnabled)
  /\ hookRun.pc \in {"provider", "go", "connect", "send"} => hookRun.todo # <<>>
  /\ hookRun.pc = "provider" => Named(Current) /\
       (Current.kind = "static_hook_host" => Current.hook \in seenEnabled.manifests)
  /\ hookRun.pc \in {"go", "connect", "send"} => SeenFor(Current, seenEnabled)

\* What administrators' requests change.
AdminInv ==
  HookTables /\ AdminsOK /\ ApprovalsCover /\ GatedStored

HookInv == AdminInv /\ HookRunOK

-----------------------------------------------------------------------------
(* Requests                                                                *)

LEMMA ResourceIsKey ==
  ASSUME NEW b \in Bindings
  PROVE  Resource(b) \in Keys
BY DEF Bindings, Resource, Keys

LEMMA AdminKinds ==
  ASSUME AdminInv, NEW c \in Admins
  PROVE  /\ AdminOK(admin[c])
         /\ admin[c].pc \in {"upsert_provider", "store_provider", "probe", "catalog"}
              => admin[c] \in ProviderLocals
         /\ admin[c].pc = "upsert_manifest" => admin[c] \in ManifestLocals
         /\ admin[c].pc = "gate" => admin[c] \in GateLocals
         /\ admin[c].pc = "upsert_binding" => admin[c] \in BindingLocals
         /\ admin[c].pc \in {"sync_provider", "sync_store", "sync_manifest", "sync_binding"}
              => admin[c] \in SyncLocals
<1>1. AdminOK(admin[c])
  BY DEF AdminInv, AdminsOK
<1>2. admin[c] \in AdminLocals
  BY <1>1 DEF AdminOK
<1>3. \/ admin[c].pc = "idle"
      \/ admin[c] \in ProviderLocals /\ admin[c].pc \in {"upsert_provider", "store_provider", "probe", "catalog"}
      \/ admin[c] \in ManifestLocals /\ admin[c].pc = "upsert_manifest"
      \/ admin[c] \in GateLocals /\ admin[c].pc = "gate"
      \/ admin[c] \in BindingLocals /\ admin[c].pc = "upsert_binding"
      \/ admin[c] \in SyncLocals
           /\ admin[c].pc \in {"sync_provider", "sync_store", "sync_manifest", "sync_binding"}
  <2>1. CASE admin[c] = IdleHooks
    BY <2>1 DEF IdleHooks
  <2>2. CASE admin[c] \in ProviderLocals
    BY <2>2 DEF ProviderLocals
  <2>3. CASE admin[c] \in ManifestLocals
    BY <2>3 DEF ManifestLocals
  <2>4. CASE admin[c] \in GateLocals
    BY <2>4 DEF GateLocals
  <2>5. CASE admin[c] \in BindingLocals
    BY <2>5 DEF BindingLocals
  <2>6. CASE admin[c] \in SyncLocals
    BY <2>6 DEF SyncLocals
  <2> QED BY <1>2, <2>1, <2>2, <2>3, <2>4, <2>5, <2>6 DEF AdminLocals
<1> QED BY <1>1, <1>3

LEMMA AdminGoesOK ==
  ASSUME AdminInv, NEW c \in Admins, NEW r, AdminOK(r), AdminGoes(c, r)
  PROVE  AdminsOK'
<1>1. r \in AdminLocals
  BY DEF AdminOK
<1>2. admin' \in [Admins -> AdminLocals]
  BY <1>1 DEF AdminInv, AdminsOK, AdminGoes
<1>3. ASSUME NEW d \in Admins PROVE AdminOK(admin'[d])
  <2>1. admin'[d] = IF d = c THEN r ELSE admin[d]
    BY DEF AdminInv, AdminsOK, AdminGoes
  <2> QED BY <2>1 DEF AdminInv, AdminsOK
<1> QED BY <1>2, <1>3 DEF AdminsOK

\* A request that does not come from or go to the write of a binding.
LEMMA StoringKept ==
  ASSUME AdminInv, NEW c \in Admins, NEW r, AdminGoes(c, r),
         admin[c].pc # "upsert_binding", r.pc # "upsert_binding",
         NEW k \in Keys
  PROVE  Storing(k)' = Storing(k)
<1>1. ASSUME NEW d \in Admins PROVE admin'[d] = IF d = c THEN r ELSE admin[d]
  BY DEF AdminInv, AdminsOK, AdminGoes
<1>2. ASSUME NEW d \in Admins PROVE d \in Storing(k)' <=> d \in Storing(k)
  BY <1>1 DEF Storing
<1> QED BY <1>2 DEF Storing

LEMMA AdminMoves ==
  ASSUME AdminInv, NEW c \in Admins, NEW r, AdminOK(r), AdminGoes(c, r),
         admin[c].pc # "upsert_binding", r.pc # "upsert_binding", UNCHANGED adminVars
  PROVE  AdminInv'
<1>1. AdminsOK'
  BY AdminGoesOK
<1>2. HookTables' /\ GatedStored'
  BY DEF AdminInv, HookTables, GatedStored, adminVars, bindingHistory
<1>3. ApprovalsCover'
  BY StoringKept DEF AdminInv, ApprovalsCover, UsedFor, adminVars, bindingHistory
<1> QED BY <1>1, <1>2, <1>3 DEF AdminInv

LEMMA IdleIsOK == AdminOK(IdleHooks)
BY DEF AdminOK, AdminLocals, SyncLocals, IdleHooks

LEMMA AdminBegins ==
  ASSUME AdminInv, NEW c \in Admins, NEW r, AdminOK(r), r.pc # "upsert_binding", AdminBegin(c, r)
  PROVE  AdminInv'
BY AdminMoves DEF AdminBegin, AdminAt

\* A list mapped element by element.
LEMMA EachOfList ==
  ASSUME NEW S, NEW list \in Seq(S), NEW T, NEW f, f = [i \in DOMAIN list |-> f[i]],
         \A i \in DOMAIN list : f[i] \in T
  PROVE  f \in Seq(T) /\ (list # <<>> => f # <<>>)
<1>1. list \in [1..Len(list) -> S] /\ Len(list) \in Nat /\ DOMAIN list = 1..Len(list)
  OBVIOUS
<1>2. f \in [1..Len(list) -> T]
  BY <1>1
<1>3. f \in Seq(T) /\ Len(f) = Len(list)
  BY <1>1, <1>2
<1> QED BY <1>3

LEMMA RequestsBegin ==
  ASSUME AdminInv, NEW c \in Admins,
         \/ handleRuntimeHookProviders(c) \/ handleRuntimeHookProviderResource(c)
         \/ handleRuntimeHookManifests(c) \/ handleRuntimeHookManifestResource(c)
         \/ handleAgentRuntimeHooks(c) \/ syncAgentPluginHookManifests(c)
  PROVE  AdminInv'
<1>1. ASSUME NEW row \in Providers, NEW pc \in {"upsert_provider", "store_provider", "probe", "catalog"}
      PROVE  AdminOK([pc |-> pc, row |-> row])
  BY DEF AdminOK, AdminLocals, ProviderLocals, SyncLocals
<1>2. ASSUME NEW row \in HookManifests
      PROVE  AdminOK([pc |-> "upsert_manifest", rows |-> <<row>>])
  <2>1. <<row>> \in Seq(HookManifests) /\ <<row>> # <<>>
    OBVIOUS
  <2> QED BY <2>1 DEF AdminOK, AdminLocals, ManifestLocals, SyncLocals
<1>3. ASSUME NEW b \in Bindings, NEW a \in HookApprovals \cup {"none"}
      PROVE  AdminOK([pc |-> "gate", row |-> b, approval |-> a, gated |-> FALSE])
  BY DEF AdminOK, AdminLocals, GateLocals, SyncLocals
<1>4. CASE handleRuntimeHookProviders(c)
  <2>1. PICK row \in HookRows.providers : PutHookProvider(c, row)
    BY <1>4 DEF handleRuntimeHookProviders
  <2>2. row \in Providers
    BY HookAssumption
  <2> QED BY <2>1, <2>2, <1>1, AdminBegins DEF PutHookProvider
<1>5. CASE handleRuntimeHookProviderResource(c)
  <2>1. GetProvider
    BY <1>5 DEF handleRuntimeHookProviderResource, DeleteHookProvider, CheckHookProviderHealth,
                SyncHookCatalog
  <2>2. hookProvider \in Providers
    BY <2>1 DEF GetProvider, AdminInv, HookTables, NoRow
  <2>3. [hookProvider EXCEPT !.status = "disabled"] \in Providers
    BY <2>2 DEF Providers
  <2>4. CASE DeleteHookProvider(c)
    BY <2>4, <2>3, <1>1, AdminBegins DEF DeleteHookProvider
  <2>5. CASE CheckHookProviderHealth(c)
    BY <2>5, <2>2, <1>1, AdminBegins DEF CheckHookProviderHealth
  <2>6. CASE SyncHookCatalog(c)
    BY <2>6, <2>2, <1>1, AdminBegins DEF SyncHookCatalog
  <2> QED BY <1>5, <2>4, <2>5, <2>6 DEF handleRuntimeHookProviderResource
<1>6. CASE handleRuntimeHookManifests(c)
  <2>1. PICK row \in HookRows.manifests : PutManifest(c, row)
    BY <1>6 DEF handleRuntimeHookManifests
  <2>2. row \in HookManifests
    BY HookAssumption
  <2> QED BY <2>1, <2>2, <1>2, AdminBegins DEF PutManifest
<1>7. CASE handleRuntimeHookManifestResource(c)
  <2>1. PICK h \in HookIds : DeleteManifest(c, h) \/ \E v \in HookVersions : ActivateManifestVersion(c, h, v)
    BY <1>7 DEF handleRuntimeHookManifestResource
  <2>2. CASE DeleteManifest(c, h)
    <3>1. hookManifest[h] \in HookManifests
      BY <2>2 DEF DeleteManifest, GetManifest, AdminInv, HookTables, NoRow
    <3>2. [hookManifest[h] EXCEPT !.status = "disabled"] \in HookManifests
      BY <3>1 DEF HookManifests
    <3> QED BY <2>2, <3>2, <1>2, AdminBegins DEF DeleteManifest
  <2>3. CASE \E v \in HookVersions : ActivateManifestVersion(c, h, v)
    <3>1. PICK v \in HookVersions : ActivateManifestVersion(c, h, v)
      BY <2>3
    <3>2. manifestVersion[h][v] \in HookManifests
      BY <3>1 DEF ActivateManifestVersion, GetManifestVersion, AdminInv, HookTables, NoRow
    <3> QED BY <3>1, <3>2, <1>2, AdminBegins DEF ActivateManifestVersion
  <2> QED BY <2>1, <2>2, <2>3
<1>8. CASE handleAgentRuntimeHooks(c)
  <2>1. PICK b \in HookRows.bindings, a \in HookApprovals \cup {"none"} : PutBinding(c, b, a)
    BY <1>8 DEF handleAgentRuntimeHooks
  <2>2. b \in Bindings
    BY HookAssumption
  <2> QED BY <2>1, <2>2, <1>3, AdminBegins DEF PutBinding
<1>9. CASE syncAgentPluginHookManifests(c)
  <2>1. PICK rows \in HookRows.listed :
          AdminBegin(c, [pc |-> "sync_provider",
                         hooks |-> [i \in DOMAIN rows |-> [rows[i] EXCEPT !.provider = TRUE]]])
    BY <1>9 DEF syncAgentPluginHookManifests
  <2> DEFINE hooks == [i \in DOMAIN rows |-> [rows[i] EXCEPT !.provider = TRUE]]
  <2>2. rows \in Seq(HookManifests) /\ rows # <<>>
    BY HookAssumption
  <2>3. ASSUME NEW i \in DOMAIN rows PROVE [rows[i] EXCEPT !.provider = TRUE] \in HookManifests
    <3>1. rows[i] \in HookManifests
      BY <2>2
    <3> QED BY <3>1 DEF HookManifests
  <2>4. hooks \in Seq(HookManifests) /\ hooks # <<>>
    BY <2>2, <2>3, EachOfList
  <2> HIDE DEF hooks
  <2>5. AdminOK([pc |-> "sync_provider", hooks |-> hooks])
    BY <2>4 DEF AdminOK, AdminLocals, SyncLocals
  <2> QED BY <2>1, <2>5, AdminBegins DEF hooks
<1> QED BY <1>4, <1>5, <1>6, <1>7, <1>8, <1>9

LEMMA ProviderSteps ==
  ASSUME AdminInv, NEW c \in Admins,
         UpsertHookProvider(c) \/ probeHookProviderHealth(c) \/ WriteHookProvider(c) \/ fetchProviderCatalog(c)
  PROVE  AdminInv'
<1>1. admin[c] \in ProviderLocals /\ admin[c].pc # "upsert_binding"
  BY AdminKinds DEF UpsertHookProvider, probeHookProviderHealth, WriteHookProvider,
                    fetchProviderCatalog, AdminAt
<1>2. ASSUME NEW row \in Providers PROVE AdminOK([pc |-> "store_provider", row |-> row])
  BY DEF AdminOK, AdminLocals, ProviderLocals, SyncLocals
<1>3. admin[c].row \in Providers
  BY <1>1 DEF ProviderLocals
<1>4. CASE UpsertHookProvider(c)
  <2>1. UNCHANGED adminVars
    BY <1>4 DEF UpsertHookProvider
  <2>2. CASE AdminAnswer(c)
    BY <1>1, <2>1, <2>2, IdleIsOK, AdminMoves DEF AdminAnswer, IdleHooks
  <2>3. CASE AdminGoes(c, [pc |-> "store_provider", row |-> admin[c].row])
    BY <1>1, <1>2, <1>3, <2>1, <2>3, AdminMoves
  <2> QED BY <1>4, <2>2, <2>3 DEF UpsertHookProvider
<1>5. CASE probeHookProviderHealth(c)
  <2>1. PICK health \in {"healthy", "unhealthy"} :
          AdminGoes(c, [pc |-> "store_provider", row |-> [admin[c].row EXCEPT !.health = health]])
    BY <1>5 DEF probeHookProviderHealth
  <2>2. [admin[c].row EXCEPT !.health = health] \in Providers
    BY <1>3 DEF Providers, HookHealth
  <2>3. UNCHANGED adminVars
    BY <1>5 DEF probeHookProviderHealth
  <2> QED BY <1>1, <1>2, <2>1, <2>2, <2>3, AdminMoves
<1>6. CASE WriteHookProvider(c)
  <2>1. AdminsOK'
    BY <1>6, IdleIsOK, AdminGoesOK DEF WriteHookProvider, AdminAnswer
  <2>2. \A k \in Keys : Storing(k)' = Storing(k)
    BY <1>1, <1>6, StoringKept DEF WriteHookProvider, AdminAnswer, IdleHooks
  <2>3. HookTables' /\ GatedStored'
    BY <1>3, <1>6 DEF WriteHookProvider, StoreProvider, AdminInv, HookTables, GatedStored, bindingHistory
  <2>4. ApprovalsCover'
    BY <1>6, <2>2 DEF WriteHookProvider, AdminInv, ApprovalsCover, UsedFor, bindingHistory
  <2> QED BY <2>1, <2>3, <2>4 DEF AdminInv
<1>7. CASE fetchProviderCatalog(c)
  <2>1. UNCHANGED adminVars
    BY <1>7 DEF fetchProviderCatalog
  <2>2. CASE AdminAnswer(c)
    <3>1. IdleHooks.pc # "upsert_binding" /\ AdminGoes(c, IdleHooks)
      BY <2>2 DEF AdminAnswer, IdleHooks
    <3> QED BY <1>1, <2>1, <3>1, IdleIsOK, AdminMoves
  <2>3. CASE ~AdminAnswer(c)
    <3>1. PICK listed \in HookRows.listed :
            AdminGoes(c, [pc |-> "upsert_manifest", rows |-> normalizeProviderCatalog(listed)])
      BY <1>7, <2>3 DEF fetchProviderCatalog
    <3>2. listed \in Seq(HookManifests) /\ listed # <<>>
      BY HookAssumption
    <3> DEFINE rows == normalizeProviderCatalog(listed)
    <3>3. ASSUME NEW i \in DOMAIN listed
          PROVE  [listed[i] EXCEPT !.status = "enabled", !.provider = TRUE] \in HookManifests
      <4>1. listed[i] \in HookManifests
        BY <3>2
      <4> QED BY <4>1 DEF HookManifests
    <3>4. rows = [i \in DOMAIN listed |-> [listed[i] EXCEPT !.status = "enabled", !.provider = TRUE]]
      BY DEF normalizeProviderCatalog
    <3> HIDE DEF rows
    <3>7. rows = [i \in DOMAIN listed |-> rows[i]] /\ \A i \in DOMAIN listed : rows[i] \in HookManifests
      BY <3>3, <3>4
    <3>5. rows \in Seq(HookManifests) /\ rows # <<>>
      BY <3>2, <3>7, EachOfList
    <3>6. AdminOK([pc |-> "upsert_manifest", rows |-> rows])
      BY <3>5 DEF AdminOK, AdminLocals, ManifestLocals, SyncLocals
    <3> QED BY <1>1, <2>1, <3>1, <3>6, AdminMoves DEF rows
  <2> QED BY <2>2, <2>3
<1> QED BY <1>4, <1>5, <1>6, <1>7

\* A manifest is stored, by a request or by the sync of a plugin.
LEMMA ManifestStored ==
  ASSUME AdminInv, NEW c \in Admins, NEW row \in HookManifests, StoreManifest(row),
         NEW r, AdminOK(r), r.pc # "upsert_binding", AdminGoes(c, r), admin[c].pc # "upsert_binding",
         UNCHANGED <<hookProvider, hookBinding, hookApproval, bindingHistory>>
  PROVE  AdminInv'
<1>1. AdminsOK'
  BY AdminGoesOK
<1>2. \A k \in Keys : Storing(k)' = Storing(k)
  BY StoringKept
<1>3. row.hook \in HookIds /\ row.version \in HookVersions
  BY DEF HookManifests
<1>4. hookManifest' = [hookManifest EXCEPT ![row.hook] = row]
      /\ manifestVersion' = [manifestVersion EXCEPT ![row.hook][row.version] = row]
  BY DEF StoreManifest
<1>5. HookTables'
  BY <1>3, <1>4 DEF AdminInv, HookTables, bindingHistory
<1>6. GatedStored' /\ ApprovalsCover'
  BY <1>2 DEF AdminInv, GatedStored, ApprovalsCover, UsedFor, bindingHistory
<1> QED BY <1>1, <1>5, <1>6 DEF AdminInv

LEMMA ManifestStep ==
  ASSUME AdminInv, NEW c \in Admins, UpsertHookManifest(c)
  PROVE  AdminInv'
<1> DEFINE row  == Head(admin[c].rows)
           rest == Tail(admin[c].rows)
<1>1. admin[c].pc = "upsert_manifest" /\ admin[c] \in ManifestLocals /\ admin[c].rows # <<>>
  BY AdminKinds DEF UpsertHookManifest, AdminAt, AdminOK
<1>2. admin[c].rows \in Seq(HookManifests)
  BY <1>1 DEF ManifestLocals
<1>3. row \in HookManifests /\ rest \in Seq(HookManifests)
  BY <1>1, <1>2
<1>4. CASE AdminAnswer(c) /\ UNCHANGED <<hookManifest, manifestVersion>>
  <2>1. UNCHANGED adminVars
    BY <1>4 DEF UpsertHookManifest, adminVars
  <2> QED BY <1>1, <1>4, <2>1, IdleIsOK, AdminMoves DEF AdminAnswer, IdleHooks
<1>5. CASE StoreManifest(row) /\ IF rest = <<>> THEN AdminAnswer(c)
                                 ELSE AdminGoes(c, [pc |-> "upsert_manifest", rows |-> rest])
  <2>1. PICK r : AdminOK(r) /\ r.pc # "upsert_binding" /\ AdminGoes(c, r)
    <3>1. CASE rest = <<>>
      BY <1>5, <3>1, IdleIsOK DEF AdminAnswer, IdleHooks
    <3>2. CASE rest # <<>>
      <4>1. AdminOK([pc |-> "upsert_manifest", rows |-> rest])
        BY <1>3, <3>2 DEF AdminOK, AdminLocals, ManifestLocals, SyncLocals
      <4> QED BY <1>5, <3>2, <4>1
    <3> QED BY <3>1, <3>2
  <2>2. UNCHANGED <<hookProvider, hookBinding, hookApproval, bindingHistory>>
    BY DEF UpsertHookManifest
  <2> QED BY <1>1, <1>3, <1>5, <2>1, <2>2, ManifestStored
<1> QED BY <1>4, <1>5 DEF UpsertHookManifest

-----------------------------------------------------------------------------
(* Bindings and their approvals                                            *)

LEMMA GateStep ==
  ASSUME AdminInv, NEW c \in Admins, runtimeHookBindingApprovalGate(c)
  PROVE  AdminInv'
<1> DEFINE b == admin[c].row
           a == admin[c].approval
<1>1. admin[c].pc = "gate" /\ admin[c] \in GateLocals
  BY AdminKinds DEF runtimeHookBindingApprovalGate, AdminAt
<1>2. b \in Bindings /\ a \in HookApprovals \cup {"none"} /\ Resource(b) \in Keys
  BY <1>1, ResourceIsKey DEF GateLocals
<1>3. UNCHANGED <<hookProvider, hookManifest, manifestVersion, hookBinding, gatedWrites, bindingWriter>>
  BY DEF runtimeHookBindingApprovalGate, bindingHistory
<1>4. hookApproval \in [HookApprovals -> ApprovalItems]
  BY DEF AdminInv, HookTables
<1>5. GatedStored'
  BY <1>3 DEF AdminInv, GatedStored
<1>6. ASSUME hookApproval' \in [HookApprovals -> ApprovalItems] PROVE HookTables'
  BY <1>3, <1>6 DEF AdminInv, HookTables
<1>7. IdleHooks.pc # "upsert_binding" /\ AdminOK(IdleHooks)
  BY IdleIsOK DEF IdleHooks
<1>8. CASE ~runtimeHookBindingRequiresApproval(b)
           /\ AdminGoes(c, [pc |-> "upsert_binding", row |-> b, gated |-> FALSE]) /\ UNCHANGED hookApproval
  <2> DEFINE r == [pc |-> "upsert_binding", row |-> b, gated |-> FALSE]
  <2>1. ~AsksApproval(b)
    BY <1>8 DEF runtimeHookBindingRequiresApproval
  <2>2. AdminOK(r)
    BY <1>2, <2>1 DEF AdminOK, AdminLocals, BindingLocals, SyncLocals
  <2>3. AdminsOK'
    BY <1>8, <2>2, AdminGoesOK
  <2>4. ASSUME NEW d \in Admins PROVE admin'[d] = IF d = c THEN r ELSE admin[d]
    BY <1>8 DEF AdminInv, AdminsOK, AdminGoes
  <2>5. ASSUME NEW k \in Keys PROVE Storing(k)' = Storing(k)
    <3>1. ASSUME NEW d \in Admins PROVE d \in Storing(k)' <=> d \in Storing(k)
      BY <1>1, <2>4 DEF Storing
    <3> QED BY <3>1 DEF Storing
  <2>6. ApprovalsCover'
    BY <1>3, <1>8, <2>5 DEF AdminInv, ApprovalsCover, UsedFor
  <2> QED BY <1>4, <1>5, <1>6, <1>8, <2>3, <2>6 DEF AdminInv
<1>9. CASE /\ a # "none" /\ Consume(a, b)
           /\ AdminGoes(c, [pc |-> "upsert_binding", row |-> b, gated |-> TRUE])
  <2> DEFINE r == [pc |-> "upsert_binding", row |-> b, gated |-> TRUE]
             K == Resource(b)
  <2>1. AdminOK(r)
    BY <1>2 DEF AdminOK, AdminLocals, BindingLocals, SyncLocals
  <2>2. AdminsOK'
    BY <1>9, <2>1, AdminGoesOK
  <2>3. ASSUME NEW d \in Admins PROVE admin'[d] = IF d = c THEN r ELSE admin[d]
    BY <1>9 DEF AdminInv, AdminsOK, AdminGoes
  <2>4. /\ a \in HookApprovals /\ hookApproval[a].status = "approved" /\ hookApproval[a].resource = K
        /\ hookApproval' = [hookApproval EXCEPT ![a].status = "used"]
    BY <1>2, <1>9 DEF Consume, Approved
  <2>5. hookApproval[a] \in [status : {"pending", "approved", "rejected", "used"}, resource : Keys]
    BY <1>4, <2>4 DEF ApprovalItems, NoRow
  <2>6. /\ hookApproval'[a].status = "used" /\ hookApproval'[a].resource = K
        /\ hookApproval'[a] \in ApprovalItems
    BY <1>4, <2>4, <2>5 DEF ApprovalItems
  <2>7. \A x \in HookApprovals : x # a => hookApproval'[x] = hookApproval[x]
    BY <1>4, <2>4
  <2>8. hookApproval' \in [HookApprovals -> ApprovalItems]
    BY <1>4, <2>4, <2>6, <2>7
  <2>9. ASSUME NEW k \in Keys
        PROVE  /\ IsFiniteSet(Storing(k)')
               /\ gatedWrites'[k] + Cardinality(Storing(k)') <= Cardinality(UsedFor(k)')
    <3>1. /\ IsFiniteSet(Storing(k)) /\ gatedWrites[k] \in Nat
          /\ gatedWrites[k] + Cardinality(Storing(k)) <= Cardinality(UsedFor(k))
      BY DEF AdminInv, ApprovalsCover, HookTables
    <3>2. IsFiniteSet(UsedFor(k))
      BY HookAssumption, FS_Subset DEF UsedFor
    <3>3. CASE k = K
      <4>1. Storing(k)' = Storing(k) \cup {c} /\ c \notin Storing(k)
        BY <1>1, <2>3, <3>3 DEF Storing
      <4>2. UsedFor(k)' = UsedFor(k) \cup {a} /\ a \notin UsedFor(k)
        BY <2>4, <2>6, <2>7, <3>3 DEF UsedFor
      <4>3. /\ IsFiniteSet(Storing(k) \cup {c})
            /\ Cardinality(Storing(k) \cup {c}) = Cardinality(Storing(k)) + 1
            /\ Cardinality(UsedFor(k) \cup {a}) = Cardinality(UsedFor(k)) + 1
        BY <3>1, <3>2, <4>1, <4>2, FS_AddElement
      <4>4. Cardinality(Storing(k)) \in Nat /\ Cardinality(UsedFor(k)) \in Nat
        BY <3>1, <3>2, FS_CardinalityType
      <4> QED BY <1>3, <3>1, <4>1, <4>2, <4>3, <4>4
    <3>4. CASE k # K
      <4>1. Storing(k)' = Storing(k)
        <5>1. ASSUME NEW d \in Admins PROVE d \in Storing(k)' <=> d \in Storing(k)
          BY <1>1, <2>3, <3>4 DEF Storing
        <5> QED BY <5>1 DEF Storing
      <4>2. UsedFor(k)' = UsedFor(k)
        <5>1. ASSUME NEW x \in HookApprovals PROVE x \in UsedFor(k)' <=> x \in UsedFor(k)
          BY <2>4, <2>6, <2>7, <3>4 DEF UsedFor
        <5> QED BY <5>1 DEF UsedFor
      <4> QED BY <1>3, <3>1, <4>1, <4>2
    <3> QED BY <3>3, <3>4
  <2>10. ApprovalsCover'
    BY <2>9 DEF ApprovalsCover
  <2> QED BY <1>5, <1>6, <2>2, <2>8, <2>10 DEF AdminInv
<1>10. CASE AdminAnswer(c) /\ UNCHANGED hookApproval
  BY <1>1, <1>3, <1>7, <1>10, AdminMoves DEF AdminAnswer, adminVars, bindingHistory
<1>11. CASE RequestApproval(b) /\ AdminAnswer(c)
  <2>1. PICK x \in HookApprovals :
          /\ hookApproval[x].status = "absent"
          /\ hookApproval' = [hookApproval EXCEPT ![x] = [status |-> "pending", resource |-> Resource(b)]]
    BY <1>11 DEF RequestApproval
  <2>2. [status |-> "pending", resource |-> Resource(b)] \in ApprovalItems
    BY <1>2 DEF ApprovalItems
  <2>3. hookApproval' \in [HookApprovals -> ApprovalItems]
    BY <1>4, <2>1, <2>2
  <2>4. ASSUME NEW k \in Keys PROVE UsedFor(k)' = UsedFor(k)
    <3>1. ASSUME NEW y \in HookApprovals PROVE y \in UsedFor(k)' <=> y \in UsedFor(k)
      BY <1>4, <2>1 DEF UsedFor
    <3> QED BY <3>1 DEF UsedFor
  <2>5. AdminsOK'
    BY <1>7, <1>11, AdminGoesOK DEF AdminAnswer
  <2>6. \A k \in Keys : Storing(k)' = Storing(k)
    BY <1>1, <1>7, <1>11, StoringKept DEF AdminAnswer
  <2>7. ApprovalsCover'
    BY <1>3, <2>4, <2>6 DEF AdminInv, ApprovalsCover
  <2> QED BY <1>5, <1>6, <2>3, <2>5, <2>7 DEF AdminInv
<1> QED BY <1>8, <1>9, <1>10, <1>11 DEF runtimeHookBindingApprovalGate

LEMMA BindingStep ==
  ASSUME AdminInv, NEW c \in Admins, UpsertBinding(c)
  PROVE  AdminInv'
<1> DEFINE b == admin[c].row
           K == Resource(b)
<1>1. admin[c].pc = "upsert_binding" /\ admin[c] \in BindingLocals /\ AdminOK(admin[c])
  BY AdminKinds DEF UpsertBinding, AdminAt
<1>2. b \in Bindings /\ K \in Keys /\ admin[c].gated \in BOOLEAN
  BY <1>1, ResourceIsKey DEF BindingLocals
<1>3. UNCHANGED <<hookProvider, hookManifest, manifestVersion, hookApproval>>
  BY DEF UpsertBinding
<1>4. AdminsOK'
  BY IdleIsOK, AdminGoesOK DEF UpsertBinding, AdminAnswer
<1>5. ASSUME NEW d \in Admins PROVE admin'[d] = IF d = c THEN IdleHooks ELSE admin[d]
  BY DEF AdminInv, AdminsOK, AdminGoes, UpsertBinding, AdminAnswer
<1>6. ASSUME NEW k \in Keys
      PROVE  /\ UsedFor(k)' = UsedFor(k)
             /\ Storing(k)' = Storing(k) \ {c}
             /\ c \in Storing(k) <=> admin[c].gated /\ k = K
             /\ IsFiniteSet(Storing(k)) /\ IsFiniteSet(Storing(k)')
             /\ Cardinality(Storing(k)) \in Nat /\ Cardinality(UsedFor(k)) \in Nat
             /\ Cardinality(Storing(k)') =
                  IF c \in Storing(k) THEN Cardinality(Storing(k)) - 1 ELSE Cardinality(Storing(k))
             /\ gatedWrites[k] \in Nat
             /\ gatedWrites[k] + Cardinality(Storing(k)) <= Cardinality(UsedFor(k))
  <2>1. UsedFor(k)' = UsedFor(k)
    BY <1>3 DEF UsedFor
  <2>2. Storing(k)' = Storing(k) \ {c}
    BY <1>5 DEF Storing, IdleHooks
  <2>3. c \in Storing(k) <=> admin[c].gated /\ k = K
    BY <1>1 DEF Storing
  <2>4. /\ IsFiniteSet(Storing(k)) /\ gatedWrites[k] \in Nat
        /\ gatedWrites[k] + Cardinality(Storing(k)) <= Cardinality(UsedFor(k))
    BY DEF AdminInv, ApprovalsCover, HookTables
  <2>5. IsFiniteSet(UsedFor(k))
    BY HookAssumption, FS_Subset DEF UsedFor
  <2>6. /\ IsFiniteSet(Storing(k) \ {c})
        /\ Cardinality(Storing(k) \ {c}) =
             IF c \in Storing(k) THEN Cardinality(Storing(k)) - 1 ELSE Cardinality(Storing(k))
    BY <2>4, FS_RemoveElement
  <2>7. Cardinality(Storing(k)) \in Nat /\ Cardinality(UsedFor(k)) \in Nat
    BY <2>4, <2>5, FS_CardinalityType
  <2> QED BY <2>1, <2>2, <2>3, <2>4, <2>6, <2>7
<1>8. CASE UNCHANGED <<hookBinding, bindingHistory>>
  <2>1. HookTables' /\ GatedStored'
    BY <1>3, <1>8 DEF AdminInv, HookTables, GatedStored, bindingHistory
  <2>2. ApprovalsCover'
    <3> SUFFICES ASSUME NEW k \in Keys
                 PROVE  /\ IsFiniteSet(Storing(k)')
                        /\ gatedWrites'[k] + Cardinality(Storing(k)') <= Cardinality(UsedFor(k)')
      BY DEF ApprovalsCover
    <3> QED BY <1>6, <1>8 DEF bindingHistory
  <2> QED BY <1>4, <2>1, <2>2 DEF AdminInv
<1>9. CASE /\ StoreBinding(b)
           /\ gatedWrites' = [gatedWrites EXCEPT ![K] = @ + IF admin[c].gated THEN 1 ELSE 0]
           /\ bindingWriter' = [bindingWriter EXCEPT ![K] =
                                  IF admin[c].gated THEN "approved" ELSE "request"]
  <2>1. hookBinding' = [hookBinding EXCEPT ![K] = b]
    BY <1>9 DEF StoreBinding, Resource
  <2>2. gatedWrites'[K] = gatedWrites[K] + (IF admin[c].gated THEN 1 ELSE 0)
        /\ \A k \in Keys : k # K => gatedWrites'[k] = gatedWrites[k]
    BY <1>2, <1>9 DEF AdminInv, HookTables
  <2>3. HookTables'
    BY <1>2, <1>3, <1>9, <2>1 DEF AdminInv, HookTables
  <2>4. ApprovalsCover'
    <3> SUFFICES ASSUME NEW k \in Keys
                 PROVE  /\ IsFiniteSet(Storing(k)')
                        /\ gatedWrites'[k] + Cardinality(Storing(k)') <= Cardinality(UsedFor(k)')
      BY DEF ApprovalsCover
    <3>1. CASE k = K
      BY <1>2, <1>6, <2>2, <3>1
    <3>2. CASE k # K
      BY <1>6, <2>2, <3>2
    <3> QED BY <3>1, <3>2
  <2>5. GatedStored'
    <3> SUFFICES ASSUME NEW k \in Keys, hookBinding'[k].status # "absent", AsksApproval(hookBinding'[k])
                 PROVE  bindingWriter'[k] \in {"earlier", "approved", "sync"}
      BY DEF GatedStored, AsksApproval, ApprovalPolicyMatches, ProviderType
    <3>1. CASE k = K
      <4>1. hookBinding'[k] = b
        BY <2>1, <3>1 DEF AdminInv, HookTables
      <4>2. admin[c].gated
        BY <1>1, <4>1 DEF AdminOK
      <4> QED BY <1>2, <1>9, <3>1, <4>2 DEF AdminInv, HookTables
    <3>2. CASE k # K
      <4>1. hookBinding'[k] = hookBinding[k] /\ bindingWriter'[k] = bindingWriter[k]
        BY <1>9, <2>1, <3>2 DEF AdminInv, HookTables
      <4> QED BY <4>1 DEF AdminInv, GatedStored
    <3> QED BY <3>1, <3>2
  <2> QED BY <1>4, <2>3, <2>4, <2>5 DEF AdminInv
<1> QED BY <1>8, <1>9 DEF UpsertBinding

-----------------------------------------------------------------------------
(* The sync of a plugin, and failures of the store                         *)

LEMMA PluginRowsTyped ==
  /\ PluginProvider \in Providers
  /\ \A m \in HookManifests : PluginBinding(m) \in Bindings
BY HookAssumption DEF PluginProvider, Providers, HookHealth, PluginBinding, Bindings, HookManifests

\* The sync goes on with the hooks left, or ends.
LEMMA SyncMoves ==
  ASSUME NEW c \in Admins, NEW list \in Seq(HookManifests), SyncGoesOn(c, list)
  PROVE  \E r : AdminOK(r) /\ r.pc # "upsert_binding" /\ AdminGoes(c, r)
<1>1. CASE list = <<>>
  BY <1>1, IdleIsOK DEF SyncGoesOn, AdminAnswer, IdleHooks
<1>2. CASE list # <<>>
  <2>1. AdminOK([pc |-> "sync_manifest", hooks |-> list])
    BY <1>2 DEF AdminOK, AdminLocals, SyncLocals
  <2> QED BY <1>2, <2>1 DEF SyncGoesOn
<1> QED BY <1>1, <1>2

LEMMA SyncSteps ==
  ASSUME AdminInv, NEW c \in Admins,
         SyncProvider(c) \/ SyncStoreProvider(c) \/ SyncManifest(c) \/ SyncBinding(c)
  PROVE  AdminInv'
<1> DEFINE hooks == admin[c].hooks
           row   == Head(admin[c].hooks)
<1>1. admin[c] \in SyncLocals /\ admin[c].pc # "upsert_binding" /\ hooks # <<>>
  BY AdminKinds DEF SyncProvider, SyncStoreProvider, SyncManifest, SyncBinding, AdminAt, AdminOK
<1>2. hooks \in Seq(HookManifests)
  BY <1>1 DEF SyncLocals
<1>3. row \in HookManifests /\ Tail(hooks) \in Seq(HookManifests)
  BY <1>1, <1>2
<1>4. IdleHooks.pc # "upsert_binding" /\ AdminOK(IdleHooks)
  BY IdleIsOK DEF IdleHooks
<1>5. ASSUME NEW pc \in {"sync_provider", "sync_store", "sync_manifest", "sync_binding"}
      PROVE  AdminOK([pc |-> pc, hooks |-> hooks])
  BY <1>1, <1>2 DEF AdminOK, AdminLocals, SyncLocals
<1>6. CASE SyncProvider(c)
  <2>1. UNCHANGED adminVars
    BY <1>6 DEF SyncProvider
  <2>2. CASE AdminAnswer(c)
    BY <1>1, <1>4, <2>1, <2>2, AdminMoves DEF AdminAnswer
  <2>3. CASE AdminGoes(c, [pc |-> "sync_store", hooks |-> hooks])
    BY <1>1, <1>5, <2>1, <2>3, AdminMoves
  <2> QED BY <1>6, <2>2, <2>3 DEF SyncProvider
<1>7. CASE SyncStoreProvider(c)
  <2>1. PICK r : AdminOK(r) /\ r.pc # "upsert_binding" /\ AdminGoes(c, r)
    BY <1>2, <1>7, SyncMoves DEF SyncStoreProvider
  <2>2. AdminsOK'
    BY <2>1, AdminGoesOK
  <2>3. \A k \in Keys : Storing(k)' = Storing(k)
    BY <1>1, <2>1, StoringKept
  <2>4. HookTables' /\ GatedStored'
    BY <1>7, PluginRowsTyped DEF SyncStoreProvider, StoreProvider, AdminInv, HookTables, GatedStored,
                                 bindingHistory
  <2>5. ApprovalsCover'
    BY <1>7, <2>3 DEF SyncStoreProvider, AdminInv, ApprovalsCover, UsedFor, bindingHistory
  <2> QED BY <2>2, <2>4, <2>5 DEF AdminInv
<1>8. CASE SyncManifest(c)
  <2>1. CASE AdminAnswer(c) /\ UNCHANGED <<hookManifest, manifestVersion>>
    <3>1. UNCHANGED adminVars
      BY <1>8, <2>1 DEF SyncManifest, adminVars
    <3> QED BY <1>1, <1>4, <2>1, <3>1, AdminMoves DEF AdminAnswer
  <2>2. CASE StoreManifest(row) /\ IF row.status = "enabled"
                                     THEN AdminGoes(c, [pc |-> "sync_binding", hooks |-> hooks])
                                     ELSE SyncGoesOn(c, Tail(hooks))
    <3>1. PICK r : AdminOK(r) /\ r.pc # "upsert_binding" /\ AdminGoes(c, r)
      <4>1. CASE row.status = "enabled"
        BY <1>5, <2>2, <4>1
      <4>2. CASE row.status # "enabled"
        BY <1>3, <2>2, <4>2, SyncMoves
      <4> QED BY <4>1, <4>2
    <3>2. UNCHANGED <<hookProvider, hookBinding, hookApproval, bindingHistory>>
      BY <1>8 DEF SyncManifest
    <3> QED BY <1>1, <1>3, <2>2, <3>1, <3>2, ManifestStored
  <2> QED BY <1>8, <2>1, <2>2 DEF SyncManifest
<1>9. CASE SyncBinding(c)
  <2> DEFINE b == PluginBinding(row)
             K == Resource(b)
  <2>1. b \in Bindings /\ K \in Keys
    BY <1>3, PluginRowsTyped, ResourceIsKey
  <2>2. UNCHANGED <<hookProvider, hookManifest, manifestVersion, hookApproval, gatedWrites>>
    BY <1>9 DEF SyncBinding
  <2>3. CASE AdminAnswer(c) /\ UNCHANGED <<hookBinding, bindingWriter>>
    <3>1. UNCHANGED adminVars
      BY <2>2, <2>3 DEF adminVars, bindingHistory
    <3> QED BY <1>1, <1>4, <2>3, <3>1, AdminMoves DEF AdminAnswer
  <2>4. CASE /\ StoreBinding(b) /\ SyncGoesOn(c, Tail(hooks))
             /\ bindingWriter' = [bindingWriter EXCEPT ![K] = "sync"]
    <3>1. PICK r : AdminOK(r) /\ r.pc # "upsert_binding" /\ AdminGoes(c, r)
      BY <1>3, <2>4, SyncMoves
    <3>2. AdminsOK'
      BY <3>1, AdminGoesOK
    <3>3. \A k \in Keys : Storing(k)' = Storing(k)
      BY <1>1, <3>1, StoringKept
    <3>4. ApprovalsCover'
      BY <2>2, <3>3 DEF AdminInv, ApprovalsCover, UsedFor
    <3>5. hookBinding' = [hookBinding EXCEPT ![K] = b]
      BY <2>4 DEF StoreBinding, Resource
    <3>6. HookTables'
      BY <2>1, <2>2, <2>4, <3>5 DEF AdminInv, HookTables
    <3>7. GatedStored'
      <4> SUFFICES ASSUME NEW k \in Keys, hookBinding'[k].status # "absent", AsksApproval(hookBinding'[k])
                   PROVE  bindingWriter'[k] \in {"earlier", "approved", "sync"}
        BY DEF GatedStored, AsksApproval, ApprovalPolicyMatches, ProviderType
      <4>1. CASE k = K
        BY <2>1, <2>4, <4>1 DEF AdminInv, HookTables
      <4>2. CASE k # K
        <5>1. hookBinding'[k] = hookBinding[k] /\ bindingWriter'[k] = bindingWriter[k]
          BY <2>4, <3>5, <4>2 DEF AdminInv, HookTables
        <5> QED BY <5>1 DEF AdminInv, GatedStored
      <4> QED BY <4>1, <4>2
    <3> QED BY <3>2, <3>4, <3>6, <3>7 DEF AdminInv
  <2> QED BY <1>9, <2>3, <2>4 DEF SyncBinding
<1> QED BY <1>6, <1>7, <1>8, <1>9

\* A binding whose approval was used and that is not stored only leaves Storing.
LEMMA StoreFailsStep ==
  ASSUME AdminInv, NEW c \in Admins, HookStoreFails(c)
  PROVE  AdminInv'
<1>1. UNCHANGED adminVars /\ AdminGoes(c, IdleHooks)
  BY DEF HookStoreFails, AdminAnswer
<1>2. AdminsOK'
  BY <1>1, IdleIsOK, AdminGoesOK
<1>3. HookTables' /\ GatedStored'
  BY <1>1 DEF AdminInv, HookTables, GatedStored, adminVars, bindingHistory
<1>4. ASSUME NEW d \in Admins PROVE admin'[d] = IF d = c THEN IdleHooks ELSE admin[d]
  BY <1>1 DEF AdminInv, AdminsOK, AdminGoes
<1>5. ApprovalsCover'
  <2> SUFFICES ASSUME NEW k \in Keys
               PROVE  /\ IsFiniteSet(Storing(k)')
                      /\ gatedWrites'[k] + Cardinality(Storing(k)') <= Cardinality(UsedFor(k)')
    BY DEF ApprovalsCover
  <2>1. /\ IsFiniteSet(Storing(k)) /\ gatedWrites[k] \in Nat
        /\ gatedWrites[k] + Cardinality(Storing(k)) <= Cardinality(UsedFor(k))
    BY DEF AdminInv, ApprovalsCover, HookTables
  <2>2. Storing(k)' \subseteq Storing(k)
    BY <1>4 DEF Storing, IdleHooks
  <2>3. IsFiniteSet(Storing(k)') /\ Cardinality(Storing(k)') <= Cardinality(Storing(k))
    BY <2>1, <2>2, FS_Subset
  <2>4. Cardinality(Storing(k)) \in Nat /\ Cardinality(Storing(k)') \in Nat
    BY <2>1, <2>3, FS_CardinalityType
  <2>5. IsFiniteSet(UsedFor(k))
    BY HookAssumption, FS_Subset DEF UsedFor
  <2>6. Cardinality(UsedFor(k)) \in Nat
    BY <2>5, FS_CardinalityType
  <2>7. UsedFor(k)' = UsedFor(k) /\ gatedWrites' = gatedWrites
    BY <1>1 DEF UsedFor, adminVars, bindingHistory
  <2> QED BY <2>1, <2>3, <2>4, <2>6, <2>7
<1> QED BY <1>2, <1>3, <1>5 DEF AdminInv

LEMMA ApproverStep ==
  ASSUME AdminInv, NEW a \in HookApprovals, NEW status \in {"approved", "rejected"},
         ResolveApproval(a, status)
  PROVE  AdminInv'
<1>1. /\ hookApproval \in [HookApprovals -> ApprovalItems] /\ hookApproval[a].status = "pending"
      /\ hookApproval' = [hookApproval EXCEPT ![a].status = status]
  BY DEF AdminInv, HookTables, ResolveApproval
<1>2. hookApproval[a] \in [status : {"pending", "approved", "rejected", "used"}, resource : Keys]
  BY <1>1 DEF ApprovalItems, NoRow
<1>3. [hookApproval[a] EXCEPT !.status = status] \in ApprovalItems
  BY <1>2 DEF ApprovalItems
<1>4. hookApproval' \in [HookApprovals -> ApprovalItems] /\ hookApproval'[a].status = status
  BY <1>1, <1>2, <1>3
<1>5. UNCHANGED <<hookProvider, hookManifest, manifestVersion, hookBinding, gatedWrites, bindingWriter,
                  admin>>
  BY DEF ResolveApproval, bindingHistory
<1>6. ASSUME NEW k \in Keys PROVE UsedFor(k)' = UsedFor(k) /\ Storing(k)' = Storing(k)
  <2>1. ASSUME NEW x \in HookApprovals PROVE x \in UsedFor(k)' <=> x \in UsedFor(k)
    BY <1>1, <1>4 DEF UsedFor
  <2> QED BY <1>5, <2>1 DEF UsedFor, Storing
<1> QED BY <1>4, <1>5, <1>6 DEF AdminInv, HookTables, AdminsOK, ApprovalsCover, GatedStored

LEMMA AdminUnchanged ==
  ASSUME AdminInv, UNCHANGED <<adminVars, admin>>
  PROVE  AdminInv'
BY DEF AdminInv, HookTables, AdminsOK, ApprovalsCover, GatedStored, UsedFor, Storing, adminVars,
       bindingHistory

-----------------------------------------------------------------------------
(* The invocation of hooks                                                 *)

RunRecords ==
  [pc : {"next", "provider", "go", "connect", "send", "apply"}, phase : Phases, todo : Seq(Bindings),
   merged : Seq(Merged), provider : Providers \cup {NoRow}, sent : Nat]

LEMMA RunKinds ==
  ASSUME HookRunOK, hookRun.pc # "idle"
  PROVE  hookRun \in RunRecords
BY DEF HookRunOK, HookRunLocals, IdleHooks, RunRecords

\* What has been seen enabled is not forgotten before the invocation ends.
LEMMA SeenGrows ==
  ASSUME HookRunOK, NoteEnabled, hookRun'.pc # "idle"
  PROVE  /\ seenEnabled' \in [provider : BOOLEAN, manifests : SUBSET HookIds]
         /\ seenEnabled.provider => seenEnabled'.provider
         /\ seenEnabled.manifests \subseteq seenEnabled'.manifests
         /\ hookProvider'.status = "enabled" => seenEnabled'.provider
         /\ \A h \in HookIds : hookManifest'[h].status = "enabled" => h \in seenEnabled'.manifests
<1> DEFINE S == {h \in HookIds : hookManifest'[h].status = "enabled"}
<1>1. seenEnabled' = [provider  |-> seenEnabled.provider \/ hookProvider'.status = "enabled",
                      manifests |-> seenEnabled.manifests \cup S]
  BY DEF NoteEnabled
<1>2. seenEnabled.manifests \subseteq HookIds /\ S \subseteq HookIds
  BY DEF HookRunOK
<1>3. seenEnabled'.manifests = seenEnabled.manifests \cup S
  BY <1>1
<1>4. seenEnabled'.provider = (seenEnabled.provider \/ hookProvider'.status = "enabled")
  BY <1>1
<1>5. seenEnabled' \in [provider : BOOLEAN, manifests : SUBSET HookIds]
  <2>1. (seenEnabled.provider \/ hookProvider'.status = "enabled") \in BOOLEAN
    OBVIOUS
  <2>2. seenEnabled.manifests \cup S \in SUBSET HookIds
    BY <1>2
  <2> QED BY <1>1, <2>1, <2>2
<1>6. seenEnabled.provider => seenEnabled'.provider
  BY <1>4
<1>7. hookProvider'.status = "enabled" => seenEnabled'.provider
  BY <1>4
<1>8. seenEnabled.manifests \subseteq seenEnabled'.manifests
  BY <1>3
<1>9. \A h \in HookIds : hookManifest'[h].status = "enabled" => h \in seenEnabled'.manifests
  BY <1>3
<1> QED BY <1>5, <1>6, <1>7, <1>8, <1>9

LEMMA SeenForKept ==
  ASSUME HookRunOK, NoteEnabled, hookRun'.pc # "idle"
  PROVE  /\ \A b : SeenFor(b, seenEnabled) => SeenFor(b, seenEnabled')
         /\ \A m : MergedOK(m, seenEnabled) => MergedOK(m, seenEnabled')
<1>1. ASSUME NEW b, SeenFor(b, seenEnabled) PROVE SeenFor(b, seenEnabled')
  BY <1>1, SeenGrows DEF SeenFor
<1> QED BY <1>1 DEF MergedOK

\* Steps of requests leave the invocation alone.
LEMMA RunKept ==
  ASSUME HookRunOK, NoteEnabled, UNCHANGED <<hookRun, hookEvents>>
  PROVE  HookRunOK'
<1>1. CASE hookRun.pc = "idle"
  <2>1. seenEnabled' = NoneSeen
    BY <1>1 DEF NoteEnabled
  <2>2. NoneSeen \in [provider : BOOLEAN, manifests : SUBSET HookIds]
    BY DEF NoneSeen
  <2> QED BY <1>1, <2>1, <2>2 DEF HookRunOK
<1>2. CASE hookRun.pc # "idle"
  <2>1. \A i \in DOMAIN hookRun'.merged : MergedOK(hookRun'.merged[i], seenEnabled')
    BY <1>2, SeenForKept DEF HookRunOK
  <2>2. hookRun'.pc \in {"go", "connect", "send"} => SeenFor(Current', seenEnabled')
    BY <1>2, SeenForKept DEF HookRunOK, Current
  <2>3. hookRun'.pc = "provider" => Named(Current') /\
          (Current'.kind = "static_hook_host" => Current'.hook \in seenEnabled'.manifests)
    BY <1>2, SeenGrows DEF HookRunOK, Current
  <2> QED BY <1>2, <2>1, <2>2, <2>3, SeenGrows DEF HookRunOK
<1> QED BY <1>1, <1>2

\* The invocation is at one of its steps for the first of the bindings left.
AtBinding == hookRun.pc \in {"next", "provider", "go", "connect", "send"} /\ hookRun.todo # <<>>

LEMMA BindingFacts ==
  ASSUME HookRunOK, AtBinding
  PROVE  /\ hookRun \in RunRecords
         /\ Current \in Bindings /\ Tail(hookRun.todo) \in Seq(Bindings) /\ <<Current>> \in Seq(Bindings)
<1>1. hookRun \in RunRecords
  BY RunKinds DEF AtBinding
<1>2. hookRun.todo \in Seq(Bindings) /\ hookRun.todo # <<>>
  BY <1>1 DEF RunRecords, AtBinding
<1> QED BY <1>1, <1>2 DEF Current

\* A new state of the invocation between two bindings, or at its end.
LEMMA RunMoves ==
  ASSUME HookRunOK, NoteEnabled, NEW r \in RunRecords, hookRun' = r, r.pc \in {"next", "apply"},
         \A i \in DOMAIN r.merged : MergedOK(r.merged[i], seenEnabled'),
         hookEvents' \in Seq(HookEventRows)
  PROVE  HookRunOK'
<1>1. hookRun' \in HookRunLocals /\ hookRun'.pc # "idle"
  BY DEF HookRunLocals, RunRecords
<1>2. /\ hookProvider'.status = "enabled" => seenEnabled'.provider
      /\ \A h \in HookIds : hookManifest'[h].status = "enabled" => h \in seenEnabled'.manifests
      /\ seenEnabled' \in [provider : BOOLEAN, manifests : SUBSET HookIds]
  BY <1>1, SeenGrows
<1> QED BY <1>1, <1>2 DEF HookRunOK

LEMMA EventSaved ==
  ASSUME HookRunOK, NEW h \in HookIds \cup {0},
         NEW status \in {"ok", "no_op", "rejected", "failed", "timeout", "observed"}, SaveEvent(h, status)
  PROVE  hookEvents' \in Seq(HookEventRows)
<1>1. [hook |-> h, status |-> status] \in HookEventRows /\ hookEvents \in Seq(HookEventRows)
  BY DEF HookEventRows, HookRunOK
<1> QED BY <1>1 DEF SaveEvent

LEMMA FailsOK ==
  ASSUME HookRunOK, NoteEnabled, AtBinding,
         NEW status \in {"rejected", "failed", "timeout"}, Fails(status)
  PROVE  HookRunOK'
<1>1. /\ hookRun \in RunRecords
      /\ Current \in Bindings /\ Tail(hookRun.todo) \in Seq(Bindings) /\ <<Current>> \in Seq(Bindings)
  BY BindingFacts
<1>2. hookEvents' \in Seq(HookEventRows)
  BY <1>1, EventSaved DEF Fails, Bindings
<1>3. CASE Current.failure = "reject"
  <2> DEFINE r == [hookRun EXCEPT !.pc = "apply", !.todo = <<Current>>, !.merged = <<>>, !.sent = 0]
  <2>1. hookRun' = r
    BY <1>3 DEF Fails
  <2>2. <<>> \in Seq(Merged) /\ DOMAIN <<>> = {}
    OBVIOUS
  <2>3. r.pc = "apply" /\ r.merged = <<>>
    BY <1>1 DEF RunRecords
  <2>4. r \in RunRecords
    BY <1>1, <2>2 DEF RunRecords
  <2>5. \A i \in DOMAIN r.merged : MergedOK(r.merged[i], seenEnabled')
    BY <2>2, <2>3
  <2> HIDE DEF r
  <2> QED BY <1>2, <2>1, <2>3, <2>4, <2>5, RunMoves
<1>4. CASE Current.failure # "reject"
  <2> DEFINE r == [hookRun EXCEPT !.pc = "next", !.todo = Tail(@), !.sent = 0]
  <2>1. hookRun' = r
    BY <1>4 DEF Fails
  <2>2. r \in RunRecords /\ r.pc = "next" /\ r.merged = hookRun.merged
    BY <1>1 DEF RunRecords
  <2>3. hookRun.pc # "idle" /\ hookRun'.pc # "idle"
    BY <2>1, <2>2 DEF AtBinding
  <2>4. \A i \in DOMAIN hookRun.merged : MergedOK(hookRun.merged[i], seenEnabled')
    BY <2>3, SeenForKept DEF HookRunOK
  <2> QED BY <1>2, <2>1, <2>2, <2>4, RunMoves
<1> QED BY <1>3, <1>4

LEMMA SucceedsOK ==
  ASSUME HookRunOK, NoteEnabled, AtBinding, SeenFor(Current, seenEnabled),
         NEW status \in {"ok", "no_op"}, NEW change \in HookPatches, validatePatch(change),
         Succeeds(status, change)
  PROVE  HookRunOK'
<1>1. /\ hookRun \in RunRecords
      /\ Current \in Bindings /\ Tail(hookRun.todo) \in Seq(Bindings)
  BY BindingFacts
<1>2. hookEvents' \in Seq(HookEventRows)
  BY <1>1, EventSaved DEF Succeeds, Bindings
<1> DEFINE m == [hook |-> Current, patch |-> change]
           list == IF hasPatch(change) THEN Append(hookRun.merged, m) ELSE hookRun.merged
           r == [hookRun EXCEPT !.pc = "next", !.todo = Tail(@), !.sent = 0, !.merged = list]
<1>3. hookRun' = r
  BY DEF Succeeds
<1>4. m \in Merged /\ hookRun.merged \in Seq(Merged)
  BY <1>1 DEF Merged, RunRecords
<1>5. list \in Seq(Merged)
  BY <1>4
<1>6. r \in RunRecords /\ r.pc = "next" /\ r.merged = list
  BY <1>1, <1>5 DEF RunRecords
<1>7. hookRun.pc # "idle" /\ hookRun'.pc # "idle"
  BY <1>3, <1>6 DEF AtBinding
<1>8. \A i \in DOMAIN hookRun.merged : MergedOK(hookRun.merged[i], seenEnabled')
  BY <1>7, SeenForKept DEF HookRunOK
<1>9. MergedOK(m, seenEnabled')
  <2>1. SeenFor(Current, seenEnabled')
    BY <1>7, SeenForKept
  <2> QED BY <2>1 DEF MergedOK, validatePatch, validatePatchSensitiveFields
<1>10. ASSUME NEW i \in DOMAIN list PROVE MergedOK(list[i], seenEnabled')
  <2>1. CASE hasPatch(change)
    <3>1. i \in DOMAIN hookRun.merged \/ i = Len(hookRun.merged) + 1
      BY <1>4, <2>1
    <3>2. CASE i \in DOMAIN hookRun.merged
      <4>1. list[i] = hookRun.merged[i]
        BY <1>4, <2>1, <3>2
      <4> QED BY <1>8, <3>2, <4>1
    <3>3. CASE i = Len(hookRun.merged) + 1
      <4>1. list[i] = m
        BY <1>4, <2>1, <3>3
      <4> QED BY <1>9, <4>1
    <3> QED BY <3>1, <3>2, <3>3
  <2>2. CASE ~hasPatch(change)
    BY <1>8, <2>2
  <2> QED BY <2>1, <2>2
<1> QED BY <1>2, <1>3, <1>6, <1>10, RunMoves

\* An enabled manifest is found for a static binding before its provider is looked at.
LEMMA ManifestSeen ==
  ASSUME AdminInv, HookRunOK, AtBinding, validateBindingManifest(Current),
         Current.kind = "static_hook_host"
  PROVE  Current.hook \in seenEnabled.manifests
<1>1. Current \in Bindings
  BY BindingFacts
<1>2. hookManifest[Current.hook].status = "enabled"
  BY DEF validateBindingManifest, Named
<1> QED BY <1>1, <1>2 DEF HookRunOK, Bindings, AtBinding

\* The invocation goes on with the same binding.
LEMMA RunAdvances ==
  ASSUME HookRunOK, NoteEnabled, AtBinding, NEW r \in RunRecords, hookRun' = r,
         r.todo = hookRun.todo, r.merged = hookRun.merged, UNCHANGED hookEvents,
         r.pc = "provider" => Named(Current) /\
           (Current.kind = "static_hook_host" => Current.hook \in seenEnabled.manifests),
         r.pc \in {"go", "connect", "send"} => SeenFor(Current, seenEnabled')
  PROVE  HookRunOK'
<1>1. hookRun' \in HookRunLocals /\ hookRun'.pc # "idle" /\ hookRun.pc # "idle"
  BY DEF HookRunLocals, RunRecords, AtBinding
<1>2. /\ hookProvider'.status = "enabled" => seenEnabled'.provider
      /\ \A h \in HookIds : hookManifest'[h].status = "enabled" => h \in seenEnabled'.manifests
      /\ seenEnabled' \in [provider : BOOLEAN, manifests : SUBSET HookIds]
      /\ seenEnabled.manifests \subseteq seenEnabled'.manifests
  BY <1>1, SeenGrows
<1>3. \A i \in DOMAIN hookRun'.merged : MergedOK(hookRun'.merged[i], seenEnabled')
  BY <1>1, SeenForKept DEF HookRunOK
<1>4. Current' = Current /\ hookRun'.todo # <<>>
  BY DEF Current, AtBinding
<1>5. hookEvents' \in Seq(HookEventRows)
  BY DEF HookRunOK
<1> QED BY <1>1, <1>2, <1>3, <1>4, <1>5 DEF HookRunOK

LEMMA RunSteps ==
  ASSUME HookInv, HookRunStep, NoteEnabled
  PROVE  HookRunOK'
<1>0. HookRunOK /\ AdminInv
  BY DEF HookInv
<1>1. CASE \E phase \in Phases : applyRuntimeHook(phase) \/ runtimeHookPreview(phase)
  <2>1. PICK phase \in Phases : Invoke(phase)
    BY <1>1 DEF applyRuntimeHook, runtimeHookPreview
  <2>2. PICK all \in bindings(phase) :
          hookRun' = [pc |-> "next", phase |-> phase, todo |-> all, merged |-> <<>>,
                      provider |-> NoRow, sent |-> 0]
    BY <2>1 DEF Invoke
  <2>3. PICK listed \in ListBindings(phase) : all = listed \o AgentHooks
    BY <2>2 DEF bindings
  <2> DEFINE H == {h \in HookIds : hookBinding[<<h, phase>>].status # "absent"}
  <2>4. PICK list \in InOrder(H) : listed = [i \in DOMAIN list |-> hookBinding[<<list[i], phase>>]]
    BY <2>3 DEF ListBindings
  <2>5. IsFiniteSet(H) /\ Cardinality(H) \in Nat
    BY HookAssumption, FS_Subset, FS_CardinalityType
  <2>6. list \in [1..Cardinality(H) -> H]
    BY <2>4 DEF InOrder
  <2>7. ASSUME NEW h \in H PROVE hookBinding[<<h, phase>>] \in Bindings
    <3>1. <<h, phase>> \in Keys /\ hookBinding[<<h, phase>>].status # "absent"
      BY DEF Keys
    <3> QED BY <1>0, <3>1 DEF AdminInv, HookTables, NoRow
  <2>8. listed \in [1..Cardinality(H) -> Bindings]
    BY <2>4, <2>6, <2>7
  <2> HIDE DEF H
  <2>9. listed \in Seq(Bindings)
    BY <2>5, <2>8
  <2>10. all \in Seq(Bindings) /\ <<>> \in Seq(Merged) /\ DOMAIN <<>> = {}
    BY <2>3, <2>9, HookAssumption
  <2> DEFINE r == [pc |-> "next", phase |-> phase, todo |-> all, merged |-> <<>>,
                   provider |-> NoRow, sent |-> 0]
  <2>11. r \in RunRecords
    BY <2>10 DEF RunRecords
  <2>12. r.pc = "next" /\ \A i \in DOMAIN r.merged : MergedOK(r.merged[i], seenEnabled')
    BY <2>10
  <2>13. hookEvents' \in Seq(HookEventRows)
    BY <1>0, <2>1 DEF Invoke, HookRunOK
  <2> HIDE DEF r
  <2>14. hookRun' = r
    BY <2>2 DEF r
  <2> QED BY <1>0, <2>11, <2>12, <2>13, <2>14, RunMoves
<1>2. CASE SkipBinding
  <2>1. AtBinding
    BY <1>2 DEF SkipBinding, AtBinding, HookRunAt
  <2>2. hookRun \in RunRecords /\ Tail(hookRun.todo) \in Seq(Bindings)
    BY <1>0, <2>1, BindingFacts
  <2> DEFINE r == [hookRun EXCEPT !.todo = Tail(@)]
  <2>3. hookRun' = r /\ hookRun.pc = "next"
    BY <1>2 DEF SkipBinding, HookRunAt
  <2>4. r \in RunRecords /\ r.pc = "next" /\ r.merged = hookRun.merged
    BY <2>2, <2>3 DEF RunRecords
  <2>5. \A i \in DOMAIN hookRun.merged : MergedOK(hookRun.merged[i], seenEnabled')
    BY <1>0, <2>3, <2>4, SeenForKept DEF HookRunOK
  <2>6. hookEvents' \in Seq(HookEventRows)
    BY <1>0, <1>2 DEF SkipBinding, HookRunOK
  <2> QED BY <1>0, <2>3, <2>4, <2>5, <2>6, RunMoves
<1>3. CASE invokeBinding
  <2>1. AtBinding
    BY <1>3 DEF invokeBinding, AtBinding, HookRunAt
  <2>2. CASE Fails("rejected")
    BY <1>0, <2>1, <2>2, FailsOK
  <2>3. CASE ~Fails("rejected")
    <3> DEFINE r == [hookRun EXCEPT !.pc = IF Named(Current) THEN "provider" ELSE "go"]
    <3>1. hookRun' = r /\ UNCHANGED hookEvents /\ validateBindingManifest(Current)
      BY <1>3, <2>3 DEF invokeBinding
    <3>2. hookRun \in RunRecords /\ Current \in Bindings
      BY <1>0, <2>1, BindingFacts
    <3>3. /\ r \in RunRecords /\ r.todo = hookRun.todo /\ r.merged = hookRun.merged
          /\ r.pc = IF Named(Current) THEN "provider" ELSE "go"
      BY <3>2 DEF RunRecords
    <3>4. Current.kind = "static_hook_host" => Current.hook \in seenEnabled.manifests
      BY <1>0, <2>1, <3>1, ManifestSeen
    <3>5. ~Named(Current) => SeenFor(Current, seenEnabled')
      BY DEF SeenFor, Named
    <3> HIDE DEF r
    <3> QED BY <1>0, <2>1, <3>1, <3>3, <3>4, <3>5, RunAdvances
  <2> QED BY <2>2, <2>3
<1>4. CASE readHookProvider
  <2>1. AtBinding
    BY <1>0, <1>4 DEF readHookProvider, AtBinding, HookRunAt, HookRunOK
  <2>2. CASE Fails("rejected")
    BY <1>0, <2>1, <2>2, FailsOK
  <2>3. CASE ~Fails("rejected")
    <3> DEFINE r == [hookRun EXCEPT !.provider = hookProvider,
                       !.pc = IF Current.kind = "static_hook_host" THEN "connect" ELSE "go"]
    <3>1. hookRun' = r /\ UNCHANGED hookEvents /\ ProviderUsable /\ hookRun.pc = "provider"
      BY <1>4, <2>3 DEF readHookProvider, HookRunAt
    <3>2. hookRun \in RunRecords /\ hookProvider \in Providers \cup {NoRow}
      BY <1>0, <2>1, BindingFacts DEF AdminInv, HookTables
    <3>3. /\ r \in RunRecords /\ r.todo = hookRun.todo /\ r.merged = hookRun.merged
          /\ r.pc \in {"connect", "go"}
      BY <3>2 DEF RunRecords
    <3>4. SeenFor(Current, seenEnabled)
      BY <1>0, <3>1 DEF HookRunOK, SeenFor, ProviderUsable
    <3>5. SeenFor(Current, seenEnabled')
      BY <1>0, <3>1, <3>3, <3>4, SeenForKept
    <3> HIDE DEF r
    <3> QED BY <1>0, <2>1, <3>1, <3>3, <3>5, RunAdvances
  <2> QED BY <2>2, <2>3
<1>5. CASE patchFromConfig
  <2>1. AtBinding /\ SeenFor(Current, seenEnabled)
    BY <1>0, <1>5 DEF patchFromConfig, AtBinding, HookRunAt, HookRunOK
  <2>2. Current.config \in HookPatches
    BY <1>0, <2>1, BindingFacts DEF Bindings
  <2>3. CASE validatePatch(Current.config)
    <3>1. PICK status \in {"ok", "no_op"} : Succeeds(status, Current.config)
      BY <1>5, <2>3 DEF patchFromConfig
    <3> QED BY <1>0, <2>1, <2>2, <2>3, <3>1, SucceedsOK
  <2>4. CASE ~validatePatch(Current.config)
    <3>1. Fails("rejected")
      BY <1>5, <2>4 DEF patchFromConfig
    <3> QED BY <1>0, <2>1, <3>1, FailsOK
  <2> QED BY <2>3, <2>4
<1>6. CASE connectHookProvider
  <2>1. AtBinding /\ SeenFor(Current, seenEnabled)
    BY <1>0, <1>6 DEF connectHookProvider, AtBinding, HookRunAt, HookRunOK
  <2>2. CASE Fails("rejected")
    BY <1>0, <2>1, <2>2, FailsOK
  <2>3. CASE ~Fails("rejected")
    <3> DEFINE r == [hookRun EXCEPT !.pc = "send"]
    <3>1. hookRun' = r /\ UNCHANGED hookEvents
      BY <1>6, <2>3 DEF connectHookProvider
    <3>2. hookRun \in RunRecords
      BY <1>0, <2>1, BindingFacts
    <3>3. /\ r \in RunRecords /\ r.todo = hookRun.todo /\ r.merged = hookRun.merged
          /\ r.pc = "send"
      BY <3>2 DEF RunRecords
    <3>4. SeenFor(Current, seenEnabled')
      BY <1>0, <2>1, <3>1, <3>3, SeenForKept
    <3> HIDE DEF r
    <3> QED BY <1>0, <2>1, <3>1, <3>3, <3>4, RunAdvances
  <2> QED BY <2>2, <2>3
<1>7. CASE invokeStatic
  <2>1. AtBinding /\ SeenFor(Current, seenEnabled) /\ hookRun.pc = "send"
    BY <1>0, <1>7 DEF invokeStatic, AtBinding, HookRunAt, HookRunOK
  <2>2. CASE \E status \in {"rejected", "failed", "timeout"} : Fails(status)
    BY <1>0, <2>1, <2>2, FailsOK
  <2>3. CASE \E change \in HookPatches, status \in {"ok", "no_op"} :
               validatePatch(change) /\ Succeeds(status, change)
    BY <1>0, <2>1, <2>3, SucceedsOK
  <2>4. CASE hookRun' = [hookRun EXCEPT !.sent = @ + 1] /\ UNCHANGED hookEvents
    <3> DEFINE r == [hookRun EXCEPT !.sent = @ + 1]
    <3>2. hookRun \in RunRecords
      BY <1>0, <2>1, BindingFacts
    <3>3. /\ r \in RunRecords /\ r.todo = hookRun.todo /\ r.merged = hookRun.merged
          /\ r.pc = "send"
      BY <2>1, <3>2 DEF RunRecords
    <3>1. hookRun' = r
      BY <2>4
    <3>4. SeenFor(Current, seenEnabled')
      BY <1>0, <2>1, <3>1, <3>3, SeenForKept
    <3> HIDE DEF r
    <3> QED BY <1>0, <2>1, <2>4, <3>1, <3>3, <3>4, RunAdvances
  <2> QED BY <1>7, <2>2, <2>3, <2>4 DEF invokeStatic
<1>8. CASE InvokeEnds
  <2>1. hookRun \in RunRecords /\ hookRun.pc = "next"
    BY <1>0, <1>8, RunKinds DEF InvokeEnds, HookRunAt
  <2>2. hookEvents' \in Seq(HookEventRows)
    BY <1>0, <1>8, EventSaved DEF InvokeEnds
  <2> DEFINE r == [hookRun EXCEPT !.pc = "apply"]
  <2>3. hookRun' = r
    BY <1>8 DEF InvokeEnds
  <2>4. r \in RunRecords /\ r.pc = "apply" /\ r.merged = hookRun.merged
    BY <2>1 DEF RunRecords
  <2>5. \A i \in DOMAIN hookRun.merged : MergedOK(hookRun.merged[i], seenEnabled')
    BY <1>0, <2>1, <2>3, <2>4, SeenForKept DEF HookRunOK
  <2> QED BY <1>0, <2>2, <2>3, <2>4, <2>5, RunMoves
<1>9. CASE Apply
  <2>1. hookRun' = IdleHooks /\ hookRun'.pc = "idle" /\ UNCHANGED hookEvents
    BY <1>9 DEF Apply, IdleHooks
  <2>2. seenEnabled' = NoneSeen
    BY <2>1 DEF NoteEnabled
  <2>3. NoneSeen \in [provider : BOOLEAN, manifests : SUBSET HookIds]
    BY DEF NoneSeen
  <2> QED BY <1>0, <2>1, <2>2, <2>3 DEF HookRunOK, HookRunLocals
<1>10. CASE Observe
  <2>1. hookRun' = hookRun /\ hookRun.pc = "idle"
    BY <1>10 DEF Observe, HookRunAt
  <2>2. seenEnabled' = NoneSeen
    BY <2>1 DEF NoteEnabled
  <2>3. NoneSeen \in [provider : BOOLEAN, manifests : SUBSET HookIds]
    BY DEF NoneSeen
  <2>4. hookEvents' \in Seq(HookEventRows)
    BY <1>0, <1>10, EventSaved DEF Observe
  <2> QED BY <1>0, <2>1, <2>2, <2>3, <2>4 DEF HookRunOK
<1> QED BY <1>1, <1>2, <1>3, <1>4, <1>5, <1>6, <1>7, <1>8, <1>9, <1>10 DEF HookRunStep

-----------------------------------------------------------------------------
(* The theorems about Hooks                                                *)

LEMMA HookInitInv == HookInit => HookInv
<1> SUFFICES ASSUME HookInit PROVE HookInv
  OBVIOUS
<1>1. PICK init \in InitialHooks :
        /\ hookProvider = init.provider /\ hookManifest = init.manifest
        /\ hookBinding = init.binding /\ hookApproval = init.approval
        /\ manifestVersion = [h \in HookIds |-> [v \in HookVersions |->
             IF hookManifest[h].status # "absent" /\ hookManifest[h].version = v
               THEN hookManifest[h] ELSE NoRow]]
  BY DEF HookInit
<1>2. /\ hookProvider \in Providers \cup {NoRow}
      /\ hookManifest \in [HookIds -> HookManifests \cup {NoRow}]
      /\ hookBinding \in [Keys -> Bindings \cup {NoRow}]
      /\ hookApproval \in [HookApprovals -> ApprovalItems]
  BY <1>1, HookAssumption DEF SoundHooks
<1>3. gatedWrites = [k \in Keys |-> 0] /\ bindingWriter = [k \in Keys |-> "earlier"]
  BY DEF HookInit
<1>4. HookTables
  <2>1. /\ gatedWrites \in [Keys -> Nat]
        /\ bindingWriter \in [Keys -> {"earlier", "approved", "request", "sync"}]
    BY <1>3
  <2>2. manifestVersion \in [HookIds -> [HookVersions -> HookManifests \cup {NoRow}]]
    BY <1>1, <1>2
  <2> QED BY <1>2, <2>1, <2>2 DEF HookTables
<1>5. AdminsOK
  BY IdleIsOK DEF HookInit, AdminsOK, AdminOK
<1>6. ApprovalsCover
  <2> SUFFICES ASSUME NEW k \in Keys
               PROVE  /\ IsFiniteSet(Storing(k))
                      /\ gatedWrites[k] + Cardinality(Storing(k)) <= Cardinality(UsedFor(k))
    BY DEF ApprovalsCover
  <2>1. Storing(k) = {}
    BY DEF HookInit, Storing, IdleHooks
  <2>2. IsFiniteSet({}) /\ Cardinality({}) = 0
    BY FS_EmptySet
  <2>3. IsFiniteSet(UsedFor(k)) /\ Cardinality(UsedFor(k)) \in Nat
    BY HookAssumption, FS_Subset, FS_CardinalityType DEF UsedFor
  <2> QED BY <1>3, <2>1, <2>2, <2>3
<1>7. GatedStored
  BY <1>3 DEF GatedStored
<1>9. HookRunOK
  <2>1. hookRun = IdleHooks /\ hookRun.pc = "idle" /\ hookEvents = <<>> /\ seenEnabled = NoneSeen
    BY DEF HookInit, IdleHooks
  <2>2. <<>> \in Seq(HookEventRows)
    OBVIOUS
  <2>3. NoneSeen \in [provider : BOOLEAN, manifests : SUBSET HookIds]
    BY DEF NoneSeen
  <2> QED BY <2>1, <2>2, <2>3 DEF HookRunOK, HookRunLocals
<1> QED BY <1>4, <1>5, <1>6, <1>7, <1>9 DEF HookInv, AdminInv

LEMMA HookNextInv == HookInv /\ [HookNext]_hookVars => HookInv'
<1> SUFFICES ASSUME HookInv, [HookNext]_hookVars PROVE HookInv'
  OBVIOUS
<1>0. AdminInv /\ HookRunOK
  BY DEF HookInv
<1>1. CASE UNCHANGED hookVars
  <2>1. AdminInv'
    BY <1>0, <1>1, AdminUnchanged DEF hookVars, adminVars, bindingHistory
  <2>2. HookRunOK'
    BY <1>0, <1>1 DEF hookVars, HookRunOK, Current
  <2> QED BY <2>1, <2>2 DEF HookInv
<1>2. CASE HookNext
  <2>0. HookStep /\ NoteEnabled
    BY <1>2 DEF HookNext
  <2>1. ASSUME NEW c \in Admins,
               \/ handleRuntimeHookProviders(c) \/ handleRuntimeHookProviderResource(c)
               \/ handleRuntimeHookManifests(c) \/ handleRuntimeHookManifestResource(c)
               \/ handleAgentRuntimeHooks(c) \/ syncAgentPluginHookManifests(c)
        PROVE  HookInv'
    <3>1. AdminInv'
      BY <1>0, <2>1, RequestsBegin
    <3>2. UNCHANGED <<hookRun, hookEvents>>
      BY <2>1 DEF handleRuntimeHookProviders, handleRuntimeHookProviderResource,
           handleRuntimeHookManifests, handleRuntimeHookManifestResource, handleAgentRuntimeHooks,
           PutHookProvider, DeleteHookProvider, CheckHookProviderHealth, SyncHookCatalog,
           PutManifest, DeleteManifest, ActivateManifestVersion, PutBinding,
           syncAgentPluginHookManifests, AdminBegin, runVars
    <3> QED BY <1>0, <2>0, <3>1, <3>2, RunKept DEF HookInv
  <2>2. ASSUME NEW c \in Admins, AdminStep(c) PROVE HookInv'
    <3>1. AdminInv'
      BY <1>0, <2>2, ProviderSteps, ManifestStep, GateStep, BindingStep, SyncSteps, StoreFailsStep DEF AdminStep
    <3>2. UNCHANGED <<hookRun, hookEvents>>
      BY <2>2 DEF AdminStep, UpsertHookProvider, probeHookProviderHealth, WriteHookProvider,
           fetchProviderCatalog, UpsertHookManifest, runtimeHookBindingApprovalGate, UpsertBinding,
           SyncProvider, SyncStoreProvider, SyncManifest, SyncBinding, HookStoreFails, runVars
    <3> QED BY <1>0, <2>0, <3>1, <3>2, RunKept DEF HookInv
  <2>3. ASSUME NEW a \in HookApprovals, NEW status \in {"approved", "rejected"}, ResolveApproval(a, status)
        PROVE  HookInv'
    <3>1. AdminInv'
      BY <1>0, <2>3, ApproverStep
    <3>2. UNCHANGED <<hookRun, hookEvents>>
      BY <2>3 DEF ResolveApproval, runVars
    <3> QED BY <1>0, <2>0, <3>1, <3>2, RunKept DEF HookInv
  <2>4. CASE ConnectionChanges
    <3>1. AdminInv'
      BY <1>0, <2>4, AdminUnchanged DEF ConnectionChanges
    <3>2. UNCHANGED <<hookRun, hookEvents>>
      BY <2>4 DEF ConnectionChanges, runVars
    <3> QED BY <1>0, <2>0, <3>1, <3>2, RunKept DEF HookInv
  <2>5. CASE HookRunStep
    <3>1. UNCHANGED <<adminVars, admin>>
      BY <2>5 DEF HookRunStep, applyRuntimeHook, runtimeHookPreview, Invoke, SkipBinding, invokeBinding,
           readHookProvider, patchFromConfig, connectHookProvider, invokeStatic, InvokeEnds, Apply, Observe
    <3>2. AdminInv'
      BY <1>0, <3>1, AdminUnchanged
    <3>3. HookRunOK'
      BY <2>0, <2>5, RunSteps
    <3> QED BY <3>2, <3>3 DEF HookInv
  <2> QED BY <2>0, <2>1, <2>2, <2>3, <2>4, <2>5 DEF HookStep
<1> QED BY <1>1, <1>2

LEMMA HookInvariant == HookSpec => []HookInv
BY HookInitInv, HookNextInv, PTL DEF HookSpec

(***************************************************************************)
(* Bindings stored through the gate are no more than the approvals spent   *)
(* on them, and one that asks for approval was let through by an approval  *)
(* or written by the sync of a plugin, for any requests, syncs and store   *)
(* failures that overlap (runtimeHookBindingApprovalGate, Consume,         *)
(* UpsertBinding, syncAgentPluginHookManifests).                           *)
(***************************************************************************)
THEOREM ApprovedOncePerBindingHolds == HookSpec => []ApprovedOncePerBinding
<1>1. ASSUME HookInv PROVE ApprovedOncePerBinding
  <2> SUFFICES ASSUME NEW k \in Keys
               PROVE  /\ gatedWrites[k] <= Cardinality(UsedFor(k))
                      /\ hookBinding[k].status # "absent" /\ AsksApproval(hookBinding[k])
                           => bindingWriter[k] \in {"earlier", "approved", "sync"}
    BY DEF ApprovedOncePerBinding, UsedFor
  <2>1. /\ IsFiniteSet(Storing(k)) /\ gatedWrites[k] \in Nat
        /\ gatedWrites[k] + Cardinality(Storing(k)) <= Cardinality(UsedFor(k))
    BY <1>1 DEF HookInv, AdminInv, ApprovalsCover, HookTables
  <2>2. Cardinality(Storing(k)) \in Nat
    BY <2>1, FS_CardinalityType
  <2>3. Cardinality(UsedFor(k)) \in Nat
    BY HookAssumption, FS_Subset, FS_CardinalityType DEF UsedFor
  <2> QED BY <1>1, <2>1, <2>2, <2>3 DEF HookInv, AdminInv, GatedStored
<1> QED BY <1>1, HookInvariant, PTL

(***************************************************************************)
(* What a run applies was validated and comes from hooks whose provider,   *)
(* and for a static hook whose manifest, was enabled at some time during   *)
(* the invocation, whatever administrators change between its reads        *)
(* (hook/service.go invokeBinding).                                        *)
(***************************************************************************)
THEOREM OnlyEnabledHooksApplyHolds == HookSpec => []OnlyEnabledHooksApply
<1>1. HookInv => OnlyEnabledHooksApply
  BY DEF HookInv, HookRunOK, OnlyEnabledHooksApply, MergedOK, SeenFor
<1> QED BY <1>1, HookInvariant, PTL

-----------------------------------------------------------------------------
(* The invariant of ServiceConnection, under the catalog                   *)

ConnectionPCs  == {"upsert", "store_row", "rotation", "test", "resources", "health", "event", "delete"}
ConnectionRows == [status : Statuses, scope : Scopes, net : Nets,
                   health : {"unknown", "healthy", "unhealthy"}]

\* What a request has decided on still fits the row, as long as no other one writes it.
RequestFits(r) ==
  /\ r.pc \in {"upsert", "store_row", "test", "resources", "health"} => r.row \in ConnectionRows
  /\ r.pc = "store_row" =>
       /\ r.clear = (GetConnection /\ connection.scope # r.row.scope)
       /\ r.row.health # "unknown" =>
            /\ GetConnection /\ connection.scope = r.row.scope /\ connection.net = r.row.net
            /\ connection.health = r.row.health
  /\ r.pc \in {"test", "resources", "health"} =>
       /\ GetConnection /\ connection.status = r.row.status
       /\ connection.scope = r.row.scope /\ connection.net = r.row.net

OneRequest ==
  \A c, d \in Clients : request[c].pc \in ConnectionPCs /\ request[d].pc \in ConnectionPCs => c = d

ConnectionInv ==
  ~overlap =>
    /\ connection \in ConnectionRows \cup {NoConnection} /\ probed \in ConnectionRows \cup {NoConnection}
    /\ request = [c \in Clients |-> request[c]]
    /\ OneRequest
    /\ \A c \in Clients : RequestFits(request[c])
    /\ ConnectionCurrent

\* Any row, or its absence.
RowValues == [status : Statuses \cup {"absent"}, scope : Nat, net : Nat,
              health : {"unknown", "healthy", "unhealthy"}]

LEMMA RowFacts ==
  /\ ConnectionRows \cup {NoConnection} \subseteq RowValues
  /\ \A row \in ConnectionRows : row.status # "absent" /\ row.scope # 0
  /\ NoConnection.status = "absent" /\ NoConnection.health = "unknown" /\ NoConnection.scope = 0
<1>1. ConnectionRows \subseteq RowValues
  BY ConnectionAssumption DEF ConnectionRows, RowValues
<1>2. NoConnection \in RowValues
  BY DEF NoConnection, RowValues
<1>3. \A row \in ConnectionRows : row.status # "absent" /\ row.scope # 0
  BY ConnectionAssumption DEF ConnectionRows, Statuses
<1>4. NoConnection.status = "absent" /\ NoConnection.health = "unknown" /\ NoConnection.scope = 0
  BY DEF NoConnection
<1> QED BY <1>1, <1>2, <1>3, <1>4

LEMMA SameButStatus ==
  ASSUME NEW a \in RowValues, NEW b \in RowValues
  PROVE  ([a EXCEPT !.status = b.status] = b) <=> (a.scope = b.scope /\ a.net = b.net /\ a.health = b.health)
<1>1. /\ [a EXCEPT !.status = b.status] \in RowValues
      /\ [a EXCEPT !.status = b.status].scope = a.scope /\ [a EXCEPT !.status = b.status].net = a.net
      /\ [a EXCEPT !.status = b.status].health = a.health /\ [a EXCEPT !.status = b.status].status = b.status
  BY DEF RowValues
<1>2. PICK d : d = [a EXCEPT !.status = b.status]
  OBVIOUS
<1>3. d \in RowValues /\ d.status = b.status
  BY <1>1, <1>2
<1>4. (d = b) <=> (d.scope = b.scope /\ d.net = b.net /\ d.health = b.health)
  BY <1>3 DEF RowValues
<1> QED BY <1>1, <1>2, <1>4

\* What ConnectionCurrent says, field by field.
CurrentByField ==
  /\ resources # 0 => GetConnection /\ resources = connection.scope
  /\ connection.health # "unknown" =>
       probed.scope = connection.scope /\ probed.net = connection.net /\ probed.health = connection.health

LEMMA CurrentFields ==
  ASSUME connection \in ConnectionRows \cup {NoConnection}, probed \in ConnectionRows \cup {NoConnection},
         ~overlap
  PROVE  ConnectionCurrent <=> CurrentByField
<1>1. connection \in RowValues /\ probed \in RowValues
  BY RowFacts
<1> QED BY <1>1, SameButStatus DEF ConnectionCurrent, ResourcesCurrent, HealthCurrent, CurrentByField

LEMMA CurrentFieldsNext ==
  ASSUME connection' \in ConnectionRows \cup {NoConnection}, probed' \in ConnectionRows \cup {NoConnection},
         ~overlap'
  PROVE  ConnectionCurrent' <=> CurrentByField'
<1>1. connection' \in RowValues /\ probed' \in RowValues
  BY RowFacts
<1>2. ([probed' EXCEPT !.status = connection'.status] = connection')
        <=> (probed'.scope = connection'.scope /\ probed'.net = connection'.net
             /\ probed'.health = connection'.health)
  BY <1>1, SameButStatus
<1> QED BY <1>2 DEF ConnectionCurrent, ResourcesCurrent, HealthCurrent, CurrentByField

-----------------------------------------------------------------------------
(* Steps                                                                   *)

\* A step that leaves the rows alone, of a request that is none about the connection.
LEMMA CatalogMoves ==
  ASSUME ConnectionInv, ConnectionSame, NEW c \in Clients, NEW r, r.pc \notin ConnectionPCs,
         Continue(c, r), overlap => overlap'
  PROVE  ConnectionInv'
<1> SUFFICES ASSUME ~overlap' PROVE ConnectionInv'
  BY DEF ConnectionInv
<1>1. /\ ~overlap /\ connection' = connection /\ resources' = resources /\ probed' = probed
  BY DEF ConnectionSame
<1>2. /\ connection \in ConnectionRows \cup {NoConnection} /\ probed \in ConnectionRows \cup {NoConnection}
      /\ request = [d \in Clients |-> request[d]] /\ OneRequest
      /\ \A d \in Clients : RequestFits(request[d])
      /\ ConnectionCurrent
  BY <1>1 DEF ConnectionInv
<1>3. /\ request' = [d \in Clients |-> request'[d]] /\ request'[c] = r
      /\ \A d \in Clients : d # c => request'[d] = request[d]
  BY <1>2 DEF Continue
<1>4. OneRequest'
  BY <1>2, <1>3 DEF OneRequest
<1>5. ASSUME NEW d \in Clients PROVE RequestFits(request[d])'
  <2>1. CASE d = c
    <3>1. request'[d].pc \notin ConnectionPCs
      BY <1>3, <2>1
    <3> QED BY <3>1 DEF RequestFits, ConnectionPCs
  <2>2. CASE d # c
    <3>1. RequestFits(request[d]) /\ request'[d] = request[d]
      BY <1>2, <1>3, <2>2
    <3> QED BY <1>1, <3>1 DEF RequestFits, GetConnection
  <2> QED BY <2>1, <2>2
<1>6. ConnectionCurrent'
  BY <1>1, <1>2 DEF ConnectionCurrent, ResourcesCurrent, HealthCurrent, GetConnection
<1> QED BY <1>1, <1>2, <1>3, <1>4, <1>5, <1>6 DEF ConnectionInv

\* A step of the request about the connection, the only one.
LEMMA ConnectionGoesOn ==
  ASSUME ConnectionInv, ~overlap, NEW c \in Clients, request[c].pc \in ConnectionPCs, overlap' = overlap,
         NEW r, Continue(c, r), RequestFits(r)',
         connection' \in ConnectionRows \cup {NoConnection}, probed' \in ConnectionRows \cup {NoConnection},
         CurrentByField'
  PROVE  ConnectionInv'
<1>1. request = [d \in Clients |-> request[d]] /\ OneRequest
  BY DEF ConnectionInv
<1>2. /\ request' = [d \in Clients |-> request'[d]] /\ request'[c] = r
      /\ \A d \in Clients : d # c => request'[d] = request[d] /\ request[d].pc \notin ConnectionPCs
  BY <1>1 DEF Continue, OneRequest
<1>3. OneRequest'
  BY <1>2 DEF OneRequest
<1>4. ASSUME NEW d \in Clients PROVE RequestFits(request[d])'
  <2>1. CASE d = c
    BY <1>2, <2>1 DEF RequestFits
  <2>2. CASE d # c
    <3>1. request'[d].pc \notin ConnectionPCs
      BY <1>2, <2>2
    <3> QED BY <3>1 DEF RequestFits, ConnectionPCs
  <2> QED BY <2>1, <2>2
<1>5. ConnectionCurrent'
  BY CurrentFieldsNext
<1> QED BY <1>2, <1>3, <1>4, <1>5 DEF ConnectionInv

\* A request about the connection begins, with no other in progress.
LEMMA ConnectionBegins ==
  ASSUME ConnectionInv, ConnectionSame, NEW c \in Clients, NEW r, Begin(c, r),
         ~overlap /\ connection \in ConnectionRows \cup {NoConnection} => RequestFits(r)
  PROVE  ConnectionInv'
<1> SUFFICES ASSUME ~overlap' PROVE ConnectionInv'
  BY DEF ConnectionInv
<1>1. /\ ~overlap /\ connection' = connection /\ resources' = resources /\ probed' = probed
      /\ \A d \in Clients : request[d].pc = "idle"
      /\ Continue(c, r)
  BY DEF ConnectionSame, Begin, ReqAt
<1>2. /\ connection \in ConnectionRows \cup {NoConnection} /\ probed \in ConnectionRows \cup {NoConnection}
      /\ request = [d \in Clients |-> request[d]]
      /\ ConnectionCurrent
  BY <1>1 DEF ConnectionInv
<1>3. /\ request' = [d \in Clients |-> request'[d]] /\ request'[c] = r
      /\ \A d \in Clients : d # c => request'[d] = request[d] /\ request[d].pc = "idle"
  BY <1>1, <1>2 DEF Continue
<1>4. OneRequest'
  BY <1>3 DEF OneRequest, ConnectionPCs
<1>5. ASSUME NEW d \in Clients PROVE RequestFits(request[d])'
  <2>1. CASE d = c
    BY <1>1, <1>2, <1>3, <2>1 DEF RequestFits, GetConnection
  <2>2. CASE d # c
    <3>1. request'[d].pc = "idle"
      BY <1>3, <2>2
    <3> QED BY <3>1 DEF RequestFits
  <2> QED BY <2>1, <2>2
<1>6. ConnectionCurrent'
  BY <1>1, <1>2 DEF ConnectionCurrent, ResourcesCurrent, HealthCurrent, GetConnection
<1> QED BY <1>1, <1>2, <1>3, <1>4, <1>5, <1>6 DEF ConnectionInv

LEMMA RequestInv ==
  ASSUME ConnectionInv, NEW c \in Clients, NEW deps, ConnectionRequest(c, deps)
  PROVE  ConnectionInv'
<1>1. CASE \E row \in Rows : PutConnection(c, row)
  <2>1. PICK row \in Rows : PutConnection(c, row)
    BY <1>1
  <2>2. PICK r : r = [pc |-> "upsert", row |-> row, rotate |-> FALSE]
    OBVIOUS
  <2>3. Begin(c, r) /\ ConnectionSame
    BY <2>1, <2>2 DEF PutConnection, ConnectionSame
  <2>4. RequestFits(r)
    <3>1. row \in ConnectionRows
      BY DEF Rows, ConnectionRows
    <3> QED BY <2>2, <3>1 DEF RequestFits
  <2> QED BY <2>3, <2>4, ConnectionBegins
<1>2. ASSUME NEW status, NEW scope, NEW net, mergeServiceConnectionPatch(c, status, scope, net),
             connection \in ConnectionRows => status \in Statuses /\ scope \in Scopes /\ net \in Nets
      PROVE  ConnectionInv'
  <2>1. PICK r : r = [pc |-> "upsert", rotate |-> FALSE,
                      row |-> [connection EXCEPT !.status = status, !.scope = scope, !.net = net]]
    OBVIOUS
  <2>2. Begin(c, r) /\ ConnectionSame /\ GetConnection
    BY <1>2, <2>1 DEF mergeServiceConnectionPatch, ConnectionSame
  <2>3. ASSUME connection \in ConnectionRows \cup {NoConnection} PROVE RequestFits(r)
    <3>1. connection \in ConnectionRows
      BY <2>2, <2>3, RowFacts DEF GetConnection
    <3>2. r.row \in ConnectionRows /\ r.pc = "upsert"
      BY <1>2, <2>1, <3>1 DEF ConnectionRows
    <3> QED BY <3>2 DEF RequestFits
  <2> QED BY <2>2, <2>3, ConnectionBegins
<1>3. CASE \E scope \in Scopes, net \in Nets : Patch(c, scope, net)
  <2>1. PICK scope \in Scopes, net \in Nets : mergeServiceConnectionPatch(c, connection.status, scope, net)
    BY <1>3 DEF Patch
  <2>2. connection \in ConnectionRows => connection.status \in Statuses
    BY DEF ConnectionRows
  <2> QED BY <1>2, <2>1, <2>2
<1>4. CASE DeleteRequest(c, deps)
  <2>1. PICK r : r = [pc |-> "delete"]
    OBVIOUS
  <2>2. Begin(c, r) /\ ConnectionSame
    BY <1>4, <2>1 DEF DeleteRequest, ConnectionSame
  <2>3. RequestFits(r)
    BY <2>1 DEF RequestFits
  <2> QED BY <2>2, <2>3, ConnectionBegins
<1>5. CASE Enable(c) \/ Disable(c)
  <2>1. connection \in ConnectionRows => connection.scope \in Scopes /\ connection.net \in Nets
    BY DEF ConnectionRows
  <2>2. {"enabled", "disabled"} \subseteq Statuses
    BY DEF Statuses
  <2>3. PICK status \in {"enabled", "disabled"} :
          mergeServiceConnectionPatch(c, status, connection.scope, connection.net)
    BY <1>5 DEF Enable, Disable
  <2> QED BY <1>2, <2>1, <2>2, <2>3
<1>6. CASE Test(c)
  <2>1. PICK r : r = [pc |-> "test", row |-> connection]
    OBVIOUS
  <2>2. Begin(c, r) /\ ConnectionSame /\ GetConnection
    BY <1>6, <2>1 DEF Test, ConnectionSame
  <2>3. ASSUME connection \in ConnectionRows \cup {NoConnection} PROVE RequestFits(r)
    <3>1. connection \in ConnectionRows
      BY <2>2, <2>3, RowFacts DEF GetConnection
    <3> QED BY <2>1, <2>2, <3>1 DEF RequestFits
  <2> QED BY <2>2, <2>3, ConnectionBegins
<1>7. CASE \E scope \in Scopes : RotateSecret(c, scope)
  <2>1. PICK scope \in Scopes : RotateSecret(c, scope)
    BY <1>7
  <2>2. PICK r : r = [pc |-> "upsert", rotate |-> TRUE,
                      row |-> [connection EXCEPT !.scope = scope, !.health = "unknown"]]
    OBVIOUS
  <2>3. Begin(c, r) /\ ConnectionSame /\ GetConnection
    BY <2>1, <2>2 DEF RotateSecret, ConnectionSame
  <2>4. ASSUME connection \in ConnectionRows \cup {NoConnection} PROVE RequestFits(r)
    <3>1. connection \in ConnectionRows
      BY <2>3, <2>4, RowFacts DEF GetConnection
    <3>2. r.row \in ConnectionRows /\ r.pc = "upsert"
      BY <2>2, <3>1 DEF ConnectionRows
    <3> QED BY <3>2 DEF RequestFits
  <2> QED BY <2>3, <2>4, ConnectionBegins
<1> QED BY <1>1, <1>3, <1>4, <1>5, <1>6, <1>7
        DEF ConnectionRequest, handleServiceConnections, handleServiceConnectionByID,
            handleServiceConnectionResource, handleServiceConnectionSecretRotations

LEMMA StepInv ==
  ASSUME ConnectionInv, NEW c \in Clients, ConnectionStep(c)
  PROVE  ConnectionInv'
<1>1. overlap' = overlap /\ request[c].pc \in ConnectionPCs
  BY DEF ConnectionStep, normalizeConnectionForUpsert, Upsert, AppendSecretRotation, Probe, StoreResources,
         storeConnectionHealth, AppendHealthEvent, Delete, ReqAt, ConnectionPCs
<1> SUFFICES ASSUME ~overlap PROVE ConnectionInv'
  BY <1>1 DEF ConnectionInv
<1>2. /\ connection \in ConnectionRows \cup {NoConnection} /\ probed \in ConnectionRows \cup {NoConnection}
      /\ RequestFits(request[c]) /\ CurrentByField
  BY CurrentFields DEF ConnectionInv
<1>3. RequestFits(Waiting)'
  BY DEF RequestFits, Waiting
<1>4. ASSUME connection' = connection, resources' = resources, probed' = probed,
             NEW r, Continue(c, r), RequestFits(r)'
      PROVE  ConnectionInv'
  <2>1. CurrentByField'
    BY <1>2, <1>4 DEF CurrentByField, GetConnection
  <2> QED BY <1>1, <1>2, <1>4, <2>1, ConnectionGoesOn
<1>5. CASE normalizeConnectionForUpsert(c)
  <2> DEFINE row == request[c].row
             kept == IF GetConnection /\ connectionHealthScopeMatches(row) THEN connection.health ELSE "unknown"
  <2>1. PICK r : r = [pc |-> "store_row", rotate |-> request[c].rotate,
                      clear |-> GetConnection /\ ~connectionResourceScopeMatches(row),
                      row |-> [row EXCEPT !.health = kept]]
    OBVIOUS
  <2>2. Continue(c, r) /\ connection' = connection /\ resources' = resources /\ probed' = probed
    BY <1>5, <2>1 DEF normalizeConnectionForUpsert
  <2>3. row \in ConnectionRows
    BY <1>2, <1>5 DEF normalizeConnectionForUpsert, ReqAt, RequestFits
  <2>4. kept \in {"unknown", "healthy", "unhealthy"}
    BY <1>2, RowFacts DEF ConnectionRows
  <2>5. kept # "unknown" => /\ GetConnection /\ connection.scope = row.scope /\ connection.net = row.net
                            /\ connection.health = kept
    BY DEF connectionHealthScopeMatches
  <2> HIDE DEF row, kept
  <2>6. /\ r.row \in ConnectionRows /\ r.row.scope = row.scope /\ r.row.net = row.net /\ r.row.health = kept
        /\ r.pc = "store_row" /\ r.clear = (GetConnection /\ connection.scope # row.scope)
    BY <2>1, <2>3, <2>4 DEF ConnectionRows, connectionResourceScopeMatches
  <2>7. RequestFits(r)'
    BY <2>2, <2>5, <2>6 DEF RequestFits, GetConnection
  <2> QED BY <1>4, <2>2, <2>7
<1>6. CASE Upsert(c)
  <2> DEFINE row == request[c].row
  <2>1. /\ row \in ConnectionRows
        /\ request[c].clear = (GetConnection /\ connection.scope # row.scope)
        /\ row.health # "unknown" =>
             /\ GetConnection /\ connection.scope = row.scope /\ connection.net = row.net
             /\ connection.health = row.health
    BY <1>2, <1>6 DEF Upsert, ReqAt, RequestFits
  <2>2. PICK r : /\ Continue(c, r)
                 /\ r = [pc |-> "rotation", row |-> row] \/ r = Waiting
    BY <1>6 DEF Upsert, Answer
  <2>3. RequestFits(r)'
    BY <2>2 DEF RequestFits, Waiting
  <2>4. probed' = probed
    BY <1>6 DEF Upsert
  <2>5. CASE connection' = connection /\ resources' = resources
    BY <1>4, <2>2, <2>3, <2>4, <2>5
  <2>6. CASE connection' = row /\ resources' = (IF request[c].clear THEN 0 ELSE resources)
    <3> HIDE DEF row
    <3>1. CurrentByField'
      <4>1. row.status # "absent"
        BY <2>1, RowFacts
      <4>2. resources' # 0 => resources' = row.scope
        BY <1>2, <2>1, <2>6 DEF CurrentByField
      <4>3. row.health # "unknown" =>
              probed.scope = row.scope /\ probed.net = row.net /\ probed.health = row.health
        BY <1>2, <2>1 DEF CurrentByField
      <4> QED BY <2>4, <2>6, <4>1, <4>2, <4>3 DEF CurrentByField, GetConnection
    <3>2. connection' \in ConnectionRows \cup {NoConnection} /\ probed' \in ConnectionRows \cup {NoConnection}
      BY <1>2, <2>1, <2>4, <2>6
    <3> QED BY <1>1, <2>2, <2>3, <3>1, <3>2, ConnectionGoesOn
  <2> QED BY <1>6, <2>5, <2>6 DEF Upsert, UpsertConnectionAndReplaceResources, UpsertConnection
<1>7. CASE AppendSecretRotation(c)
  BY <1>3, <1>4, <1>7 DEF AppendSecretRotation, Answer
<1>8. CASE \E outcome \in Outcomes : Probe(c, outcome)
  <2>1. PICK outcome \in Outcomes : Probe(c, outcome)
    BY <1>8
  <2> DEFINE row == request[c].row
  <2>2. PICK r : r = [pc    |-> IF outcome.found = "no" THEN "health" ELSE "resources",
                      found |-> outcome.found = "some",
                      row   |-> [row EXCEPT !.health = outcome.health]]
    OBVIOUS
  <2>3. Continue(c, r) /\ connection' = connection /\ resources' = resources /\ probed' = probed
    BY <2>1, <2>2 DEF Probe
  <2>4. /\ row \in ConnectionRows /\ GetConnection /\ connection.status = row.status
        /\ connection.scope = row.scope /\ connection.net = row.net
    BY <1>2, <2>1 DEF Probe, ReqAt, RequestFits
  <2>5. outcome.health \in {"unknown", "healthy", "unhealthy"}
    BY DEF Outcomes, probeHTTP, discoverHTTPAPIResources, probeDatabaseAndDiscover, Unhealthy
  <2> HIDE DEF row
  <2>6. /\ r.row \in ConnectionRows /\ r.row.scope = row.scope /\ r.row.net = row.net
        /\ r.row.status = row.status /\ r.pc \in {"health", "resources"}
    BY <2>2, <2>4, <2>5 DEF ConnectionRows
  <2>7. RequestFits(r)'
    BY <2>3, <2>4, <2>6 DEF RequestFits, GetConnection
  <2> QED BY <1>4, <2>3, <2>7
<1>9. CASE StoreResources(c)
  <2> DEFINE row == request[c].row
  <2>1. /\ row \in ConnectionRows /\ GetConnection /\ connection.status = row.status
        /\ connection.scope = row.scope /\ connection.net = row.net
    BY <1>2, <1>9 DEF StoreResources, ReqAt, RequestFits
  <2>2. connection' = connection /\ probed' = probed
    BY <1>9 DEF StoreResources, ReplaceResources
  <2>3. CASE resources' = resources /\ Answer(c)
    BY <1>3, <1>4, <2>2, <2>3 DEF Answer
  <2>4. CASE /\ resources' = (IF request[c].found THEN row.scope ELSE 0)
             /\ Continue(c, [request[c] EXCEPT !.pc = "health"])
    <3>1. PICK r : r = [request[c] EXCEPT !.pc = "health"]
      OBVIOUS
    <3>2. r.pc = "health" /\ r.row = row
      BY <1>9, <3>1 DEF StoreResources, ReqAt
    <3>3. RequestFits(r)'
      BY <2>1, <2>2, <3>2 DEF RequestFits, GetConnection
    <3>4. CurrentByField'
      BY <1>2, <2>1, <2>2, <2>4 DEF CurrentByField, GetConnection
    <3> QED BY <1>1, <1>2, <2>2, <2>4, <3>1, <3>3, <3>4, ConnectionGoesOn
  <2> QED BY <1>9, <2>3, <2>4 DEF StoreResources, ReplaceResources
<1>10. CASE storeConnectionHealth(c)
  <2> DEFINE row == request[c].row
  <2>1. /\ row \in ConnectionRows /\ GetConnection /\ connection.status = row.status
        /\ connection.scope = row.scope /\ connection.net = row.net
    BY <1>2, <1>10 DEF storeConnectionHealth, ReqAt, RequestFits
  <2>2. CASE connection' = connection /\ resources' = resources /\ probed' = probed /\ Answer(c)
    BY <1>3, <1>4, <2>2 DEF Answer
  <2>3. CASE /\ connection' = row /\ resources' = resources /\ probed' = row
             /\ Continue(c, [pc |-> "event", health |-> row.health])
    <3>1. PICK r : r = [pc |-> "event", health |-> row.health]
      OBVIOUS
    <3>2. RequestFits(r)'
      BY <3>1 DEF RequestFits
    <3>3. CurrentByField'
      BY <1>2, <2>1, <2>3, RowFacts DEF CurrentByField, GetConnection
    <3> QED BY <1>1, <2>1, <2>3, <3>1, <3>2, <3>3, ConnectionGoesOn
  <2> QED BY <1>10, <2>2, <2>3 DEF storeConnectionHealth, UpsertConnection
<1>11. CASE AppendHealthEvent(c)
  BY <1>3, <1>4, <1>11 DEF AppendHealthEvent, Answer
<1>12. CASE Delete(c)
  <2>1. CASE connection' = connection /\ resources' = resources
    BY <1>3, <1>4, <1>12, <2>1 DEF Delete, Answer
  <2>2. CASE connection' = NoConnection /\ resources' = 0
    <3>1. CurrentByField'
      BY <2>2, RowFacts DEF CurrentByField
    <3>2. probed' = probed /\ Continue(c, Waiting)
      BY <1>12 DEF Delete, Answer
    <3> QED BY <1>1, <1>2, <1>3, <2>2, <3>1, <3>2, ConnectionGoesOn
  <2> QED BY <1>12, <2>1, <2>2 DEF Delete, DeleteConnection
<1> QED BY <1>5, <1>6, <1>7, <1>8, <1>9, <1>10, <1>11, <1>12 DEF ConnectionStep

\* A request of the catalog begins.
LEMMA CatalogBegins ==
  ASSUME ConnectionInv, ConnectionSame, NEW c \in Clients, NEW r, r.pc \notin ConnectionPCs, Begin(c, r)
  PROVE  ConnectionInv'
BY CatalogMoves DEF Begin

\* The process and its catalog never write the connection.
LEMMA CatalogStepInv ==
  ASSUME ConnectionInv, NEW c \in Clients, CatalogStep(c)
  PROVE  ConnectionInv'
<1>1. ConnectionSame /\ overlap' = overlap
  BY DEF CatalogStep, Save, Store, Decide, applyManifests, probeProviderHealth, ensureManagedAdapterProvider,
         SaveManagedAdapter, StoreManagedAdapter, OperationValidated
<1>2. ASSUME NEW r, Continue(c, r), r.pc \notin ConnectionPCs PROVE ConnectionInv'
  BY <1>1, <1>2, CatalogMoves
<1>3. ASSUME Answer(c) PROVE ConnectionInv'
  <2>1. Waiting.pc \notin ConnectionPCs
    BY DEF Waiting, ConnectionPCs
  <2> QED BY <1>2, <1>3, <2>1 DEF Answer
<1>4. "save" \notin ConnectionPCs /\ "memory" \notin ConnectionPCs /\ "apply" \notin ConnectionPCs
      /\ {"install", "ensured", "operation"} \cap ConnectionPCs = {}
  BY DEF ConnectionPCs
<1>5. CASE Save(c)
  <2>1. CASE Continue(c, [request[c] EXCEPT !.pc = "memory"])
    <3>1. PICK r : r = [request[c] EXCEPT !.pc = "memory"]
      OBVIOUS
    <3>2. r.pc = "memory"
      BY <1>5, <3>1 DEF Save, ReqAt
    <3> QED BY <1>2, <1>4, <2>1, <3>1, <3>2
  <2> QED BY <1>3, <1>5, <2>1 DEF Save
<1>6. CASE Store(c)
  <2>1. PICK r : r = [pc |-> "apply", todo |-> request[c].todo,
                      queue |-> Manifests(memory', Affected(request[c].w))]
    OBVIOUS
  <2>2. Continue(c, r) /\ r.pc = "apply"
    BY <1>6, <2>1 DEF Store
  <2> QED BY <1>2, <1>4, <2>2
<1>7. CASE Decide(c)
  <2>1. CASE Next1(c, request[c].todo)
    <3>1. CASE Answer(c)
      BY <1>3, <3>1
    <3>2. CASE \E t \in request[c].todo :
                 Continue(c, [pc |-> "save", w |-> <<t, "enabled">>, todo |-> request[c].todo \ {t}])
      <4>1. PICK t \in request[c].todo :
              Continue(c, [pc |-> "save", w |-> <<t, "enabled">>, todo |-> request[c].todo \ {t}])
        BY <3>2
      <4>2. [pc |-> "save", w |-> <<t, "enabled">>, todo |-> request[c].todo \ {t}].pc = "save"
        OBVIOUS
      <4> QED BY <1>2, <1>4, <4>1, <4>2
    <3> QED BY <2>1, <3>1, <3>2 DEF Next1
  <2>2. CASE \E q \in request[c].queue :
               Continue(c, [pc |-> "install", todo |-> request[c].todo, t |-> q[1],
                            queue |-> request[c].queue \ {q},
                            install |-> manifestAllowsInstall(q[1], q[2])])
    <3>1. PICK q \in request[c].queue :
            Continue(c, [pc |-> "install", todo |-> request[c].todo, t |-> q[1],
                         queue |-> request[c].queue \ {q},
                         install |-> manifestAllowsInstall(q[1], q[2])])
      BY <2>2
    <3>2. [pc |-> "install", todo |-> request[c].todo, t |-> q[1],
           queue |-> request[c].queue \ {q},
           install |-> manifestAllowsInstall(q[1], q[2])].pc = "install"
      OBVIOUS
    <3> QED BY <1>2, <1>4, <3>1, <3>2
  <2> QED BY <1>7, <2>1, <2>2 DEF Decide
<1>8. CASE applyManifests(c)
  <2>1. PICK r : r = [pc |-> "apply", todo |-> request[c].todo, queue |-> request[c].queue]
    OBVIOUS
  <2>2. Answer(c) \/ Continue(c, r)
    BY <1>8, <2>1 DEF applyManifests
  <2>3. r.pc = "apply"
    BY <2>1
  <2> QED BY <1>2, <1>3, <1>4, <2>2, <2>3
<1>9. CASE \E answers \in BOOLEAN : probeProviderHealth(c, answers)
  <2>1. PICK w : Continue(c, [pc |-> "save", todo |-> {}, w |-> w])
    BY <1>9 DEF probeProviderHealth
  <2>2. [pc |-> "save", todo |-> {}, w |-> w].pc = "save"
    OBVIOUS
  <2> QED BY <1>2, <1>4, <2>1, <2>2
<1>10. ASSUME NEW pc \in {"ensured", "operation"}, NEW status, Continue(c, [pc |-> pc, status |-> status]) PROVE ConnectionInv'
  <2>1. [pc |-> pc, status |-> status].pc = pc
    OBVIOUS
  <2> QED BY <1>2, <1>4, <1>10, <2>1
<1>11. CASE ensureManagedAdapterProvider(c)
  BY <1>3, <1>10, <1>11 DEF ensureManagedAdapterProvider, SaveManagedAdapter, StoreManagedAdapter
<1>12. CASE OperationValidated(c)
  <2>1. PICK r : r = [pc |-> "save", w |-> <<"operation", request[c].status>>, todo |-> {}]
    OBVIOUS
  <2>2. (Answer(c) \/ Continue(c, r)) /\ r.pc = "save"
    BY <1>12, <2>1 DEF OperationValidated
  <2> QED BY <1>2, <1>3, <1>4, <2>2
<1> QED BY <1>5, <1>6, <1>7, <1>8, <1>9, <1>11, <1>12 DEF CatalogStep

LEMMA CatalogRequestInv ==
  ASSUME ConnectionInv, NEW c \in Clients, CatalogRequest(c)
  PROVE  ConnectionInv'
<1>1. "save" \notin ConnectionPCs /\ "apply" \notin ConnectionPCs /\ "probe" \notin ConnectionPCs
  BY DEF ConnectionPCs
<1>2. ASSUME NEW r, BeginCatalog(c, r), r.pc \notin ConnectionPCs PROVE ConnectionInv'
  BY <1>2, CatalogBegins DEF BeginCatalog
<1>3. ASSUME NEW field, NEW value, Write(c, field, value) PROVE ConnectionInv'
  <2>1. [pc |-> "save", w |-> <<field, value>>, todo |-> {}].pc = "save"
    OBVIOUS
  <2> QED BY <1>1, <1>2, <1>3, <2>1 DEF Write
<1>4. ASSUME NEW status, UpsertAdapterOperation(c, status) PROVE ConnectionInv'
  <2>1. PICK r : r = [pc |-> IF memory.adapter.status = "absent" THEN "ensure" ELSE "operation", status |-> status]
    OBVIOUS
  <2>2. BeginCatalog(c, r)
    BY <1>4, <2>1 DEF UpsertAdapterOperation
  <2>3. r.pc \in {"ensure", "operation"}
    BY <2>1
  <2>4. r.pc \notin ConnectionPCs
    BY <2>3 DEF ConnectionPCs
  <2> QED BY <1>2, <2>2, <2>4
<1>5. ASSUME NEW ts, BeginCatalog(c, [pc |-> "apply", todo |-> ts, queue |-> {}]) PROVE ConnectionInv'
  <2>1. [pc |-> "apply", todo |-> ts, queue |-> {}].pc = "apply"
    OBVIOUS
  <2> QED BY <1>1, <1>2, <1>5, <2>1
<1>6. CASE handleToolProviderResource(c)
  <2>1. CASE \E status \in CatalogStatuses, same \in BOOLEAN : UpsertProvider(c, status, same)
    <3>1. PICK status, same : Write(c, "host", normalizeProviderForUpsert(status, same))
      BY <2>1 DEF UpsertProvider
    <3> QED BY <1>3, <3>1
  <2>2. CASE \E ts \in fetchCatalog \cup fetchMCPCatalog : SyncProviderCatalog(c, ts)
    BY <1>5, <2>2 DEF SyncProviderCatalog
  <2>3. CASE SyncManagedAdapter(c)
    BY <1>5, <2>3 DEF SyncManagedAdapter
  <2>4. CASE \E kind \in {"host", "adapter"} : CheckProviderHealth(c, kind)
    <3>1. PICK kind : BeginCatalog(c, [pc |-> "probe", field |-> kind, value |-> memory[kind]])
      BY <2>4 DEF CheckProviderHealth
    <3>2. [pc |-> "probe", field |-> kind, value |-> memory[kind]].pc = "probe"
      OBVIOUS
    <3> QED BY <1>1, <1>2, <3>1, <3>2
  <2> QED BY <1>6, <2>1, <2>2, <2>3, <2>4 DEF handleToolProviderResource
<1>7. CASE handleToolProviderOperations(c)
  <2>1. CASE \E status \in CatalogStatuses :
               UpsertAdapterOperation(c, status) \/ UpsertAdapterOperationFromResource(c, status)
    <3>1. PICK status : UpsertAdapterOperation(c, status)
      BY <2>1 DEF UpsertAdapterOperationFromResource
    <3> QED BY <1>4, <3>1
  <2>2. CASE PublishAdapterOperation(c)
    BY <1>3, <2>2 DEF PublishAdapterOperation
  <2> QED BY <1>7, <2>1, <2>2 DEF handleToolProviderOperations
<1>8. CASE handleToolGroupResource(c)
  BY <1>3, <1>8 DEF handleToolGroupResource, UpsertGroup
<1>9. CASE handleToolManifestResource(c)
  BY <1>3, <1>9 DEF handleToolManifestResource, UpsertManifest
<1> QED BY <1>6, <1>7, <1>8, <1>9 DEF CatalogRequest

\* The requests in progress end where they are; what they have stored stays.
LEMMA StopInv ==
  ASSUME ConnectionInv, Stop
  PROVE  ConnectionInv'
<1> SUFFICES ASSUME ~overlap' PROVE ConnectionInv'
  BY DEF ConnectionInv
<1>1. /\ ~overlap /\ connection' = connection /\ resources' = resources /\ probed' = probed
      /\ request' = [c \in Clients |-> Waiting]
  BY DEF Stop, ConnectionSame
<1>2. /\ connection \in ConnectionRows \cup {NoConnection} /\ probed \in ConnectionRows \cup {NoConnection}
      /\ ConnectionCurrent
  BY <1>1 DEF ConnectionInv
<1>3. request' = [c \in Clients |-> request'[c]] /\ \A c \in Clients : request'[c].pc = "idle"
  BY <1>1 DEF Waiting
<1>4. OneRequest' /\ \A c \in Clients : RequestFits(request[c])'
  BY <1>3 DEF OneRequest, RequestFits, ConnectionPCs
<1>5. ConnectionCurrent'
  BY <1>1, <1>2 DEF ConnectionCurrent, ResourcesCurrent, HealthCurrent, GetConnection
<1> QED BY <1>1, <1>2, <1>3, <1>4, <1>5 DEF ConnectionInv

LEMMA ConnectionInvInit == CatalogInit => ConnectionInv
<1> SUFFICES ASSUME ConnectionInit PROVE ConnectionInv
  BY DEF CatalogInit
<1>1. /\ connection \in Rows \cup {NoConnection} /\ probed = NoConnection /\ ~overlap
      /\ resources \in {0, connection.scope}
      /\ request = [c \in Clients |-> Waiting]
  BY ConnectionAssumption DEF ConnectionInit
<1>2. connection \in ConnectionRows \cup {NoConnection} /\ connection.health = "unknown"
  BY <1>1, RowFacts DEF Rows, ConnectionRows
<1>3. request = [c \in Clients |-> request[c]] /\ \A c \in Clients : request[c].pc = "idle"
  BY <1>1 DEF Waiting
<1>4. OneRequest /\ \A c \in Clients : RequestFits(request[c])
  BY <1>3 DEF OneRequest, RequestFits, ConnectionPCs
<1>5. CurrentByField
  BY <1>1, <1>2, RowFacts DEF CurrentByField, GetConnection
<1>6. ConnectionCurrent
  BY <1>1, <1>2, <1>5, CurrentFields
<1> QED BY <1>1, <1>2, <1>3, <1>4, <1>6 DEF ConnectionInv

LEMMA ConnectionInvStep ==
  ASSUME ConnectionInv, [CatalogNext]_<<connectionVars, catalogVars>>
  PROVE  ConnectionInv'
<1>1. CASE ConnectionMoves
  BY <1>1, StepInv, RequestInv DEF ConnectionMoves
<1>2. CASE Restore
  <2>1. PICK r : r = [pc |-> "apply", todo |-> {}, queue |-> Manifests(ListCatalog, Tools)]
    OBVIOUS
  <2>2. Continue(Boot, r) /\ ConnectionSame /\ overlap' = overlap
    BY <1>2, <2>1 DEF Restore
  <2>3. r.pc \notin ConnectionPCs
    BY <2>1 DEF ConnectionPCs
  <2> QED BY <2>2, <2>3, CatalogMoves, CatalogAssumption
<1>3. CASE Stop
  BY <1>3, StopInv
<1>4. CASE \E c \in Clients : CatalogStep(c) \/ CatalogRequest(c)
  BY <1>4, CatalogStepInv, CatalogRequestInv
<1>5. CASE UNCHANGED <<connectionVars, catalogVars>>
  BY <1>5 DEF connectionVars, ConnectionInv, OneRequest, RequestFits, GetConnection,
              ConnectionCurrent, ResourcesCurrent, HealthCurrent
<1> QED BY <1>1, <1>2, <1>3, <1>4, <1>5 DEF CatalogNext

\* While requests about the connection do not overlap, the resources and the health on
\* record belong to the connection as it is now, whatever store calls fail, wherever the
\* process stops and starts, and whatever the catalog does (Upsert, Test, Delete).
THEOREM ConnectionCurrentHolds == CatalogSpec => []ConnectionCurrent
<1>1. ConnectionInv => ConnectionCurrent
  BY DEF ConnectionInv, ConnectionCurrent, ResourcesCurrent, HealthCurrent
<1> QED BY <1>1, ConnectionInvInit, ConnectionInvStep, PTL DEF CatalogSpec

-----------------------------------------------------------------------------
(* The invariant of ToolCatalog                                            *)

ProviderStored == [status : CatalogStatuses, health : {"unknown", "healthy", "unhealthy"}]
CatalogWrites  == ({"host", "adapter"} \X ProviderStored) \cup (({"operation", "group"} \cup Tools) \X CatalogStatuses)

\* What requests carry.
CarriesRow(r) ==
  r.pc \in {"upsert", "store_row", "test", "resources", "health"} => {"pc", "row"} \subseteq DOMAIN r /\ r.row \in ConnectionRows
CarriesWrite(r) ==
  r.pc \in {"save", "memory"} => {"pc", "w", "todo"} \subseteq DOMAIN r /\ r.w \in CatalogWrites /\ r.todo \subseteq Tools
CarriesQueue(r) ==
  /\ r.pc \in {"apply", "install"} => r.todo \subseteq Tools /\ r.queue \subseteq Tools \X RowStatuses
  /\ r.pc = "install" => r.t \in Tools
CarriesProvider(r) ==
  /\ r.pc = "probe" => r.field \in {"host", "adapter"} /\ r.value \in ProviderStored
  /\ r.pc \in {"ensure", "ensured", "operation"} => r.status \in CatalogStatuses

CatalogTyped ==
  /\ stored \in Catalogs /\ memory \in Catalogs
  /\ registry = [t \in Tools |-> registry[t]] /\ usable = [t \in Tools |-> usable[t]]
  /\ connection \in ConnectionRows \cup {NoConnection}
  /\ request = [c \in Clients |-> request[c]]
  /\ \A c \in Clients : /\ CarriesRow(request[c]) /\ CarriesWrite(request[c])
                        /\ CarriesQueue(request[c]) /\ CarriesProvider(request[c])

\* A process that starts serves no requests, nor does one that has stopped.
StartsAlone ==
  /\ ~up => \A c \in Clients : ReqAt(c, "idle")
  /\ ~ReqAt(Boot, "idle") => \A c \in Clients : c # Boot => ReqAt(c, "idle")

\* The adapter's provider is there before its operation, in the database before in memory.
AboutAdapter(r) ==
  \/ r.pc = "probe" /\ r.field = "adapter"
  \/ r.pc \in {"save", "memory"} /\ r.w[1] \in {"adapter", "operation"}
  \/ r.pc = "operation"
Ensures(r) == r.pc \in {"ensure", "ensured"}
AdapterFirst ==
  /\ stored.operation # "absent" => stored.adapter.status # "absent"
  /\ memory.operation # "absent" => memory.adapter.status # "absent"
  /\ memory.adapter.status # "absent" => stored.adapter.status # "absent"
  /\ \A c \in Clients : AboutAdapter(request[c]) => memory.adapter.status # "absent"
  /\ \A c \in Clients : request[c].pc = "ensured" => stored.adapter.status # "absent"
  /\ ~tangled => \A c \in Clients : Ensures(request[c]) => memory.adapter.status = "absent"

\* Requests one after the other leave memory as the database, but for the write in progress.
OneByOne ==
  ~tangled \/ ~overlap =>
    /\ \A c, d \in Clients : ~ReqAt(c, "idle") /\ ~ReqAt(d, "idle") => c = d
    /\ up => /\ \A c \in Clients : ReqAt(c, "memory") => stored = With(memory, request[c].w)
             /\ \A c \in Clients : ReqAt(c, "ensured") => stored = With(memory, ManagedAdapter)
             /\ (\A c \in Clients : ~ReqAt(c, "memory") /\ ~ReqAt(c, "ensured")) => memory = stored

\* A tool is installed as a catalog says.
InstalledBy(cat, t) ==
  registry[t] # 0 <=> /\ cat.tool[t] = "enabled" /\ groupAllowsInstall(cat) /\ providerAllows(cat, t)
                      /\ usable[t]

\* The tools a request has yet to apply.
ToApply(r) ==
  IF r.pc = "apply" THEN {q[1] : q \in r.queue} ELSE IF r.pc = "install" THEN {r.t} \cup {q[1] : q \in r.queue} ELSE {}

\* The list of manifests is of this moment, and so is the decision on the one in hand.
QueueFits(r) ==
  /\ r.pc \in {"apply", "install"} => \A q \in r.queue : q[2] = memory.tool[q[1]]
  /\ r.pc = "install" => /\ \A q \in r.queue : q[1] # r.t
                         /\ r.install <=> /\ memory.tool[r.t] = "enabled" /\ groupAllowsInstall(memory)
                                          /\ providerAllows(memory, r.t) /\ usable[r.t]

RegistryFollows ==
  ~tangled =>
    /\ ~up => \A t \in Tools : registry[t] = 0
    /\ up => \A t \in Tools : (\A c \in Clients : t \notin ToApply(request[c])) => InstalledBy(memory, t)
    /\ \A c \in Clients : QueueFits(request[c])

\* What is about to be written, or deleted, with the connection it needs or that nobody needs.
NeedsConnection(r) ==
  \/ r.pc = "probe" /\ r.field = "host"
  \/ r.pc = "save" /\ r.w[1] \in {"host", "operation"}
Dependent(cat) == cat.host.status # "absent" \/ cat.operation # "absent"
DependentsFit ==
  ~overlap =>
    /\ Dependent(stored) => GetConnection
    /\ \A c \in Clients : /\ NeedsConnection(request[c]) => GetConnection
                          /\ ReqAt(c, "delete") => ~Dependent(stored)

CatalogInv == CatalogTyped /\ StartsAlone /\ AdapterFirst /\ OneByOne /\ RegistryFollows /\ DependentsFit

-----------------------------------------------------------------------------
(* The catalog and its fields                                              *)

LEMMA WithIs ==
  ASSUME NEW cat \in Catalogs, NEW w \in CatalogWrites
  PROVE  /\ With(cat, w) \in Catalogs
         /\ With(cat, w).host = IF w[1] = "host" THEN w[2] ELSE cat.host
         /\ With(cat, w).adapter = IF w[1] = "adapter" THEN w[2] ELSE cat.adapter
         /\ With(cat, w).operation = IF w[1] = "operation" THEN w[2] ELSE cat.operation
         /\ With(cat, w).group = IF w[1] = "group" THEN w[2] ELSE cat.group
         /\ \A t \in Tools : With(cat, w).tool[t] = IF w[1] = t THEN w[2] ELSE cat.tool[t]
<1>1. \A t \in Tools : t \notin {"host", "adapter", "operation", "group"}
  BY CatalogAssumption
<1>2. PICK new : new = With(cat, w)
  OBVIOUS
<1>3. CASE w[1] = "host"
  <2>1. new = [cat EXCEPT !.host = w[2]] /\ w[2] \in ProviderRows
    BY <1>1, <1>2, <1>3 DEF With, UpsertProviderRow, CatalogWrites, ProviderStored, ProviderRows, RowStatuses
  <2> QED BY <1>1, <1>2, <1>3, <2>1 DEF Catalogs
<1>4. CASE w[1] = "adapter"
  <2>1. new = [cat EXCEPT !.adapter = w[2]] /\ w[2] \in ProviderRows
    BY <1>1, <1>2, <1>4 DEF With, UpsertProviderRow, CatalogWrites, ProviderStored, ProviderRows, RowStatuses
  <2> QED BY <1>1, <1>2, <1>4, <2>1 DEF Catalogs
<1>5. CASE w[1] = "operation"
  <2>1. new = [cat EXCEPT !.operation = w[2]] /\ w[2] \in RowStatuses
    BY <1>1, <1>2, <1>5 DEF With, UpsertOperationRow, CatalogWrites, RowStatuses
  <2> QED BY <1>1, <1>2, <1>5, <2>1 DEF Catalogs
<1>6. CASE w[1] = "group"
  <2>1. new = [cat EXCEPT !.group = w[2]] /\ w[2] \in RowStatuses
    BY <1>1, <1>2, <1>6 DEF With, UpsertGroupRow, CatalogWrites, RowStatuses
  <2> QED BY <1>1, <1>2, <1>6, <2>1 DEF Catalogs
<1>7. CASE w[1] \in Tools
  <2>1. new = [cat EXCEPT !.tool[w[1]] = w[2]] /\ w[2] \in RowStatuses
    BY <1>1, <1>2, <1>7 DEF With, UpsertManifestRow, CatalogWrites, RowStatuses
  <2> QED BY <1>1, <1>2, <1>7, <2>1 DEF Catalogs
<1> QED BY <1>3, <1>4, <1>5, <1>6, <1>7 DEF CatalogWrites

LEMMA AffectedIs ==
  ASSUME NEW w \in CatalogWrites
  PROVE  Affected(w) = IF w[1] = "host" THEN HostTools ELSE IF w[1] \in {"adapter", "operation"} THEN {AdapterTool}
                       ELSE IF w[1] = "group" THEN Tools ELSE {w[1]}
BY CatalogAssumption DEF Affected, storeProviderLocked, storeOperationLocked, storeGroupLocked, CatalogWrites

\* What a write does not affect is installed by the old catalog as by the new one.
LEMMA UnaffectedInstalled ==
  ASSUME NEW cat \in Catalogs, NEW w \in CatalogWrites, NEW t \in Tools \ Affected(w)
  PROVE  InstalledBy(With(cat, w), t) <=> InstalledBy(cat, t)
<1>1. /\ w[1] # t /\ w[1] # "group" /\ (t \in HostTools => w[1] # "host")
      /\ t \notin HostTools => w[1] \notin {"adapter", "operation"}
  <2>1. w[1] \in {"host", "adapter", "operation", "group"} \cup Tools
    BY DEF CatalogWrites
  <2>2. t \notin (IF w[1] = "host" THEN HostTools ELSE IF w[1] \in {"adapter", "operation"} THEN {AdapterTool}
                  ELSE IF w[1] = "group" THEN Tools ELSE {w[1]})
    BY AffectedIs
  <2>3. t \notin {"host", "adapter", "operation", "group"} /\ (t \in HostTools \/ t = AdapterTool)
    BY CatalogAssumption DEF Tools
  <2>4. CASE w[1] \in {"host", "adapter", "operation", "group"}
    BY <2>2, <2>3, <2>4
  <2>5. CASE w[1] \in Tools
    BY <2>2, <2>3, <2>5, CatalogAssumption
  <2> QED BY <2>1, <2>4, <2>5
<1> QED BY <1>1, WithIs DEF InstalledBy, groupAllowsInstall, providerAllows

\* A request that is not idle, and the others.
LEMMA RequestMoves ==
  ASSUME CatalogTyped, NEW c \in Clients, NEW r, Continue(c, r)
  PROVE  /\ request' = [d \in Clients |-> request'[d]] /\ request'[c] = r
         /\ \A d \in Clients : d # c => request'[d] = request[d]
BY DEF CatalogTyped, Continue

Carries(r) == CarriesRow(r) /\ CarriesWrite(r) /\ CarriesQueue(r) /\ CarriesProvider(r)

LEMMA WaitingCarries == Waiting.pc = "idle" /\ Carries(Waiting)
BY DEF Waiting, Carries, CarriesRow, CarriesWrite, CarriesQueue, CarriesProvider

LEMMA TypedMoves ==
  ASSUME CatalogTyped, NEW c \in Clients, NEW r, Continue(c, r), Carries(r),
         stored' \in Catalogs, memory' \in Catalogs,
         registry' = [t \in Tools |-> registry'[t]], usable' = [t \in Tools |-> usable'[t]],
         connection' \in ConnectionRows \cup {NoConnection}
  PROVE  CatalogTyped'
<1>1. ASSUME NEW d \in Clients PROVE Carries(request'[d])
  BY RequestMoves DEF CatalogTyped, Carries
<1> QED BY <1>1, RequestMoves DEF CatalogTyped, Carries, CarriesRow, CarriesWrite, CarriesQueue, CarriesProvider

\* A request goes on or ends; one begins; the process stops with the start that failed.
LEMMA StartsMoves ==
  ASSUME CatalogTyped, StartsAlone, NEW c \in Clients, NEW r, Continue(c, r),
         \/ ~ReqAt(c, "idle") /\ (up' = up \/ ((up' <=> c # Boot) /\ r.pc = "idle"))
         \/ Serving /\ c # Boot /\ up' = up
  PROVE  StartsAlone'
<1>1. request'[c] = r /\ \A d \in Clients : d # c => request'[d] = request[d]
  BY RequestMoves
<1>2. Boot \in Clients
  BY CatalogAssumption
<1>3. /\ ~up => \A d \in Clients : request[d].pc = "idle"
      /\ request[Boot].pc # "idle" => \A d \in Clients : d # Boot => request[d].pc = "idle"
  BY DEF StartsAlone, ReqAt
<1>4. /\ ~up' => \A d \in Clients : request'[d].pc = "idle"
      /\ request'[Boot].pc # "idle" => \A d \in Clients : d # Boot => request'[d].pc = "idle"
  <2>1. CASE c = Boot
    BY <1>1, <1>2, <1>3, <2>1 DEF ReqAt, Serving
  <2>2. CASE c # Boot
    BY <1>1, <1>2, <1>3, <2>2 DEF ReqAt, Serving
  <2> QED BY <2>1, <2>2
<1> QED BY <1>4 DEF StartsAlone, ReqAt

LEMMA AdapterMoves ==
  ASSUME CatalogTyped, AdapterFirst, NEW c \in Clients, NEW r, Continue(c, r), UNCHANGED <<stored, memory>>,
         AboutAdapter(r) => memory.adapter.status # "absent", tangled => tangled',
         Ensures(r) => r.pc = "ensure" /\ (~tangled' => memory.adapter.status = "absent")
  PROVE  AdapterFirst'
<1>1. request'[c] = r /\ \A d \in Clients : d # c => request'[d] = request[d]
  BY RequestMoves
<1>2. \A d \in Clients : AboutAdapter(request[d])' => memory'.adapter.status # "absent"
  BY <1>1 DEF AdapterFirst, AboutAdapter
<1>3. \A d \in Clients : request'[d].pc = "ensured" => stored'.adapter.status # "absent"
  BY <1>1 DEF AdapterFirst, Ensures
<1>4. ~tangled' => \A d \in Clients : Ensures(request[d])' => memory'.adapter.status = "absent"
  BY <1>1 DEF AdapterFirst, Ensures
<1> QED BY <1>2, <1>3, <1>4 DEF AdapterFirst

\* A request that writes neither the database nor memory.
LEMMA OneMoves ==
  ASSUME CatalogTyped, StartsAlone, OneByOne, NEW c \in Clients, NEW r, Continue(c, r), UNCHANGED <<stored, memory, overlap>>,
         tangled => tangled', up' => up, request[c].pc \notin {"idle", "memory", "ensured"}, r.pc \notin {"memory", "ensured"}
  PROVE  OneByOne'
<1>1. request'[c] = r /\ \A d \in Clients : d # c => request'[d] = request[d]
  BY RequestMoves
<1>2. SUFFICES ASSUME ~tangled' \/ ~overlap' PROVE OneByOne'
  BY DEF OneByOne
<1>3. /\ \A a, d \in Clients : ~ReqAt(a, "idle") /\ ~ReqAt(d, "idle") => a = d
      /\ up => ((\A d \in Clients : ~ReqAt(d, "memory") /\ ~ReqAt(d, "ensured")) => memory = stored)
  BY <1>2 DEF OneByOne
<1>4. \A d \in Clients : /\ request[d].pc \notin {"memory", "ensured"} /\ request'[d].pc \notin {"memory", "ensured"}
                         /\ request'[d].pc # "idle" => d = c
  BY <1>1, <1>3 DEF ReqAt
<1> QED BY <1>3, <1>4 DEF OneByOne, ReqAt

\* A request begins: it is the only one, or the history says so.
LEMMA OneBegins ==
  ASSUME CatalogTyped, OneByOne, NEW c \in Clients, NEW r, Begin(c, r), up' = up,
         tangled' = (tangled \/ \E d \in Clients : ~ReqAt(d, "idle")), r.pc \notin {"memory", "ensured"},
         memory = stored => memory' = stored'
  PROVE  /\ OneByOne'
         /\ ~tangled' => ~tangled /\ \A d \in Clients : ReqAt(d, "idle")
         /\ ~overlap' => ~overlap /\ \A d \in Clients : ReqAt(d, "idle")
         /\ (~tangled' \/ ~overlap') /\ up => memory = stored
<1>1. /\ request'[c] = r /\ \A d \in Clients : d # c => request'[d] = request[d]
      /\ overlap' = (overlap \/ \E d \in Clients : ~ReqAt(d, "idle"))
  BY RequestMoves DEF Begin
<1>2. /\ ~tangled' => ~tangled /\ \A d \in Clients : ReqAt(d, "idle")
      /\ ~overlap' => ~overlap /\ \A d \in Clients : ReqAt(d, "idle")
  BY <1>1
<1>3. ASSUME ~tangled' \/ ~overlap', up PROVE memory = stored
  BY <1>2, <1>3 DEF OneByOne, ReqAt
<1>4. OneByOne'
  BY <1>1, <1>2, <1>3 DEF OneByOne, ReqAt
<1> QED BY <1>2, <1>3, <1>4

\* A request that changes neither what is installed nor what there is to install.
LEMMA RegistryMoves ==
  ASSUME CatalogTyped, RegistryFollows, NEW c \in Clients, NEW r, Continue(c, r), UNCHANGED <<memory, registry, usable>>,
         ~tangled' => ~tangled /\ up' = up /\ ToApply(r) = ToApply(request[c]) /\ QueueFits(r)
  PROVE  RegistryFollows'
<1>1. request'[c] = r /\ \A d \in Clients : d # c => request'[d] = request[d]
  BY RequestMoves
<1>2. SUFFICES ASSUME ~tangled' PROVE RegistryFollows'
  BY DEF RegistryFollows
<1>3. /\ ~up => \A t \in Tools : registry[t] = 0
      /\ up => \A t \in Tools : (\A d \in Clients : t \notin ToApply(request[d])) => InstalledBy(memory, t)
      /\ \A d \in Clients : QueueFits(request[d])
  BY <1>2 DEF RegistryFollows
<1>4. ASSUME NEW d \in Clients PROVE ToApply(request[d])' = ToApply(request[d]) /\ QueueFits(request[d])'
  <2>1. ToApply(request'[d]) = ToApply(request[d]) /\ QueueFits(request'[d])
    BY <1>1, <1>2, <1>3
  <2> QED BY <2>1 DEF ToApply, QueueFits
<1>5. \A t \in Tools : InstalledBy(memory, t) => InstalledBy(memory, t)'
  BY DEF InstalledBy
<1> QED BY <1>2, <1>3, <1>4, <1>5 DEF RegistryFollows

LEMMA DependentsMoves ==
  ASSUME CatalogTyped, NEW c \in Clients, NEW r, Continue(c, r),
         ~overlap' => /\ Dependent(stored') \/ NeedsConnection(r) => GetConnection'
                      /\ r.pc = "delete" => ~Dependent(stored')
                      /\ \A d \in Clients : d # c => ReqAt(d, "idle")
  PROVE  DependentsFit'
<1>1. request'[c] = r /\ \A d \in Clients : d # c => request'[d] = request[d]
  BY RequestMoves
<1>2. SUFFICES ASSUME ~overlap' PROVE DependentsFit'
  BY DEF DependentsFit
<1>3. ASSUME NEW d \in Clients
      PROVE  (NeedsConnection(request'[d]) => GetConnection') /\ (request'[d].pc = "delete" => ~Dependent(stored'))
  BY <1>1, <1>2 DEF ReqAt, NeedsConnection
<1> QED BY <1>2, <1>3 DEF DependentsFit, NeedsConnection, ReqAt, Dependent

LEMMA OthersIdle ==
  ASSUME OneByOne, ~tangled \/ ~overlap, NEW c \in Clients, ~ReqAt(c, "idle")
  PROVE  \A d \in Clients : d # c => ReqAt(d, "idle")
BY DEF OneByOne

\* Places at which a request has nothing to apply.
LEMMA NothingToApply ==
  ASSUME NEW r, r.pc \notin {"apply", "install"}
  PROVE  ToApply(r) = {} /\ QueueFits(r)
BY DEF ToApply, QueueFits

-----------------------------------------------------------------------------
(* Requests about the connection                                           *)

CatalogSame == UNCHANGED <<up, stored, memory, registry, usable>>

\* What a step of such a request does to the connection.
LEMMA ConnectionStepIs ==
  ASSUME CatalogTyped, NEW c \in Clients, ConnectionStep(c)
  PROVE  /\ request[c].pc \in ConnectionPCs /\ overlap' = overlap
         /\ \E r : Continue(c, r) /\ r.pc \in (ConnectionPCs \ {"delete"}) \cup {"idle"} /\ Carries(r)
         /\ connection' \in ConnectionRows \cup {NoConnection}
         /\ connection' = connection \/ connection' \in ConnectionRows \/ request[c].pc = "delete"
<1>1. overlap' = overlap /\ request[c].pc \in ConnectionPCs
  BY DEF ConnectionStep, normalizeConnectionForUpsert, Upsert, AppendSecretRotation, Probe, StoreResources,
         storeConnectionHealth, AppendHealthEvent, Delete, ReqAt, ConnectionPCs
<1>2. connection \in ConnectionRows \cup {NoConnection} /\ CarriesRow(request[c])
  BY DEF CatalogTyped
<1>3. ASSUME NEW r, r.pc \in {"rotation", "event", "idle"} PROVE Carries(r)
  BY <1>3 DEF Carries, CarriesRow, CarriesWrite, CarriesQueue, CarriesProvider
<1>4. ASSUME NEW r, r.pc \in {"store_row", "resources", "health"}, {"pc", "row"} \subseteq DOMAIN r, r.row \in ConnectionRows PROVE Carries(r)
  BY <1>4 DEF Carries, CarriesRow, CarriesWrite, CarriesQueue, CarriesProvider
<1>5. ASSUME Answer(c), connection' = connection \/ (request[c].pc = "delete" /\ connection' = NoConnection)
      PROVE  /\ \E r : Continue(c, r) /\ r.pc \in (ConnectionPCs \ {"delete"}) \cup {"idle"} /\ Carries(r)
             /\ connection' \in ConnectionRows \cup {NoConnection}
             /\ connection' = connection \/ connection' \in ConnectionRows \/ request[c].pc = "delete"
  BY <1>2, <1>5, WaitingCarries DEF Answer
<1>6. CASE normalizeConnectionForUpsert(c)
  <2> DEFINE row == request[c].row
             kept == IF GetConnection /\ connectionHealthScopeMatches(row) THEN connection.health ELSE "unknown"
  <2>1. PICK r : r = [pc |-> "store_row", rotate |-> request[c].rotate,
                      clear |-> GetConnection /\ ~connectionResourceScopeMatches(row),
                      row |-> [row EXCEPT !.health = kept]]
    OBVIOUS
  <2>2. Continue(c, r) /\ connection' = connection
    BY <1>6, <2>1 DEF normalizeConnectionForUpsert
  <2>3. row \in ConnectionRows
    BY <1>2, <1>6 DEF normalizeConnectionForUpsert, ReqAt, CarriesRow
  <2>4. kept \in {"unknown", "healthy", "unhealthy"}
    BY <1>2, RowFacts DEF ConnectionRows
  <2> HIDE DEF row, kept
  <2>5. r.row \in ConnectionRows /\ r.pc = "store_row" /\ {"pc", "row"} \subseteq DOMAIN r
    BY <2>1, <2>3, <2>4 DEF ConnectionRows
  <2> QED BY <1>1, <1>2, <1>4, <2>2, <2>5 DEF ConnectionPCs
<1>7. CASE Upsert(c)
  <2>1. request[c].row \in ConnectionRows
    BY <1>2, <1>7 DEF Upsert, ReqAt, CarriesRow
  <2>2. PICK r : Continue(c, r) /\ (r = [pc |-> "rotation", row |-> request[c].row] \/ r = Waiting)
    BY <1>7 DEF Upsert, Answer
  <2>3. r.pc \in {"rotation", "idle"}
    BY <2>2 DEF Waiting
  <2>4. connection' = connection \/ connection' = request[c].row
    BY <1>7 DEF Upsert, UpsertConnectionAndReplaceResources, UpsertConnection
  <2> QED BY <1>1, <1>2, <1>3, <2>1, <2>2, <2>3, <2>4 DEF ConnectionPCs
<1>8. CASE AppendSecretRotation(c) \/ AppendHealthEvent(c) \/ Delete(c)
  <2>1. Answer(c) /\ (connection' = connection \/ (request[c].pc = "delete" /\ connection' = NoConnection))
    BY <1>8 DEF AppendSecretRotation, AppendHealthEvent, Delete, DeleteConnection, ReqAt
  <2> QED BY <1>1, <1>5, <2>1
<1>9. CASE \E outcome \in Outcomes : Probe(c, outcome)
  <2>1. PICK outcome \in Outcomes : Probe(c, outcome)
    BY <1>9
  <2> DEFINE row == request[c].row
  <2>2. PICK r : r = [pc    |-> IF outcome.found = "no" THEN "health" ELSE "resources",
                      found |-> outcome.found = "some",
                      row   |-> [row EXCEPT !.health = outcome.health]]
    OBVIOUS
  <2>3. Continue(c, r) /\ connection' = connection
    BY <2>1, <2>2 DEF Probe
  <2>4. row \in ConnectionRows
    BY <1>2, <2>1 DEF Probe, ReqAt, CarriesRow
  <2>5. outcome.health \in {"unknown", "healthy", "unhealthy"}
    BY DEF Outcomes, probeHTTP, discoverHTTPAPIResources, probeDatabaseAndDiscover, Unhealthy
  <2> HIDE DEF row
  <2>6. r.row \in ConnectionRows /\ r.pc \in {"health", "resources"} /\ {"pc", "row"} \subseteq DOMAIN r
    BY <2>2, <2>4, <2>5 DEF ConnectionRows
  <2> QED BY <1>1, <1>2, <1>4, <2>3, <2>6 DEF ConnectionPCs
<1>10. CASE StoreResources(c)
  <2>1. {"pc", "row"} \subseteq DOMAIN request[c] /\ request[c].row \in ConnectionRows /\ request[c].pc = "resources"
    BY <1>2, <1>10 DEF StoreResources, ReqAt, CarriesRow
  <2>2. connection' = connection
    BY <1>10 DEF StoreResources, ReplaceResources
  <2>3. PICK e : e = request[c]
    OBVIOUS
  <2>4. PICK r : r = [e EXCEPT !.pc = "health"]
    OBVIOUS
  <2>5. Answer(c) \/ Continue(c, r)
    BY <1>10, <2>3, <2>4 DEF StoreResources
  <2>6. {"pc", "row"} \subseteq DOMAIN r /\ r.pc = "health" /\ r.row = e.row
    BY <2>1, <2>3, <2>4, Zenon
  <2> QED BY <1>1, <1>2, <1>4, <1>5, <2>1, <2>2, <2>3, <2>5, <2>6 DEF ConnectionPCs
<1>11. CASE storeConnectionHealth(c)
  <2>1. request[c].row \in ConnectionRows
    BY <1>2, <1>11 DEF storeConnectionHealth, ReqAt, CarriesRow
  <2>2. PICK r : Continue(c, r) /\ (r = [pc |-> "event", health |-> request[c].row.health] \/ r = Waiting)
    BY <1>11 DEF storeConnectionHealth, Answer
  <2>3. r.pc \in {"event", "idle"}
    BY <2>2 DEF Waiting
  <2>4. connection' = connection \/ connection' = request[c].row
    BY <1>11 DEF storeConnectionHealth, UpsertConnection
  <2> QED BY <1>1, <1>2, <1>3, <2>1, <2>2, <2>3, <2>4 DEF ConnectionPCs
<1> QED BY <1>6, <1>7, <1>8, <1>9, <1>10, <1>11 DEF ConnectionStep

LEMMA ConnectionStepKeeps ==
  ASSUME CatalogInv, NEW c \in Clients, ConnectionStep(c), CatalogSame, UNCHANGED tangled
  PROVE  CatalogInv'
<1>1. PICK r : Continue(c, r) /\ r.pc \in (ConnectionPCs \ {"delete"}) \cup {"idle"} /\ Carries(r)
  BY ConnectionStepIs DEF CatalogInv
<1>2. /\ request[c].pc \in ConnectionPCs /\ overlap' = overlap
      /\ connection' \in ConnectionRows \cup {NoConnection}
      /\ connection' = connection \/ connection' \in ConnectionRows \/ request[c].pc = "delete"
  BY ConnectionStepIs DEF CatalogInv
<1>3. UNCHANGED <<up, stored, memory, registry, usable, tangled>>
  BY DEF CatalogSame
<1>4. ~ReqAt(c, "idle") /\ request[c].pc \notin {"idle", "memory", "apply", "install", "ensured"}
      /\ r.pc \notin {"memory", "apply", "install", "probe", "save", "delete", "ensure", "ensured", "operation"}
  BY <1>1, <1>2 DEF ReqAt, ConnectionPCs
<1>5. CatalogTyped'
  BY <1>1, <1>2, <1>3, TypedMoves DEF CatalogInv, CatalogTyped
<1>6. StartsAlone'
  BY <1>1, <1>3, <1>4, StartsMoves DEF CatalogInv
<1>7. AdapterFirst'
  BY <1>1, <1>3, <1>4, AdapterMoves DEF CatalogInv, AboutAdapter, Ensures
<1>8. OneByOne'
  BY <1>1, <1>2, <1>3, <1>4, OneMoves DEF CatalogInv
<1>9. RegistryFollows'
  <2>1. ToApply(r) = {} /\ QueueFits(r)
    BY <1>4, NothingToApply
  <2>2. ToApply(request[c]) = {}
    BY <1>4, NothingToApply
  <2> QED BY <1>1, <1>3, <2>1, <2>2, RegistryMoves DEF CatalogInv
<1>10. ASSUME ~overlap'
       PROVE  /\ Dependent(stored') \/ NeedsConnection(r) => GetConnection'
              /\ r.pc = "delete" => ~Dependent(stored')
              /\ \A d \in Clients : d # c => ReqAt(d, "idle")
  <2>1. \A d \in Clients : d # c => ReqAt(d, "idle")
    BY <1>2, <1>4, <1>10, OthersIdle DEF CatalogInv
  <2>2. /\ Dependent(stored) => GetConnection
        /\ request[c].pc = "delete" => ~Dependent(stored)
    BY <1>2, <1>10 DEF CatalogInv, DependentsFit, ReqAt
  <2>3. connection' \in ConnectionRows => GetConnection'
    BY RowFacts DEF GetConnection
  <2>4. ~NeedsConnection(r)
    BY <1>4 DEF NeedsConnection
  <2>5. GetConnection /\ connection' = connection => GetConnection'
    BY DEF GetConnection
  <2> QED BY <1>2, <1>3, <1>4, <2>1, <2>2, <2>3, <2>4, <2>5
<1>11. DependentsFit'
  BY <1>1, <1>10, DependentsMoves DEF CatalogInv
<1> QED BY <1>5, <1>6, <1>7, <1>8, <1>9, <1>11 DEF CatalogInv

\* A request begins, about the connection or the catalog, that changes none of them yet.
LEMMA BeginsKeep ==
  ASSUME CatalogInv, NEW c \in Clients, c # Boot, Serving, NEW r, Begin(c, r), Carries(r), CatalogSame, UNCHANGED connection,
         tangled' = (tangled \/ \E d \in Clients : ~ReqAt(d, "idle")),
         r.pc \notin {"memory", "install", "ensured"}, r.pc = "apply" => r.queue = {},
         AboutAdapter(r) => memory.adapter.status # "absent", r.pc = "ensure" => memory.adapter.status = "absent",
         NeedsConnection(r) /\ memory = stored /\ ~overlap => GetConnection,
         r.pc = "delete" => ~Dependent(memory)
  PROVE  CatalogInv'
<1>1. UNCHANGED <<up, stored, memory, registry, usable>> /\ Continue(c, r)
  BY DEF CatalogSame, Begin
<1>2. CatalogTyped'
  BY <1>1, TypedMoves DEF CatalogInv, CatalogTyped
<1>3. StartsAlone'
  BY <1>1, StartsMoves DEF CatalogInv
<1>4. AdapterFirst'
  BY <1>1, AdapterMoves DEF CatalogInv, Ensures
<1>5. /\ OneByOne'
      /\ ~tangled' => ~tangled /\ \A d \in Clients : ReqAt(d, "idle")
      /\ ~overlap' => ~overlap /\ \A d \in Clients : ReqAt(d, "idle")
      /\ (~tangled' \/ ~overlap') /\ up => memory = stored
  BY <1>1, OneBegins DEF CatalogInv
<1>6. RegistryFollows'
  <2>1. ToApply(r) = {} /\ QueueFits(r)
    BY DEF ToApply, QueueFits
  <2>2. request[c].pc = "idle"
    BY DEF Begin, ReqAt
  <2> QED BY <1>1, <1>5, <2>1, <2>2, NothingToApply, RegistryMoves DEF CatalogInv
<1>7. ASSUME ~overlap'
      PROVE  /\ Dependent(stored') \/ NeedsConnection(r) => GetConnection'
             /\ r.pc = "delete" => ~Dependent(stored')
             /\ \A d \in Clients : d # c => ReqAt(d, "idle")
  <2>1. memory = stored /\ (Dependent(stored) => GetConnection)
    BY <1>5, <1>7 DEF CatalogInv, DependentsFit, Serving
  <2>2. GetConnection => GetConnection'
    BY DEF GetConnection
  <2> QED BY <1>1, <1>5, <1>7, <2>1, <2>2
<1>8. DependentsFit'
  BY <1>1, <1>7, DependentsMoves DEF CatalogInv
<1> QED BY <1>2, <1>3, <1>4, <1>5, <1>6, <1>8 DEF CatalogInv

LEMMA ConnectionRequestKeeps ==
  ASSUME CatalogInv, NEW c \in Clients, c # Boot, Serving, ConnectionRequest(c, ServiceConnectionImpact), CatalogSame,
         tangled' = (tangled \/ \E d \in Clients : ~ReqAt(d, "idle"))
  PROVE  CatalogInv'
<1>1. connection \in ConnectionRows \cup {NoConnection}
  BY DEF CatalogInv, CatalogTyped
<1>2. ASSUME NEW r, Begin(c, r), UNCHANGED connection, r.pc \in {"upsert", "test"},
             {"pc", "row"} \subseteq DOMAIN r, r.row \in ConnectionRows
      PROVE  CatalogInv'
  <2>1. Carries(r) /\ ~AboutAdapter(r) /\ ~NeedsConnection(r)
    BY <1>2 DEF Carries, CarriesRow, CarriesWrite, CarriesQueue, CarriesProvider, AboutAdapter, NeedsConnection
  <2> QED BY <1>2, <2>1, BeginsKeep
<1>3. CASE \E row \in Rows : PutConnection(c, row)
  <2>1. PICK row \in Rows : PutConnection(c, row)
    BY <1>3
  <2>2. PICK r : r = [pc |-> "upsert", row |-> row, rotate |-> FALSE]
    OBVIOUS
  <2>3. Begin(c, r) /\ UNCHANGED connection
    BY <2>1, <2>2 DEF PutConnection
  <2>4. row \in ConnectionRows
    BY DEF Rows, ConnectionRows
  <2>5. r.pc = "upsert" /\ {"pc", "row"} \subseteq DOMAIN r /\ r.row = row
    BY <2>2
  <2> QED BY <1>2, <2>3, <2>4, <2>5
<1>4. ASSUME NEW status \in Statuses, NEW scope \in Scopes, NEW net \in Nets, mergeServiceConnectionPatch(c, status, scope, net)
      PROVE  CatalogInv'
  <2>1. PICK row : row = [connection EXCEPT !.status = status, !.scope = scope, !.net = net]
    OBVIOUS
  <2>2. PICK r : r = [pc |-> "upsert", rotate |-> FALSE, row |-> row]
    OBVIOUS
  <2>3. Begin(c, r) /\ UNCHANGED connection /\ GetConnection
    BY <1>4, <2>1, <2>2 DEF mergeServiceConnectionPatch
  <2>4. row \in ConnectionRows
    BY <1>1, <2>1, <2>3, RowFacts DEF ConnectionRows, GetConnection
  <2>5. r.pc = "upsert" /\ {"pc", "row"} \subseteq DOMAIN r /\ r.row = row
    BY <2>2
  <2> QED BY <1>2, <2>3, <2>4, <2>5
<1>5. GetConnection => connection.status \in Statuses /\ connection.scope \in Scopes /\ connection.net \in Nets
  BY <1>1, RowFacts DEF ConnectionRows, GetConnection
<1>6. CASE handleServiceConnectionResource(c) \/ \E scope \in Scopes, net \in Nets : Patch(c, scope, net)
  <2>1. CASE Enable(c)
    BY <1>4, <1>5, <2>1 DEF Enable, mergeServiceConnectionPatch, Statuses
  <2>2. CASE Disable(c)
    BY <1>4, <1>5, <2>2 DEF Disable, mergeServiceConnectionPatch, Statuses
  <2>3. CASE \E scope \in Scopes, net \in Nets : Patch(c, scope, net)
    BY <1>4, <1>5, <2>3 DEF Patch, mergeServiceConnectionPatch
  <2>4. CASE Test(c)
    <3>1. PICK r : r = [pc |-> "test", row |-> connection]
      OBVIOUS
    <3>2. Begin(c, r) /\ UNCHANGED connection /\ connection \in ConnectionRows
      BY <1>1, <2>4, <3>1, RowFacts DEF Test, GetConnection
    <3>3. r.pc = "test" /\ {"pc", "row"} \subseteq DOMAIN r /\ r.row = connection
      BY <3>1
    <3> QED BY <1>2, <3>2, <3>3
  <2> QED BY <1>6, <2>1, <2>2, <2>3, <2>4 DEF handleServiceConnectionResource
<1>7. CASE handleServiceConnectionSecretRotations(c)
  <2>1. PICK scope \in Scopes : RotateSecret(c, scope)
    BY <1>7 DEF handleServiceConnectionSecretRotations
  <2>2. PICK row : row = [connection EXCEPT !.scope = scope, !.health = "unknown"]
    OBVIOUS
  <2>3. PICK r : r = [pc |-> "upsert", rotate |-> TRUE, row |-> row]
    OBVIOUS
  <2>4. Begin(c, r) /\ UNCHANGED connection /\ GetConnection
    BY <2>1, <2>2, <2>3 DEF RotateSecret
  <2>5. row \in ConnectionRows
    BY <1>1, <2>2, <2>4, RowFacts DEF ConnectionRows, GetConnection
  <2>6. r.pc = "upsert" /\ {"pc", "row"} \subseteq DOMAIN r /\ r.row = row
    BY <2>3
  <2> QED BY <1>2, <2>4, <2>5, <2>6
<1>8. CASE DeleteRequest(c, ServiceConnectionImpact)
  <2>1. PICK r : r = [pc |-> "delete"]
    OBVIOUS
  <2>2. Begin(c, r) /\ UNCHANGED connection /\ ~Dependent(memory) /\ r.pc = "delete"
    BY <1>8, <2>1 DEF DeleteRequest, ServiceConnectionImpact, Dependent
  <2>3. Carries(r) /\ ~AboutAdapter(r) /\ ~NeedsConnection(r)
    BY <2>2 DEF Carries, CarriesRow, CarriesWrite, CarriesQueue, CarriesProvider, AboutAdapter, NeedsConnection
  <2> QED BY <2>2, <2>3, BeginsKeep
<1> QED BY <1>3, <1>6, <1>7, <1>8 DEF ConnectionRequest, handleServiceConnections, handleServiceConnectionByID

-----------------------------------------------------------------------------
(* Requests about the catalog                                              *)

LEMMA CatalogBeginKeeps ==
  ASSUME CatalogInv, NEW c \in Clients, NEW r, BeginCatalog(c, r), Carries(r),
         r.pc \in {"save", "apply", "probe", "ensure", "operation"},
         r.pc = "apply" => r.queue = {}, r.pc = "ensure" => memory.adapter.status = "absent", AboutAdapter(r) => memory.adapter.status # "absent",
         NeedsConnection(r) /\ memory = stored /\ ~overlap => GetConnection
  PROVE  CatalogInv'
<1>1. /\ c # Boot /\ Serving /\ Begin(c, r) /\ CatalogSame /\ UNCHANGED connection
      /\ tangled' = (tangled \/ \E d \in Clients : ~ReqAt(d, "idle"))
  BY DEF BeginCatalog, CatalogSame, ConnectionSame
<1> QED BY <1>1, BeginsKeep

LEMMA WriteKeeps ==
  ASSUME CatalogInv, NEW c \in Clients, NEW field, NEW value, Write(c, field, value), <<field, value>> \in CatalogWrites,
         field \notin {"adapter", "operation"}, field = "host" => GetConnection
  PROVE  CatalogInv'
<1>1. PICK r : r = [pc |-> "save", w |-> <<field, value>>, todo |-> {}]
  OBVIOUS
<1>2. BeginCatalog(c, r)
  BY <1>1 DEF Write
<1>3. {"pc", "w", "todo"} \subseteq DOMAIN r /\ r.pc = "save" /\ r.w = <<field, value>> /\ r.todo = {} /\ r.w[1] = field
  BY <1>1
<1>4. Carries(r)
  BY <1>3 DEF Carries, CarriesRow, CarriesWrite, CarriesQueue, CarriesProvider
<1>5. ~AboutAdapter(r) /\ (NeedsConnection(r) => GetConnection)
  BY <1>3 DEF AboutAdapter, NeedsConnection
<1> QED BY <1>2, <1>3, <1>4, <1>5, CatalogBeginKeeps

LEMMA SyncKeeps ==
  ASSUME CatalogInv, NEW c \in Clients, NEW ts \in SUBSET Tools, BeginCatalog(c, [pc |-> "apply", todo |-> ts, queue |-> {}])
  PROVE  CatalogInv'
<1>1. PICK r : r = [pc |-> "apply", todo |-> ts, queue |-> {}]
  OBVIOUS
<1>2. r.pc = "apply" /\ r.todo = ts /\ r.queue = {}
  BY <1>1
<1>3. Carries(r) /\ ~AboutAdapter(r) /\ ~NeedsConnection(r)
  BY <1>2 DEF Carries, CarriesRow, CarriesWrite, CarriesQueue, CarriesProvider, AboutAdapter, NeedsConnection
<1> QED BY <1>1, <1>2, <1>3, CatalogBeginKeeps

LEMMA CheckHealthKeeps ==
  ASSUME CatalogInv, NEW c \in Clients, NEW kind \in {"host", "adapter"}, CheckProviderHealth(c, kind)
  PROVE  CatalogInv'
<1>1. PICK r : r = [pc |-> "probe", field |-> kind, value |-> memory[kind]]
  OBVIOUS
<1>2. BeginCatalog(c, r) /\ memory[kind].status # "absent"
  BY <1>1 DEF CheckProviderHealth
<1>3. memory \in Catalogs
  BY DEF CatalogInv, CatalogTyped
<1>4. memory[kind] \in ProviderRows
  BY <1>3 DEF Catalogs
<1>5. memory[kind] \in ProviderStored
  BY <1>2, <1>4 DEF ProviderRows, ProviderStored, RowStatuses
<1>6. r.pc = "probe" /\ r.field = kind /\ r.value = memory[kind]
  BY <1>1
<1>7. Carries(r)
  BY <1>5, <1>6 DEF Carries, CarriesRow, CarriesWrite, CarriesQueue, CarriesProvider
<1>8. AboutAdapter(r) => memory.adapter.status # "absent"
  BY <1>2, <1>6 DEF AboutAdapter
<1>9. NeedsConnection(r) /\ memory = stored /\ ~overlap => GetConnection
  BY <1>2, <1>6 DEF NeedsConnection, CatalogInv, DependentsFit, Dependent
<1> QED BY <1>2, <1>6, <1>7, <1>8, <1>9, CatalogBeginKeeps

\* The operation is about to be validated; its provider is there, or is written first.
LEMMA OperationKeeps ==
  ASSUME CatalogInv, NEW c \in Clients, NEW status \in CatalogStatuses, UpsertAdapterOperation(c, status)
  PROVE  CatalogInv'
<1>1. PICK r : r = [pc |-> IF memory.adapter.status = "absent" THEN "ensure" ELSE "operation", status |-> status]
  OBVIOUS
<1>2. BeginCatalog(c, r)
  BY <1>1 DEF UpsertAdapterOperation
<1>3. r.status = status /\ r.pc = IF memory.adapter.status = "absent" THEN "ensure" ELSE "operation"
  BY <1>1
<1>4. Carries(r)
  BY <1>3 DEF Carries, CarriesRow, CarriesWrite, CarriesQueue, CarriesProvider
<1>5. (AboutAdapter(r) => memory.adapter.status # "absent") /\ ~NeedsConnection(r)
  BY <1>3 DEF AboutAdapter, NeedsConnection
<1> QED BY <1>2, <1>3, <1>4, <1>5, CatalogBeginKeeps

LEMMA CatalogRequestKeeps ==
  ASSUME CatalogInv, NEW c \in Clients, CatalogRequest(c)
  PROVE  CatalogInv'
<1>1. memory \in Catalogs
  BY DEF CatalogInv, CatalogTyped
<1>2. ASSUME NEW status \in CatalogStatuses, NEW same \in BOOLEAN, UpsertProvider(c, status, same) PROVE CatalogInv'
  <2>1. PICK value : value = normalizeProviderForUpsert(status, same)
    OBVIOUS
  <2>2. value \in ProviderStored
    <3>1. memory.host.health \in {"unknown", "healthy", "unhealthy"}
      BY <1>1 DEF Catalogs, ProviderRows
    <3> QED BY <2>1, <3>1 DEF normalizeProviderForUpsert, ProviderStored
  <2>3. <<"host", value>> \in CatalogWrites
    BY <2>2 DEF CatalogWrites
  <2> QED BY <1>2, <2>1, <2>3, WriteKeeps DEF UpsertProvider, providerConnectionRef
<1>3. ASSUME NEW field \in Tools \cup {"group"}, NEW status \in CatalogStatuses, Write(c, field, status) PROVE CatalogInv'
  <2>1. <<field, status>> \in CatalogWrites /\ field \notin {"host", "adapter", "operation"}
    BY CatalogAssumption DEF CatalogWrites
  <2> QED BY <1>3, <2>1, WriteKeeps
<1>4. CASE handleToolProviderResource(c)
  <2>1. CASE \E ts \in fetchCatalog \cup fetchMCPCatalog : SyncProviderCatalog(c, ts)
    <3>1. PICK ts \in fetchCatalog \cup fetchMCPCatalog : SyncProviderCatalog(c, ts)
      BY <2>1
    <3>2. ts \in SUBSET Tools
      BY DEF fetchCatalog, fetchMCPCatalog, Tools
    <3> QED BY <3>1, <3>2, SyncKeeps DEF SyncProviderCatalog
  <2>2. CASE SyncManagedAdapter(c)
    <3>1. {AdapterTool} \in SUBSET Tools
      BY DEF Tools
    <3> QED BY <2>2, <3>1, SyncKeeps DEF SyncManagedAdapter
  <2> QED BY <1>2, <1>4, <2>1, <2>2, CheckHealthKeeps DEF handleToolProviderResource
<1>5. CASE handleToolProviderOperations(c)
  <2>1. CASE PublishAdapterOperation(c)
    <3>1. AdapterTool \in Tools /\ "enabled" \in CatalogStatuses
      BY DEF Tools, CatalogStatuses
    <3> QED BY <1>3, <2>1, <3>1 DEF PublishAdapterOperation
  <2> QED BY <1>5, <2>1, OperationKeeps DEF handleToolProviderOperations, UpsertAdapterOperationFromResource
<1>6. CASE handleToolGroupResource(c)
  BY <1>3, <1>6 DEF handleToolGroupResource, UpsertGroup
<1>7. CASE handleToolManifestResource(c)
  BY <1>3, <1>7 DEF handleToolManifestResource, UpsertManifest, Tools
<1> QED BY <1>4, <1>5, <1>6, <1>7 DEF CatalogRequest

-----------------------------------------------------------------------------
(* Steps of the catalog                                                    *)

\* A step that leaves database, memory, registry and connection alone.
LEMMA LocalKeeps ==
  ASSUME CatalogInv, NEW c \in Clients, request[c].pc \notin {"idle", "memory", "ensured"}, NEW r, Continue(c, r), Carries(r),
         UNCHANGED <<stored, memory, registry, usable, connection, overlap>>,
         up' = up \/ ((up' <=> c # Boot) /\ r.pc = "idle"), ~tangled' => up' = up,
         r.pc \notin {"memory", "delete", "ensure", "ensured"}, AboutAdapter(r) => memory.adapter.status # "absent",
         NeedsConnection(r) /\ ~overlap => GetConnection,
         tangled => tangled', ~tangled' => ToApply(r) = ToApply(request[c]) /\ QueueFits(r)
  PROVE  CatalogInv'
<1>1. CatalogTyped'
  BY TypedMoves DEF CatalogInv, CatalogTyped
<1>2. StartsAlone'
  BY StartsMoves DEF CatalogInv, ReqAt
<1>3. AdapterFirst'
  BY AdapterMoves DEF CatalogInv, Ensures
<1>4. up' => up
  BY DEF CatalogInv, StartsAlone, ReqAt
<1>5. OneByOne'
  BY <1>4, OneMoves DEF CatalogInv
<1>6. RegistryFollows'
  BY RegistryMoves DEF CatalogInv
<1>7. ASSUME ~overlap'
      PROVE  /\ Dependent(stored') \/ NeedsConnection(r) => GetConnection'
             /\ r.pc = "delete" => ~Dependent(stored')
             /\ \A d \in Clients : d # c => ReqAt(d, "idle")
  <2>1. ~overlap /\ (Dependent(stored) => GetConnection) /\ (GetConnection => GetConnection')
    BY <1>7 DEF CatalogInv, DependentsFit, GetConnection
  <2>2. \A d \in Clients : d # c => ReqAt(d, "idle")
    BY <2>1, OthersIdle DEF CatalogInv, ReqAt
  <2> QED BY <2>1, <2>2
<1>8. DependentsFit'
  BY <1>7, DependentsMoves DEF CatalogInv
<1> QED BY <1>1, <1>2, <1>3, <1>5, <1>6, <1>8 DEF CatalogInv

LEMMA CatalogSaveKeeps ==
  ASSUME CatalogInv, NEW c \in Clients, Save(c)
  PROVE  CatalogInv'
<1>1. PICK e, w : e = request[c] /\ w = e.w
  OBVIOUS
<1>2. /\ e.pc = "save" /\ UNCHANGED <<up, memory, registry, usable, overlap, connection>>
  BY <1>1 DEF Save, ReqAt, ConnectionSame
<1>3. {"pc", "w", "todo"} \subseteq DOMAIN e /\ w \in CatalogWrites /\ e.todo \subseteq Tools
  BY <1>1, <1>2 DEF CatalogInv, CatalogTyped, CarriesWrite
<1>4. CASE UNCHANGED stored /\ CatalogFails /\ Answer(c)
  <2>1. tangled' /\ Continue(c, Waiting)
    BY <1>4 DEF CatalogFails, Answer
  <2>2. ~AboutAdapter(Waiting) /\ ~NeedsConnection(Waiting)
    BY WaitingCarries DEF AboutAdapter, NeedsConnection
  <2> QED BY <1>1, <1>2, <1>4, <2>1, <2>2, WaitingCarries, LocalKeeps
<1>5. PICK r : r = [e EXCEPT !.pc = "memory"]
  OBVIOUS
<1>6. CASE stored' = With(stored, w) /\ UNCHANGED tangled /\ Continue(c, r)
  <2>1. {"pc", "w", "todo"} \subseteq DOMAIN r /\ r.pc = "memory" /\ r.w = w /\ r.todo = e.todo
    BY <1>1, <1>3, <1>5, Zenon
  <2>2. Carries(r)
    BY <1>3, <2>1 DEF Carries, CarriesRow, CarriesWrite, CarriesQueue, CarriesProvider
  <2>3. stored \in Catalogs /\ memory \in Catalogs
    BY DEF CatalogInv, CatalogTyped
  <2>4. /\ stored' \in Catalogs /\ stored'.host = IF w[1] = "host" THEN w[2] ELSE stored.host
        /\ stored'.adapter = IF w[1] = "adapter" THEN w[2] ELSE stored.adapter
        /\ stored'.operation = IF w[1] = "operation" THEN w[2] ELSE stored.operation
    BY <1>3, <1>6, <2>3, WithIs
  <2>5. CatalogTyped'
    BY <1>2, <1>6, <2>2, <2>4, TypedMoves DEF CatalogInv, CatalogTyped
  <2>6. StartsAlone'
    BY <1>1, <1>2, <1>6, StartsMoves DEF CatalogInv, ReqAt
  <2>7. AdapterFirst'
    <3>1. w[1] \in {"adapter", "operation"} => memory.adapter.status # "absent"
      BY <1>1, <1>2 DEF CatalogInv, AdapterFirst, AboutAdapter
    <3>2. w[1] = "adapter" => w[2].status # "absent"
      BY <1>3, CatalogAssumption DEF CatalogWrites, ProviderStored, CatalogStatuses
    <3>3. \A d \in Clients : AboutAdapter(request'[d]) => memory.adapter.status # "absent"
      BY <1>6, <2>1, <3>1, RequestMoves DEF CatalogInv, AdapterFirst, AboutAdapter
    <3>4. \A d \in Clients : AboutAdapter(request[d])' => memory.adapter.status # "absent"
      BY <3>3 DEF AboutAdapter
    <3>5. \A d \in Clients : Ensures(request'[d]) => request'[d] = request[d]
      BY <1>6, <2>1, RequestMoves DEF CatalogInv, Ensures
    <3>6. \A d \in Clients : request'[d].pc = "ensured" => stored'.adapter.status # "absent"
      BY <2>4, <3>2, <3>5 DEF CatalogInv, AdapterFirst, Ensures
    <3>7. ~tangled' => \A d \in Clients : Ensures(request[d])' => memory'.adapter.status = "absent"
      BY <1>2, <1>6, <3>5 DEF CatalogInv, AdapterFirst, Ensures
    <3> QED BY <1>2, <2>4, <3>1, <3>2, <3>4, <3>6, <3>7 DEF CatalogInv, AdapterFirst
  <2>8. OneByOne'
    <3>1. SUFFICES ASSUME ~tangled \/ ~overlap PROVE OneByOne'
      BY <1>2, <1>6 DEF OneByOne
    <3>2. \A d \in Clients : d # c => request[d].pc = "idle"
      BY <1>1, <1>2, <3>1, OthersIdle DEF CatalogInv, ReqAt
    <3>3. up /\ memory = stored
      BY <1>1, <1>2, <3>1, <3>2 DEF CatalogInv, StartsAlone, OneByOne, ReqAt
    <3>4. request'[c] = r /\ \A d \in Clients : d # c => request'[d] = request[d]
      BY <1>6, RequestMoves DEF CatalogInv
    <3> QED BY <1>2, <1>6, <2>1, <3>2, <3>3, <3>4 DEF OneByOne, ReqAt
  <2>9. RegistryFollows'
    <3>1. ToApply(r) = {} /\ QueueFits(r)
      BY <2>1, NothingToApply
    <3>2. ToApply(request[c]) = {}
      BY <1>1, <1>2, NothingToApply
    <3> QED BY <1>2, <1>6, <3>1, <3>2, RegistryMoves DEF CatalogInv
  <2>10. ASSUME ~overlap'
         PROVE  /\ Dependent(stored') \/ NeedsConnection(r) => GetConnection'
                /\ r.pc = "delete" => ~Dependent(stored')
                /\ \A d \in Clients : d # c => ReqAt(d, "idle")
    <3>1. ~overlap /\ (GetConnection => GetConnection') /\ (Dependent(stored) => GetConnection)
          /\ (NeedsConnection(e) => GetConnection)
      BY <1>1, <1>2, <2>10 DEF CatalogInv, DependentsFit, GetConnection
    <3>2. \A d \in Clients : d # c => ReqAt(d, "idle")
      BY <1>1, <1>2, <3>1, OthersIdle DEF CatalogInv, ReqAt
    <3>3. Dependent(stored') => GetConnection
      BY <1>1, <1>2, <2>4, <3>1 DEF NeedsConnection, Dependent
    <3>4. ~NeedsConnection(r)
      BY <2>1 DEF NeedsConnection
    <3> QED BY <2>1, <3>1, <3>2, <3>3, <3>4
  <2>11. DependentsFit'
    BY <1>6, <2>10, DependentsMoves DEF CatalogInv
  <2> QED BY <2>5, <2>6, <2>7, <2>8, <2>9, <2>11 DEF CatalogInv
<1> QED BY <1>1, <1>4, <1>5, <1>6 DEF Save, CatalogOK

LEMMA StoreKeeps ==
  ASSUME CatalogInv, NEW c \in Clients, Store(c)
  PROVE  CatalogInv'
<1>1. PICK e, w : e = request[c] /\ w = e.w
  OBVIOUS
<1>2. /\ e.pc = "memory" /\ UNCHANGED <<up, stored, registry, usable, overlap, tangled, connection>>
      /\ memory' = With(memory, w)
  BY <1>1 DEF Store, ReqAt, ConnectionSame
<1>3. w \in CatalogWrites /\ e.todo \subseteq Tools
  BY <1>1, <1>2 DEF CatalogInv, CatalogTyped, CarriesWrite
<1>4. PICK queue : queue = Manifests(memory', Affected(w))
  OBVIOUS
<1>5. PICK r : r = [pc |-> "apply", todo |-> e.todo, queue |-> queue]
  OBVIOUS
<1>6. Continue(c, r) /\ r.pc = "apply" /\ r.todo = e.todo /\ r.queue = queue
  BY <1>1, <1>4, <1>5 DEF Store
<1>7. stored \in Catalogs /\ memory \in Catalogs
  BY DEF CatalogInv, CatalogTyped
<1>8. /\ memory' \in Catalogs
      /\ memory'.adapter = IF w[1] = "adapter" THEN w[2] ELSE memory.adapter
      /\ memory'.operation = IF w[1] = "operation" THEN w[2] ELSE memory.operation
      /\ \A t \in Tools : memory'.tool[t] = IF w[1] = t THEN w[2] ELSE memory.tool[t]
  BY <1>2, <1>3, <1>7, WithIs
<1>9. Affected(w) \subseteq Tools
  BY <1>3, AffectedIs DEF Tools, CatalogWrites
<1>10. queue = {<<t, memory'.tool[t]>> : t \in {u \in Affected(w) : memory'.tool[u] # "absent"}}
  BY <1>4 DEF Manifests
<1>11. Carries(r)
  <2>1. \A t \in Tools : memory'.tool[t] \in RowStatuses
    BY <1>8 DEF Catalogs
  <2>2. queue \subseteq Tools \X RowStatuses
    BY <1>9, <1>10, <2>1
  <2> QED BY <1>3, <1>6, <2>2 DEF Carries, CarriesRow, CarriesWrite, CarriesQueue, CarriesProvider
<1>12. CatalogTyped'
  BY <1>2, <1>6, <1>8, <1>11, TypedMoves DEF CatalogInv, CatalogTyped
<1>13. StartsAlone'
  BY <1>1, <1>2, <1>6, StartsMoves DEF CatalogInv, ReqAt
<1>14. AdapterFirst'
  <2>1. w[1] \in {"adapter", "operation"} => memory.adapter.status # "absent"
    BY <1>1, <1>2 DEF CatalogInv, AdapterFirst, AboutAdapter
  <2>2. w[1] = "adapter" => w[2].status # "absent"
    BY <1>3, CatalogAssumption DEF CatalogWrites, ProviderStored, CatalogStatuses
  <2>3. \A d \in Clients : AboutAdapter(request'[d]) => memory.adapter.status # "absent"
    BY <1>6, <2>1, RequestMoves DEF CatalogInv, AdapterFirst, AboutAdapter
  <2>4. \A d \in Clients : AboutAdapter(request[d])' => memory.adapter.status # "absent"
    BY <2>3 DEF AboutAdapter
  <2>5. \A d \in Clients : Ensures(request'[d]) => request'[d] = request[d] /\ d # c
    BY <1>6, RequestMoves DEF CatalogInv, Ensures
  <2>6. \A d \in Clients : request'[d].pc = "ensured" => stored'.adapter.status # "absent"
    BY <1>2, <2>5 DEF CatalogInv, AdapterFirst, Ensures
  <2>7. ASSUME ~tangled' PROVE \A d \in Clients : ~Ensures(request[d])'
    <3>1. \A d \in Clients : d # c => request[d].pc = "idle"
      BY <1>1, <1>2, <2>7, OthersIdle DEF CatalogInv, ReqAt
    <3> QED BY <2>5, <3>1 DEF Ensures
  <2> QED BY <1>2, <1>8, <2>1, <2>2, <2>4, <2>6, <2>7 DEF CatalogInv, AdapterFirst
<1>15. request'[c] = r /\ \A d \in Clients : d # c => request'[d] = request[d]
  BY <1>6, RequestMoves DEF CatalogInv
<1>16. ASSUME ~tangled \/ ~overlap PROVE /\ \A d \in Clients : d # c => request[d].pc = "idle"
                                         /\ up /\ memory' = stored
  <2>1. \A d \in Clients : d # c => request[d].pc = "idle"
    BY <1>1, <1>2, <1>16, OthersIdle DEF CatalogInv, ReqAt
  <2> QED BY <1>1, <1>2, <1>16, <2>1 DEF CatalogInv, StartsAlone, OneByOne, ReqAt
<1>17. OneByOne'
  BY <1>2, <1>6, <1>15, <1>16 DEF OneByOne, ReqAt
<1>18. ASSUME ~tangled PROVE RegistryFollows'
  <2>1. up /\ \A d \in Clients : request[d].pc \in {"idle", "memory"} /\ ToApply(request[d]) = {}
    BY <1>1, <1>2, <1>16, <1>18 DEF ToApply
  <2>2. \A t \in Tools : InstalledBy(memory, t)
    BY <1>18, <2>1 DEF CatalogInv, RegistryFollows
  <2>3. ASSUME NEW t \in Tools, t \notin {q[1] : q \in queue} PROVE InstalledBy(With(memory, w), t)
    <3>1. CASE t \notin Affected(w)
      BY <1>3, <1>7, <2>2, <3>1, UnaffectedInstalled
    <3>2. CASE t \in Affected(w)
      <4>1. memory'.tool[t] = "absent"
        <5>1. SUFFICES ASSUME memory'.tool[t] # "absent" PROVE FALSE
          OBVIOUS
        <5>2. <<t, memory'.tool[t]>> \in queue
          BY <1>10, <3>2, <5>1
        <5> QED BY <2>3, <5>2
      <4>2. w[1] = t => w[2] # "absent"
        BY <1>3, CatalogAssumption DEF CatalogWrites, CatalogStatuses
      <4>3. memory.tool[t] = "absent"
        BY <1>8, <4>1, <4>2
      <4> QED BY <1>2, <2>2, <4>1, <4>3 DEF InstalledBy
    <3> QED BY <3>1, <3>2
  <2>4. ASSUME NEW t \in Tools, \A d \in Clients : t \notin ToApply(request'[d]) PROVE InstalledBy(memory, t)'
    <3>1. t \notin {q[1] : q \in queue}
      BY <1>6, <1>15, <2>4 DEF ToApply
    <3>2. InstalledBy(With(memory, w), t)
      BY <2>3, <3>1
    <3> QED BY <1>2, <3>2 DEF InstalledBy
  <2>5. \A q \in queue : q[2] = memory'.tool[q[1]]
    BY <1>10
  <2>6. ASSUME NEW d \in Clients PROVE QueueFits(request[d])'
    <3>1. CASE d = c
      BY <1>6, <1>15, <2>5, <3>1 DEF QueueFits
    <3>2. CASE d # c
      BY <1>15, <1>16, <1>18, <3>2 DEF QueueFits
    <3> QED BY <3>1, <3>2
  <2>7. \A t \in Tools : (\A d \in Clients : t \notin ToApply(request[d])') => InstalledBy(memory, t)'
    BY <2>4 DEF ToApply
  <2> QED BY <1>2, <2>1, <2>6, <2>7 DEF RegistryFollows
<1>19. RegistryFollows'
  BY <1>2, <1>18 DEF RegistryFollows
<1>20. DependentsFit'
  <2>1. ASSUME ~overlap'
        PROVE  /\ Dependent(stored') \/ NeedsConnection(r) => GetConnection'
               /\ r.pc = "delete" => ~Dependent(stored')
               /\ \A d \in Clients : d # c => ReqAt(d, "idle")
    BY <1>2, <1>6, <1>16, <2>1 DEF CatalogInv, DependentsFit, GetConnection, NeedsConnection, ReqAt
  <2> QED BY <1>6, <2>1, DependentsMoves DEF CatalogInv
<1> QED BY <1>12, <1>13, <1>14, <1>17, <1>19, <1>20 DEF CatalogInv

LEMMA ProbeKeeps ==
  ASSUME CatalogInv, NEW c \in Clients, NEW answers \in BOOLEAN, probeProviderHealth(c, answers)
  PROVE  CatalogInv'
<1>1. PICK e : e = request[c]
  OBVIOUS
<1>2. e.pc = "probe" /\ e.field \in {"host", "adapter"} /\ e.value \in ProviderStored
  BY <1>1 DEF probeProviderHealth, ReqAt, CatalogInv, CatalogTyped, CarriesProvider
<1>3. PICK health \in {"healthy", "unhealthy"} :
        Continue(c, [pc |-> "save", todo |-> {}, w |-> <<e.field, [e.value EXCEPT !.health = health]>>])
  BY <1>1 DEF probeProviderHealth
<1>4. UNCHANGED <<up, stored, memory, registry, usable, overlap, tangled, connection>>
  BY DEF probeProviderHealth, ConnectionSame
<1>5. PICK value : value = [e.value EXCEPT !.health = health]
  OBVIOUS
<1>6. value \in ProviderStored
  BY <1>2, <1>5 DEF ProviderStored
<1>7. PICK r : r = [pc |-> "save", todo |-> {}, w |-> <<e.field, value>>]
  OBVIOUS
<1>8. /\ {"pc", "w", "todo"} \subseteq DOMAIN r /\ r.pc = "save" /\ r.w = <<e.field, value>> /\ r.todo = {}
      /\ r.w[1] = e.field
  BY <1>7
<1>9. r.w \in CatalogWrites
  BY <1>2, <1>6, <1>8 DEF CatalogWrites
<1>10. Carries(r)
  BY <1>8, <1>9 DEF Carries, CarriesRow, CarriesWrite, CarriesQueue, CarriesProvider
<1>11. AboutAdapter(r) => memory.adapter.status # "absent"
  BY <1>1, <1>2, <1>8 DEF CatalogInv, AdapterFirst, AboutAdapter
<1>12. NeedsConnection(r) /\ ~overlap => GetConnection
  BY <1>1, <1>2, <1>8 DEF CatalogInv, DependentsFit, NeedsConnection
<1>13. ToApply(r) = {} /\ QueueFits(r)
  BY <1>8, NothingToApply
<1>14. ToApply(request[c]) = {}
  BY <1>1, <1>2, NothingToApply
<1> QED BY <1>1, <1>2, <1>3, <1>4, <1>5, <1>7, <1>8, <1>10, <1>11, <1>12, <1>13, <1>14, LocalKeeps

LEMMA ManagedAdapterIs ==
  ManagedAdapter \in CatalogWrites /\ ManagedAdapter[1] = "adapter" /\ ManagedAdapter[2].status = "enabled"
BY DEF ManagedAdapter, CatalogWrites, ProviderStored, CatalogStatuses

LEMMA AdapterSaveKeeps ==
  ASSUME CatalogInv, NEW c \in Clients, SaveManagedAdapter(c)
  PROVE  CatalogInv'
<1>1. PICK e : e = request[c]
  OBVIOUS
<1>2. /\ e.pc = "ensure" /\ UNCHANGED <<up, memory, registry, usable, overlap, connection>>
  BY <1>1 DEF SaveManagedAdapter, ReqAt, ConnectionSame
<1>3. e.status \in CatalogStatuses
  BY <1>1, <1>2 DEF CatalogInv, CatalogTyped, CarriesProvider
<1>4. CASE UNCHANGED stored /\ CatalogFails /\ Answer(c)
  <2>1. tangled' /\ Continue(c, Waiting)
    BY <1>4 DEF CatalogFails, Answer
  <2>2. ~AboutAdapter(Waiting) /\ ~NeedsConnection(Waiting)
    BY WaitingCarries DEF AboutAdapter, NeedsConnection
  <2> QED BY <1>1, <1>2, <1>4, <2>1, <2>2, WaitingCarries, LocalKeeps
<1>5. PICK r : r = [pc |-> "ensured", status |-> e.status]
  OBVIOUS
<1>6. CASE stored' = With(stored, ManagedAdapter) /\ UNCHANGED tangled /\ Continue(c, r)
  <2>1. r.pc = "ensured" /\ r.status = e.status
    BY <1>5
  <2>2. Carries(r)
    BY <1>3, <2>1 DEF Carries, CarriesRow, CarriesWrite, CarriesQueue, CarriesProvider
  <2>3. stored \in Catalogs /\ memory \in Catalogs
    BY DEF CatalogInv, CatalogTyped
  <2>4. /\ stored' \in Catalogs /\ stored'.host = stored.host /\ stored'.adapter.status = "enabled"
        /\ stored'.operation = stored.operation
    BY <1>6, <2>3, ManagedAdapterIs, WithIs
  <2>5. CatalogTyped'
    BY <1>2, <1>6, <2>2, <2>4, TypedMoves DEF CatalogInv, CatalogTyped
  <2>6. StartsAlone'
    BY <1>1, <1>2, <1>6, StartsMoves DEF CatalogInv, ReqAt
  <2>7. request'[c] = r /\ \A d \in Clients : d # c => request'[d] = request[d]
    BY <1>6, RequestMoves DEF CatalogInv
  <2>8. AdapterFirst'
    <3>1. \A d \in Clients : AboutAdapter(request[d])' => memory'.adapter.status # "absent"
      BY <1>2, <2>1, <2>7 DEF CatalogInv, AdapterFirst, AboutAdapter
    <3>2. ~tangled' => \A d \in Clients : Ensures(request[d])' => memory'.adapter.status = "absent"
      BY <1>1, <1>2, <1>6, <2>7 DEF CatalogInv, AdapterFirst, Ensures
    <3> QED BY <1>2, <2>4, <3>1, <3>2 DEF CatalogInv, AdapterFirst
  <2>9. OneByOne'
    <3>1. SUFFICES ASSUME ~tangled \/ ~overlap PROVE OneByOne'
      BY <1>2, <1>6 DEF OneByOne
    <3>2. \A d \in Clients : d # c => request[d].pc = "idle"
      BY <1>1, <1>2, <3>1, OthersIdle DEF CatalogInv, ReqAt
    <3>3. up /\ memory = stored
      BY <1>1, <1>2, <3>1, <3>2 DEF CatalogInv, StartsAlone, OneByOne, ReqAt
    <3> QED BY <1>2, <1>6, <2>1, <2>7, <3>2, <3>3 DEF OneByOne, ReqAt
  <2>10. RegistryFollows'
    <3>1. ToApply(r) = {} /\ QueueFits(r)
      BY <2>1, NothingToApply
    <3>2. ToApply(request[c]) = {}
      BY <1>1, <1>2, NothingToApply
    <3> QED BY <1>2, <1>6, <3>1, <3>2, RegistryMoves DEF CatalogInv
  <2>11. ASSUME ~overlap'
         PROVE  /\ Dependent(stored') \/ NeedsConnection(r) => GetConnection'
                /\ r.pc = "delete" => ~Dependent(stored')
                /\ \A d \in Clients : d # c => ReqAt(d, "idle")
    <3>1. ~overlap /\ (GetConnection => GetConnection') /\ (Dependent(stored) => GetConnection)
      BY <1>2, <2>11 DEF CatalogInv, DependentsFit, GetConnection
    <3>2. \A d \in Clients : d # c => ReqAt(d, "idle")
      BY <1>1, <1>2, <3>1, OthersIdle DEF CatalogInv, ReqAt
    <3>3. Dependent(stored') <=> Dependent(stored)
      BY <2>4 DEF Dependent
    <3> QED BY <2>1, <3>1, <3>2, <3>3 DEF NeedsConnection
  <2>12. DependentsFit'
    BY <1>6, <2>11, DependentsMoves DEF CatalogInv
  <2> QED BY <2>5, <2>6, <2>8, <2>9, <2>10, <2>12 DEF CatalogInv
<1> QED BY <1>1, <1>4, <1>5, <1>6 DEF SaveManagedAdapter, CatalogOK

\* No manifest is applied: without an operation none of the adapter's is installed.
LEMMA AdapterStoreKeeps ==
  ASSUME CatalogInv, NEW c \in Clients, StoreManagedAdapter(c)
  PROVE  CatalogInv'
<1>1. PICK e : e = request[c]
  OBVIOUS
<1>2. /\ e.pc = "ensured" /\ UNCHANGED <<up, stored, registry, usable, overlap, tangled, connection>>
      /\ memory' = With(memory, ManagedAdapter)
  BY <1>1 DEF StoreManagedAdapter, ReqAt, ConnectionSame
<1>3. e.status \in CatalogStatuses
  BY <1>1, <1>2 DEF CatalogInv, CatalogTyped, CarriesProvider
<1>4. PICK r : r = [pc |-> "operation", status |-> e.status]
  OBVIOUS
<1>5. Continue(c, r) /\ r.pc = "operation" /\ r.status = e.status
  BY <1>1, <1>4 DEF StoreManagedAdapter
<1>6. stored \in Catalogs /\ memory \in Catalogs
  BY DEF CatalogInv, CatalogTyped
<1>7. memory' \in Catalogs /\ memory'.adapter.status = "enabled" /\ memory'.operation = memory.operation
  BY <1>2, <1>6, ManagedAdapterIs, WithIs
<1>8. Carries(r)
  BY <1>3, <1>5 DEF Carries, CarriesRow, CarriesWrite, CarriesQueue, CarriesProvider
<1>9. CatalogTyped'
  BY <1>2, <1>5, <1>7, <1>8, TypedMoves DEF CatalogInv, CatalogTyped
<1>10. StartsAlone'
  BY <1>1, <1>2, <1>5, StartsMoves DEF CatalogInv, ReqAt
<1>11. request'[c] = r /\ \A d \in Clients : d # c => request'[d] = request[d]
  BY <1>5, RequestMoves DEF CatalogInv
<1>12. ASSUME ~tangled \/ ~overlap PROVE /\ \A d \in Clients : d # c => request[d].pc = "idle"
                                         /\ up /\ memory' = stored
  <2>1. \A d \in Clients : d # c => request[d].pc = "idle"
    BY <1>1, <1>2, <1>12, OthersIdle DEF CatalogInv, ReqAt
  <2> QED BY <1>1, <1>2, <1>12, <2>1 DEF CatalogInv, StartsAlone, OneByOne, ReqAt
<1>13. AdapterFirst'
  <2>1. stored'.adapter.status # "absent"
    BY <1>1, <1>2 DEF CatalogInv, AdapterFirst
  <2>2. ~tangled' => \A d \in Clients : ~Ensures(request[d])'
    BY <1>2, <1>5, <1>11, <1>12 DEF Ensures
  <2> QED BY <1>2, <1>7, <2>1, <2>2 DEF AdapterFirst
<1>14. OneByOne'
  BY <1>2, <1>5, <1>11, <1>12 DEF OneByOne, ReqAt
<1>15. ASSUME ~tangled PROVE RegistryFollows'
  <2>1. up /\ \A d \in Clients : request[d].pc \in {"idle", "ensured"} /\ ToApply(request[d]) = {}
    BY <1>1, <1>2, <1>12, <1>15 DEF ToApply
  <2>2. \A t \in Tools : InstalledBy(memory, t)
    BY <1>15, <2>1 DEF CatalogInv, RegistryFollows
  <2>3. ASSUME NEW t \in Tools PROVE InstalledBy(With(memory, ManagedAdapter), t)
    <3>1. CASE t \in HostTools
      <4>1. t \notin Affected(ManagedAdapter)
        BY <3>1, ManagedAdapterIs, AffectedIs, CatalogAssumption
      <4> QED BY <1>6, <2>2, <4>1, ManagedAdapterIs, UnaffectedInstalled
    <3>2. CASE t \notin HostTools
      <4>1. memory.operation = "absent"
        BY <1>1, <1>2, <1>15 DEF CatalogInv, AdapterFirst, Ensures
      <4>2. registry[t] = 0
        BY <2>2, <3>2, <4>1 DEF InstalledBy, providerAllows
      <4> QED BY <1>2, <1>7, <3>2, <4>1, <4>2 DEF InstalledBy, providerAllows
    <3> QED BY <3>1, <3>2
  <2>4. \A t \in Tools : InstalledBy(memory, t)'
    BY <1>2, <2>3 DEF InstalledBy
  <2>5. \A d \in Clients : request'[d].pc \in {"idle", "operation"}
    BY <1>5, <1>11, <1>12, <1>15
  <2>6. \A d \in Clients : QueueFits(request[d])'
    BY <2>5 DEF QueueFits
  <2> QED BY <1>2, <2>1, <2>4, <2>6 DEF RegistryFollows
<1>16. RegistryFollows'
  BY <1>2, <1>15 DEF RegistryFollows
<1>17. DependentsFit'
  <2>1. ASSUME ~overlap'
        PROVE  /\ Dependent(stored') \/ NeedsConnection(r) => GetConnection'
               /\ r.pc = "delete" => ~Dependent(stored')
               /\ \A d \in Clients : d # c => ReqAt(d, "idle")
    BY <1>2, <1>5, <1>12, <2>1 DEF CatalogInv, DependentsFit, GetConnection, NeedsConnection, ReqAt
  <2> QED BY <1>5, <2>1, DependentsMoves DEF CatalogInv
<1> QED BY <1>9, <1>10, <1>13, <1>14, <1>16, <1>17 DEF CatalogInv

LEMMA ValidatedKeeps ==
  ASSUME CatalogInv, NEW c \in Clients, OperationValidated(c)
  PROVE  CatalogInv'
<1>1. PICK e, r : e = request[c] /\ r = [pc |-> "save", w |-> <<"operation", e.status>>, todo |-> {}]
  OBVIOUS
<1>2. /\ e.pc = "operation" /\ UNCHANGED <<up, stored, memory, registry, usable, overlap, tangled, connection>>
      /\ Answer(c) \/ (GetConnection /\ Continue(c, r))
  BY <1>1 DEF OperationValidated, ReqAt, ConnectionSame, validateAdapterOperation, providerConnectionRef
<1>3. e.status \in CatalogStatuses /\ memory.adapter.status # "absent"
  BY <1>1, <1>2 DEF CatalogInv, CatalogTyped, CarriesProvider, AdapterFirst, AboutAdapter
<1>4. ToApply(request[c]) = {}
  BY <1>1, <1>2, NothingToApply
<1>5. CASE Answer(c)
  <2>1. Continue(c, Waiting) /\ ~AboutAdapter(Waiting) /\ ~NeedsConnection(Waiting) /\ ToApply(Waiting) = {} /\ QueueFits(Waiting)
    BY <1>5, WaitingCarries, NothingToApply DEF Answer, AboutAdapter, NeedsConnection
  <2> QED BY <1>1, <1>2, <1>4, <2>1, WaitingCarries, LocalKeeps
<1>6. CASE GetConnection /\ Continue(c, r)
  <2>1. {"pc", "w", "todo"} \subseteq DOMAIN r /\ r.pc = "save" /\ r.w = <<"operation", e.status>> /\ r.todo = {}
    BY <1>1
  <2>2. Carries(r)
    BY <1>3, <2>1 DEF Carries, CarriesRow, CarriesWrite, CarriesQueue, CarriesProvider, CatalogWrites
  <2>3. ToApply(r) = {} /\ QueueFits(r)
    BY <2>1, NothingToApply
  <2> QED BY <1>1, <1>2, <1>3, <1>4, <1>6, <2>1, <2>2, <2>3, LocalKeeps
<1> QED BY <1>2, <1>5, <1>6

\* A tool is decided on or installed: only it changes.
LEMMA AppliesKeeps ==
  ASSUME CatalogInv, NEW c \in Clients, request[c].pc \in {"apply", "install"}, NEW r, Continue(c, r), Carries(r),
         r.pc \in {"apply", "install"}, UNCHANGED <<up, stored, memory, overlap, tangled, connection>>,
         registry' = [t \in Tools |-> registry'[t]], usable' = [t \in Tools |-> usable'[t]],
         ~tangled => /\ QueueFits(r)'
                     /\ \A t \in Tools : t \notin ToApply(r) =>
                          \/ InstalledBy(memory, t)'
                          \/ t \notin ToApply(request[c]) /\ registry'[t] = registry[t] /\ usable'[t] = usable[t]
  PROVE  CatalogInv'
<1>1. request'[c] = r /\ \A d \in Clients : d # c => request'[d] = request[d]
  BY RequestMoves DEF CatalogInv
<1>2. CatalogTyped'
  BY TypedMoves DEF CatalogInv, CatalogTyped
<1>3. StartsAlone' /\ up
  BY StartsMoves DEF CatalogInv, StartsAlone, ReqAt
<1>4. AdapterFirst'
  BY AdapterMoves DEF CatalogInv, AboutAdapter, Ensures
<1>5. OneByOne'
  BY OneMoves DEF CatalogInv
<1>6. ASSUME ~tangled PROVE RegistryFollows'
  <2>1. \A d \in Clients : d # c => request[d].pc = "idle" /\ ToApply(request[d]) = {}
    BY <1>6, OthersIdle DEF CatalogInv, ReqAt, ToApply
  <2>2. \A t \in Tools : t \notin ToApply(request[c]) => InstalledBy(memory, t)
    BY <1>3, <1>6, <2>1 DEF CatalogInv, RegistryFollows
  <2>3. ASSUME NEW t \in Tools, t \notin ToApply(r) PROVE InstalledBy(memory, t)'
    BY <1>6, <2>2, <2>3 DEF InstalledBy
  <2>4. \A t \in Tools : (\A d \in Clients : t \notin ToApply(request[d])') => InstalledBy(memory, t)'
    BY <1>1, <2>3 DEF ToApply
  <2>5. ASSUME NEW d \in Clients PROVE QueueFits(request[d])'
    <3>1. CASE d = c
      BY <1>1, <1>6, <3>1 DEF QueueFits
    <3>2. CASE d # c
      BY <1>1, <2>1, <3>2 DEF QueueFits
    <3> QED BY <3>1, <3>2
  <2> QED BY <1>3, <1>6, <2>4, <2>5 DEF RegistryFollows
<1>7. RegistryFollows'
  BY <1>6 DEF RegistryFollows
<1>8. ASSUME ~overlap'
      PROVE  /\ Dependent(stored') \/ NeedsConnection(r) => GetConnection'
             /\ r.pc = "delete" => ~Dependent(stored')
             /\ \A d \in Clients : d # c => ReqAt(d, "idle")
  <2>1. ~overlap /\ (Dependent(stored) => GetConnection) /\ (GetConnection => GetConnection')
    BY <1>8 DEF CatalogInv, DependentsFit, GetConnection
  <2>2. \A d \in Clients : d # c => ReqAt(d, "idle")
    BY <2>1, OthersIdle DEF CatalogInv, ReqAt
  <2> QED BY <2>1, <2>2 DEF NeedsConnection
<1>9. DependentsFit'
  BY <1>8, DependentsMoves DEF CatalogInv
<1> QED BY <1>2, <1>3, <1>4, <1>5, <1>7, <1>9 DEF CatalogInv

LEMMA DecideKeeps ==
  ASSUME CatalogInv, NEW c \in Clients, Decide(c)
  PROVE  CatalogInv'
<1>1. PICK e : e = request[c]
  OBVIOUS
<1>2. e.pc = "apply" /\ UNCHANGED <<up, stored, memory, registry, overlap, tangled, connection>>
  BY <1>1 DEF Decide, ReqAt, ConnectionSame
<1>3. e.todo \subseteq Tools /\ e.queue \subseteq Tools \X RowStatuses
  BY <1>1, <1>2 DEF CatalogInv, CatalogTyped, CarriesQueue
<1>4. CASE e.queue = {}
  <2>1. Next1(c, e.todo) /\ UNCHANGED usable
    BY <1>1, <1>4 DEF Decide
  <2>2. ToApply(e) = {}
    BY <1>2, <1>4 DEF ToApply
  <2>3. ASSUME NEW r, Continue(c, r), Carries(r), r.pc \in {"idle", "save"}, ~AboutAdapter(r), ~NeedsConnection(r)
        PROVE  CatalogInv'
    <3>1. ToApply(r) = {} /\ QueueFits(r)
      BY <2>3, NothingToApply
    <3> QED BY <1>1, <1>2, <2>1, <2>2, <2>3, <3>1, LocalKeeps
  <2>4. CASE Answer(c)
    BY <2>3, <2>4, WaitingCarries DEF Answer, AboutAdapter, NeedsConnection
  <2>5. CASE e.todo # {}
    <3>1. PICK t \in e.todo : Continue(c, [pc |-> "save", w |-> <<t, "enabled">>, todo |-> e.todo \ {t}])
      BY <2>1, <2>5 DEF Next1
    <3>2. PICK r : r = [pc |-> "save", w |-> <<t, "enabled">>, todo |-> e.todo \ {t}]
      OBVIOUS
    <3>3. /\ {"pc", "w", "todo"} \subseteq DOMAIN r /\ r.pc = "save" /\ r.w = <<t, "enabled">> /\ r.todo \subseteq Tools
          /\ r.w[1] = t /\ t \in Tools
      BY <1>3, <3>2
    <3>4. t \notin {"host", "adapter", "operation", "group"} /\ r.w \in CatalogWrites
      BY <3>3, CatalogAssumption DEF CatalogWrites, CatalogStatuses
    <3>5. Carries(r)
      BY <3>3, <3>4 DEF Carries, CarriesRow, CarriesWrite, CarriesQueue, CarriesProvider
    <3>6. ~AboutAdapter(r) /\ ~NeedsConnection(r)
      BY <3>3, <3>4 DEF AboutAdapter, NeedsConnection
    <3> QED BY <2>3, <3>1, <3>2, <3>3, <3>5, <3>6
  <2> QED BY <2>1, <2>4, <2>5 DEF Next1
<1>5. CASE e.queue # {}
  <2>1. PICK q \in e.queue :
          /\ usable' = [usable EXCEPT ![q[1]] = ConnectionAllows(q[1])]
          /\ Continue(c, [pc |-> "install", todo |-> e.todo, t |-> q[1], queue |-> e.queue \ {q},
                          install |-> manifestAllowsInstall(q[1], q[2])])
    BY <1>1, <1>5 DEF Decide
  <2>2. PICK r : r = [pc |-> "install", todo |-> e.todo, t |-> q[1], queue |-> e.queue \ {q},
                      install |-> manifestAllowsInstall(q[1], q[2])]
    OBVIOUS
  <2>3. q[1] \in Tools /\ q = <<q[1], q[2]>>
    BY <1>3
  <2>4. /\ r.pc = "install" /\ r.todo = e.todo /\ r.t = q[1] /\ r.queue = e.queue \ {q}
        /\ r.install = manifestAllowsInstall(q[1], q[2])
    BY <2>2
  <2>5. Carries(r)
    BY <1>3, <2>3, <2>4 DEF Carries, CarriesRow, CarriesWrite, CarriesQueue, CarriesProvider
  <2>6. /\ usable' = [t \in Tools |-> usable'[t]] /\ usable'[q[1]] = ConnectionAllows(q[1])
        /\ \A t \in Tools : t # q[1] => usable'[t] = usable[t]
    BY <2>1, <2>3 DEF CatalogInv, CatalogTyped
  <2>7. registry' = [t \in Tools |-> registry'[t]]
    BY <1>2 DEF CatalogInv, CatalogTyped
  <2>8. ToApply(r) = ToApply(e)
    <3>1. ToApply(r) = {q[1]} \cup {p[1] : p \in e.queue \ {q}}
      BY <2>4 DEF ToApply
    <3>2. ToApply(e) = {p[1] : p \in e.queue}
      BY <1>2 DEF ToApply
    <3> QED BY <2>1, <3>1, <3>2
  <2>9. ASSUME ~tangled PROVE QueueFits(r)'
    <3>1. \A p \in e.queue : p[2] = memory.tool[p[1]]
      BY <1>1, <1>2, <2>9 DEF CatalogInv, RegistryFollows, QueueFits
    <3>2. \A p \in e.queue \ {q} : p[1] # q[1]
      <4>1. SUFFICES ASSUME NEW p \in e.queue \ {q}, p[1] = q[1] PROVE FALSE
        OBVIOUS
      <4>2. p = <<p[1], p[2]>> /\ p[2] = q[2]
        BY <1>3, <3>1, <4>1
      <4> QED BY <2>3, <4>1, <4>2
    <3>3. r.install <=> /\ memory.tool[q[1]] = "enabled" /\ groupAllowsInstall(memory)
                        /\ providerAllows(memory, q[1]) /\ ConnectionAllows(q[1])
      BY <2>4, <3>1 DEF manifestAllowsInstall, providerAllowsInstall
    <3>4. (usable'[q[1]] = TRUE) <=> ConnectionAllows(q[1])
      BY <2>6 DEF ConnectionAllows, providerConnection, validateAdapterOperation, validateDatabaseOperationResource, GetConnection
    <3> QED BY <1>2, <2>4, <2>6, <3>1, <3>2, <3>3, <3>4 DEF QueueFits
  <2>10. \A t \in Tools : t \notin ToApply(r) => t \notin ToApply(request[c]) /\ usable'[t] = usable[t]
    <3>1. q[1] \in ToApply(r)
      BY <2>4 DEF ToApply
    <3> QED BY <1>1, <2>6, <2>8, <3>1
  <2> QED BY <1>1, <1>2, <2>1, <2>2, <2>4, <2>5, <2>6, <2>7, <2>9, <2>10, AppliesKeeps
<1> QED BY <1>4, <1>5

LEMMA ApplyKeeps ==
  ASSUME CatalogInv, NEW c \in Clients, applyManifests(c)
  PROVE  CatalogInv'
<1>1. PICK e, t : e = request[c] /\ t = e.t
  OBVIOUS
<1>2. e.pc = "install" /\ UNCHANGED <<stored, memory, usable, overlap, connection>>
  BY <1>1 DEF applyManifests, ReqAt, ConnectionSame
<1>3. e.todo \subseteq Tools /\ e.queue \subseteq Tools \X RowStatuses /\ t \in Tools
  BY <1>1, <1>2 DEF CatalogInv, CatalogTyped, CarriesQueue
<1>4. registry = [u \in Tools |-> registry[u]] /\ usable' = [u \in Tools |-> usable'[u]]
      /\ connection \in ConnectionRows \cup {NoConnection}
  BY <1>2 DEF CatalogInv, CatalogTyped
<1>5. ASSUME Answer(c), tangled' = TRUE, up' = (c # Boot), registry' = [u \in Tools |-> registry'[u]] PROVE CatalogInv'
  <2>1. Continue(c, Waiting) /\ Waiting.pc = "idle" /\ Carries(Waiting)
    BY <1>5, WaitingCarries DEF Answer
  <2>2. CatalogTyped'
    BY <1>2, <1>4, <1>5, <2>1, TypedMoves DEF CatalogInv, CatalogTyped
  <2>3. ~ReqAt(c, "idle")
    BY <1>1, <1>2 DEF ReqAt
  <2>4. StartsAlone'
    BY <1>5, <2>1, <2>3, StartsMoves DEF CatalogInv
  <2>5. AdapterFirst'
    BY <1>2, <1>5, <2>1, AdapterMoves DEF CatalogInv, AboutAdapter, Ensures
  <2>6. OneByOne'
    <3>1. up
      BY <1>1, <1>2 DEF CatalogInv, StartsAlone, ReqAt
    <3> QED BY <1>1, <1>2, <1>5, <2>1, <3>1, OneMoves DEF CatalogInv
  <2>7. RegistryFollows'
    BY <1>5 DEF RegistryFollows
  <2>8. ASSUME ~overlap'
        PROVE  /\ Dependent(stored') \/ NeedsConnection(Waiting) => GetConnection'
               /\ Waiting.pc = "delete" => ~Dependent(stored')
               /\ \A d \in Clients : d # c => ReqAt(d, "idle")
    <3>1. ~overlap /\ (Dependent(stored) => GetConnection) /\ (GetConnection => GetConnection')
      BY <1>2, <2>8 DEF CatalogInv, DependentsFit, GetConnection
    <3>2. \A d \in Clients : d # c => ReqAt(d, "idle")
      BY <2>3, <3>1, OthersIdle DEF CatalogInv
    <3> QED BY <1>2, <2>1, <3>1, <3>2 DEF NeedsConnection
  <2>9. DependentsFit'
    BY <2>1, <2>8, DependentsMoves DEF CatalogInv
  <2> QED BY <2>2, <2>4, <2>5, <2>6, <2>7, <2>9 DEF CatalogInv
<1>6. CASE e.install /\ ~executorFor(t)
  BY <1>1, <1>4, <1>5, <1>6 DEF applyManifests
<1>7. CASE ~(e.install /\ ~executorFor(t))
  <2>1. registry' = [registry EXCEPT ![t] = IF e.install THEN connection.scope ELSE 0]
    BY <1>1, <1>7 DEF applyManifests
  <2>2. /\ registry' = [u \in Tools |-> registry'[u]] /\ registry'[t] = IF e.install THEN connection.scope ELSE 0
        /\ \A u \in Tools : u # t => registry'[u] = registry[u]
    BY <1>3, <1>4, <2>1
  <2>3. PICK r : r = [pc |-> "apply", todo |-> e.todo, queue |-> e.queue]
    OBVIOUS
  <2>4. \/ Answer(c) /\ tangled' = TRUE /\ up' = (c # Boot)
        \/ Continue(c, r) /\ UNCHANGED <<up, tangled>>
    BY <1>1, <1>7, <2>3 DEF applyManifests, CatalogOK, CatalogFails
  <2>5. CASE Continue(c, r) /\ UNCHANGED <<up, tangled>>
    <3>1. r.pc = "apply" /\ r.todo = e.todo /\ r.queue = e.queue
      BY <2>3
    <3>2. Carries(r)
      BY <1>3, <3>1 DEF Carries, CarriesRow, CarriesWrite, CarriesQueue, CarriesProvider
    <3>3. registry'[t] # 0 <=> e.install
      <4>1. e.install => connection.scope # 0
        BY <1>4, <1>7, RowFacts DEF executorFor, providerAllowsInstall, ConnectionAllows, providerConnection,
               validateAdapterOperation, GetConnection
      <4> QED BY <2>2, <4>1
    <3>4. ASSUME ~tangled
          PROVE  /\ QueueFits(r)'
                 /\ \A u \in Tools : u \notin ToApply(r) =>
                      \/ InstalledBy(memory, u)'
                      \/ u \notin ToApply(request[c]) /\ registry'[u] = registry[u] /\ usable'[u] = usable[u]
      <4>1. QueueFits(e)
        BY <1>1, <3>4 DEF CatalogInv, RegistryFollows
      <4>2. QueueFits(r)'
        BY <1>2, <3>1, <4>1 DEF QueueFits
      <4>3. InstalledBy(memory, t)'
        BY <1>1, <1>2, <3>3, <4>1 DEF QueueFits, InstalledBy
      <4>4. \A u \in Tools : u \notin ToApply(r) /\ u # t => u \notin ToApply(e)
        BY <1>1, <1>2, <3>1 DEF ToApply
      <4> QED BY <1>1, <1>2, <2>2, <4>2, <4>3, <4>4
    <3> QED BY <1>1, <1>2, <1>4, <2>2, <2>5, <3>1, <3>2, <3>4, AppliesKeeps
  <2> QED BY <1>5, <2>2, <2>4, <2>5
<1> QED BY <1>6, <1>7

LEMMA CatalogStepKeeps ==
  ASSUME CatalogInv, NEW c \in Clients, CatalogStep(c)
  PROVE  CatalogInv'
BY CatalogSaveKeeps, StoreKeeps, DecideKeeps, ApplyKeeps, ProbeKeeps, AdapterSaveKeeps, AdapterStoreKeeps, ValidatedKeeps
   DEF CatalogStep, ensureManagedAdapterProvider

-----------------------------------------------------------------------------
(* Stop and start, and the theorem                                         *)

LEMMA RestoreKeeps ==
  ASSUME CatalogInv, Restore
  PROVE  CatalogInv'
<1>1. PICK queue, r : queue = Manifests(stored, Tools) /\ r = [pc |-> "apply", todo |-> {}, queue |-> queue]
  OBVIOUS
<1>2. /\ ~up /\ up' = TRUE /\ memory' = stored /\ Continue(Boot, r)
      /\ UNCHANGED <<stored, registry, usable, tangled, overlap, connection>>
  BY <1>1 DEF Restore, ListCatalog, ConnectionSame
<1>3. r.pc = "apply" /\ r.todo = {} /\ r.queue = queue
  BY <1>1
<1>4. stored \in Catalogs /\ Boot \in Clients
  BY CatalogAssumption DEF CatalogInv, CatalogTyped
<1>5. queue = {<<t, stored.tool[t]>> : t \in {u \in Tools : stored.tool[u] # "absent"}}
  BY <1>1 DEF Manifests
<1>6. Carries(r)
  <2>1. queue \subseteq Tools \X RowStatuses
    BY <1>4, <1>5 DEF Catalogs
  <2> QED BY <1>3, <2>1 DEF Carries, CarriesRow, CarriesWrite, CarriesQueue, CarriesProvider
<1>7. CatalogTyped'
  BY <1>2, <1>4, <1>6, TypedMoves DEF CatalogInv, CatalogTyped
<1>8. /\ request'[Boot] = r /\ \A d \in Clients : d # Boot => request'[d] = request[d] /\ request[d].pc = "idle"
  BY <1>2, <1>4, RequestMoves DEF CatalogInv, StartsAlone, ReqAt
<1>9. StartsAlone'
  BY <1>2, <1>8 DEF StartsAlone, ReqAt
<1>10. AdapterFirst'
  <2>1. \A d \in Clients : ~AboutAdapter(request'[d])
    BY <1>3, <1>8 DEF AboutAdapter
  <2>2. \A d \in Clients : ~AboutAdapter(request[d])'
    BY <2>1 DEF AboutAdapter
  <2>3. \A d \in Clients : ~Ensures(request[d])' /\ request'[d].pc # "ensured"
    BY <1>3, <1>8 DEF Ensures
  <2> QED BY <1>2, <2>2, <2>3 DEF CatalogInv, AdapterFirst
<1>11. OneByOne'
  BY <1>2, <1>3, <1>8 DEF OneByOne, ReqAt
<1>12. ASSUME ~tangled PROVE RegistryFollows'
  <2>1. \A t \in Tools : registry[t] = 0
    BY <1>2, <1>12 DEF CatalogInv, RegistryFollows
  <2>2. ASSUME NEW t \in Tools, \A d \in Clients : t \notin ToApply(request[d])' PROVE InstalledBy(memory, t)'
    <3>1. t \notin {q[1] : q \in queue}
      BY <1>3, <1>4, <1>8, <2>2 DEF ToApply
    <3>2. stored.tool[t] = "absent"
      <4>1. SUFFICES ASSUME stored.tool[t] # "absent" PROVE FALSE
        OBVIOUS
      <4>2. <<t, stored.tool[t]>> \in queue
        BY <1>5, <4>1
      <4> QED BY <3>1, <4>2
    <3> QED BY <1>2, <2>1, <3>2 DEF InstalledBy
  <2>3. \A q \in queue : q[2] = memory'.tool[q[1]]
    BY <1>2, <1>5
  <2>4. ASSUME NEW d \in Clients PROVE QueueFits(request[d])'
    <3>1. CASE d = Boot
      BY <1>3, <1>8, <2>3, <3>1 DEF QueueFits
    <3>2. CASE d # Boot
      BY <1>8, <3>2 DEF QueueFits
    <3> QED BY <3>1, <3>2
  <2> QED BY <1>2, <2>2, <2>4 DEF RegistryFollows
<1>13. RegistryFollows'
  BY <1>2, <1>12 DEF RegistryFollows
<1>14. DependentsFit'
  <2>1. ASSUME ~overlap'
        PROVE  /\ Dependent(stored') \/ NeedsConnection(r) => GetConnection'
               /\ r.pc = "delete" => ~Dependent(stored')
               /\ \A d \in Clients : d # Boot => ReqAt(d, "idle")
    BY <1>2, <1>3, <1>8, <2>1 DEF CatalogInv, DependentsFit, GetConnection, NeedsConnection, ReqAt
  <2> QED BY <1>2, <1>4, <2>1, DependentsMoves DEF CatalogInv
<1> QED BY <1>7, <1>9, <1>10, <1>11, <1>13, <1>14 DEF CatalogInv

\* With no request in progress and the process down, the database alone counts.
LEMMA DownIsFine ==
  ASSUME stored \in Catalogs, memory = Empty, registry = [t \in Tools |-> 0], usable = [t \in Tools |-> usable[t]],
         connection \in ConnectionRows \cup {NoConnection}, request = [c \in Clients |-> Waiting], ~up,
         stored.operation # "absent" => stored.adapter.status # "absent",
         ~overlap => (Dependent(stored) => GetConnection)
  PROVE  CatalogInv
<1>1. Empty \in Catalogs /\ Empty.operation = "absent" /\ Empty.adapter.status = "absent"
  BY DEF Empty, NoProvider, Catalogs, ProviderRows, RowStatuses
<1>2. \A c \in Clients : request[c] = Waiting /\ request[c].pc = "idle"
  BY WaitingCarries
<1>3. CatalogTyped
  <2>1. registry = [t \in Tools |-> registry[t]] /\ request = [c \in Clients |-> request[c]]
    OBVIOUS
  <2> QED BY <1>1, <1>2, <2>1, WaitingCarries DEF CatalogTyped, Carries
<1>4. StartsAlone
  BY <1>2 DEF StartsAlone, ReqAt
<1>5. AdapterFirst
  BY <1>1, <1>2 DEF AdapterFirst, AboutAdapter, Ensures
<1>6. OneByOne
  BY <1>2 DEF OneByOne, ReqAt
<1>7. RegistryFollows
  BY <1>2 DEF RegistryFollows, QueueFits
<1>8. DependentsFit
  BY <1>2 DEF DependentsFit, NeedsConnection, ReqAt
<1> QED BY <1>3, <1>4, <1>5, <1>6, <1>7, <1>8 DEF CatalogInv

LEMMA StopKeeps ==
  ASSUME CatalogInv, Stop
  PROVE  CatalogInv'
<1>1. /\ up' = FALSE /\ memory' = Empty /\ registry' = [t \in Tools |-> 0] /\ request' = [c \in Clients |-> Waiting]
      /\ UNCHANGED <<stored, usable, overlap, connection>>
  BY DEF Stop, ConnectionSame
<1>2. /\ stored \in Catalogs /\ usable = [t \in Tools |-> usable[t]] /\ connection \in ConnectionRows \cup {NoConnection}
      /\ stored.operation # "absent" => stored.adapter.status # "absent"
      /\ ~overlap => (Dependent(stored) => GetConnection)
  BY DEF CatalogInv, CatalogTyped, AdapterFirst, DependentsFit
<1>3. GetConnection => GetConnection'
  BY <1>1 DEF GetConnection
<1>4. Empty \in Catalogs /\ Empty.operation = "absent" /\ Empty.adapter.status = "absent"
  BY DEF Empty, NoProvider, Catalogs, ProviderRows, RowStatuses
<1>5. \A c \in Clients : request'[c] = Waiting /\ request'[c].pc = "idle"
  BY <1>1, WaitingCarries
<1>6. CatalogTyped'
  <2>1. \A c \in Clients : Carries(request'[c])
    BY <1>5, WaitingCarries
  <2>2. registry' = [t \in Tools |-> registry'[t]] /\ request' = [c \in Clients |-> request'[c]]
    BY <1>1
  <2> QED BY <1>1, <1>2, <1>4, <2>1, <2>2 DEF CatalogTyped, Carries, CarriesRow, CarriesWrite, CarriesQueue, CarriesProvider
<1>7. StartsAlone'
  BY <1>5 DEF StartsAlone, ReqAt
<1>8. AdapterFirst'
  BY <1>1, <1>2, <1>4, <1>5 DEF AdapterFirst, AboutAdapter, Ensures
<1>9. OneByOne'
  BY <1>1, <1>5 DEF OneByOne, ReqAt
<1>10. RegistryFollows'
  BY <1>1, <1>5 DEF RegistryFollows, QueueFits
<1>11. DependentsFit'
  BY <1>1, <1>2, <1>3, <1>5 DEF DependentsFit, NeedsConnection, ReqAt
<1> QED BY <1>6, <1>7, <1>8, <1>9, <1>10, <1>11 DEF CatalogInv

LEMMA CatalogStart == CatalogInit => CatalogInv
<1> SUFFICES ASSUME CatalogInit PROVE CatalogInv
  OBVIOUS
<1>1. /\ connection \in Rows \cup {NoConnection} /\ request = [c \in Clients |-> Waiting]
      /\ up = FALSE /\ stored \in InitialCatalogs /\ memory = Empty /\ registry = [t \in Tools |-> 0]
      /\ usable = [t \in Tools |-> FALSE] /\ (Dependent(stored) => GetConnection)
  BY ConnectionAssumption DEF CatalogInit, ConnectionInit, Dependent
<1>2. connection \in ConnectionRows \cup {NoConnection}
  BY <1>1 DEF Rows, ConnectionRows
<1>3. stored \in Catalogs /\ (stored.operation # "absent" => stored.adapter.status # "absent")
  BY <1>1, CatalogAssumption
<1>4. usable = [t \in Tools |-> usable[t]]
  BY <1>1
<1> QED BY <1>1, <1>2, <1>3, <1>4, DownIsFine

LEMMA CatalogInvStep ==
  ASSUME CatalogInv, [CatalogNext]_<<connectionVars, catalogVars>>
  PROVE  CatalogInv'
<1>1. CASE ConnectionMoves
  <2>1. CatalogSame
    BY <1>1 DEF ConnectionMoves, CatalogSame
  <2> QED BY <1>1, <2>1, ConnectionStepKeeps, ConnectionRequestKeeps DEF ConnectionMoves
<1>2. CASE Restore
  BY <1>2, RestoreKeeps
<1>3. CASE Stop
  BY <1>3, StopKeeps
<1>4. CASE \E c \in Clients : CatalogStep(c) \/ CatalogRequest(c)
  BY <1>4, CatalogStepKeeps, CatalogRequestKeeps
<1>5. CASE UNCHANGED <<connectionVars, catalogVars>>
  <2>1. UNCHANGED <<stored, memory, registry, usable, connection, request, up, tangled, overlap>>
    BY <1>5 DEF connectionVars, catalogVars
  <2>2. CatalogTyped'
    BY <2>1 DEF CatalogInv, CatalogTyped, CarriesRow, CarriesWrite, CarriesQueue, CarriesProvider
  <2>3. StartsAlone' /\ AdapterFirst' /\ OneByOne'
    BY <2>1 DEF CatalogInv, StartsAlone, AdapterFirst, AboutAdapter, Ensures, OneByOne, ReqAt
  <2>4. RegistryFollows'
    BY <2>1 DEF CatalogInv, RegistryFollows, ToApply, QueueFits, InstalledBy
  <2>5. DependentsFit'
    BY <2>1 DEF CatalogInv, DependentsFit, NeedsConnection, GetConnection, ReqAt
  <2> QED BY <2>2, <2>3, <2>4, <2>5 DEF CatalogInv
<1> QED BY <1>1, <1>2, <1>3, <1>4, <1>5 DEF CatalogNext

\* After every request, and again after a restart that follows a failure or an overlap, memory
\* and database agree and the tools installed and callable are those that manifest, group,
\* provider, operation and connection allow, for any tools and requests; a connection somebody
\* refers to is not deleted (applyManifests, Restore, CheckToolAvailability).
THEOREM CatalogConsistentHolds == CatalogSpec => []CatalogConsistent
<1>1. ASSUME CatalogInv PROVE CatalogConsistent
  <2>1. ASSUME Quiet PROVE /\ memory = stored /\ \A t \in Tools : InstalledBy(memory, t)
    <3>1. ~tangled /\ up /\ \A c \in Clients : request[c].pc = "idle" /\ ToApply(request[c]) = {}
      BY <2>1 DEF Quiet, Serving, ReqAt, ToApply
    <3>2. memory = stored
      BY <1>1, <3>1 DEF CatalogInv, OneByOne, ReqAt
    <3>3. \A t \in Tools : InstalledBy(memory, t)
      BY <1>1, <3>1 DEF CatalogInv, RegistryFollows
    <3> QED BY <3>2, <3>3
  <2>2. RegistryAgrees
    BY <2>1 DEF RegistryAgrees, InstalledBy
  <2>3. CallableEnabled
    <3>1. SUFFICES ASSUME Quiet, NEW t \in Tools, registry[t] # 0, CheckToolAvailability(t)
                   PROVE  /\ stored.tool[t] = "enabled" /\ groupAllowsInstall(stored) /\ providerAllows(stored, t)
                          /\ connection.status = "enabled"
      BY DEF CallableEnabled
    <3>2. stored.tool[t] = "enabled" /\ groupAllowsInstall(stored) /\ providerAllows(stored, t) /\ memory = stored
      BY <2>1, <3>1 DEF InstalledBy
    <3>3. ConnectionAllows(t)
      BY <3>1, <3>2 DEF CheckToolAvailability, manifestAllowsInstall, providerAllowsInstall
    <3>4. connection.status = "enabled"
      BY <3>3 DEF ConnectionAllows, validateAdapterOperation, providerConnection
    <3> QED BY <3>2, <3>4
  <2>4. DependentsHaveConnection
    BY <1>1 DEF CatalogInv, DependentsFit, Dependent, DependentsHaveConnection
  <2> QED BY <2>2, <2>3, <2>4 DEF CatalogConsistent
<1> QED BY <1>1, CatalogStart, CatalogInvStep, PTL DEF CatalogSpec

-----------------------------------------------------------------------------
(* The invariant of AgentDraft                                             *)

AuthorFields == {"pc", "server", "id", "edit", "read", "draft", "todo", "via", "proposal"}

\* Where a request can be with what it was asked to do.
OpFits(r) ==
  /\ r.via => r.edit.op = "publish"
  /\ r.pc = "plugin" => r.edit.op \in {"validate", "review", "publish", "propose"} /\ ~ Found(r.draft)
  /\ r.pc = "read" => ~ r.via /\ (r.edit \in Edits \/ r.edit.op \in {"validate", "review", "propose"})
  /\ r.pc \in {"lock", "fetch", "relock"} =>
       r.edit \in Edits \/ r.edit.op \in {"validate", "review", "publish", "create_and_publish"}
  /\ r.pc = "proposal" => r.via \/ (r.edit.op \in {"submit", "approve", "reject"} /\ ~ Found(r.draft))
  /\ r.pc \in {"relock", "versions", "publish", "release", "row", "delete", "insert"} => Found(r.draft)
  /\ r.pc = "create" => ~ r.via /\ SourceListed(r.edit.source)
  /\ r.pc = "release" => Compiled(Compile(r.draft.source))

\* A request publishes a proposal only once it has read it as approved.
ApprovalSeen(r) ==
  /\ r.via /\ r.pc \in {"lock", "fetch", "relock", "versions", "publish", "release", "row", "delete", "insert"} =>
       approvedOnce
  /\ r.via /\ r.pc = "proposal" /\ Found(r.draft) => approvedOnce
  /\ r.pc = "proposal_write" /\ r.proposal.status = "published" => approvedOnce
  /\ r.pc = "proposal_row" /\ r.proposal.status \in {"approved", "published"} => approvedOnce

AuthorOK(r) ==
  r.pc # "idle" =>
    /\ AuthorFields \subseteq DOMAIN r
    /\ r.server \in DraftServers /\ r.id \in DraftIds /\ r.via \in BOOLEAN
    /\ SourceListed(r.read) /\ DraftListed(r.draft) /\ ProposalNamed(r.proposal)
    /\ OpFits(r) /\ ApprovalSeen(r)

AuthorsOK ==
  author = [c \in Authors |-> author[c]] /\ \A c \in Authors : AuthorOK(author[c])

DraftsListed ==
  /\ draftMem = [s \in DraftServers |-> draftMem[s]]
  /\ \A s \in DraftServers : draftMem[s] = [d \in DraftIds |-> draftMem[s][d]]
  /\ \A s \in DraftServers, d \in DraftIds : DraftListed(draftMem[s][d])
  /\ draftRow = [d \in DraftIds |-> draftRow[d]]
  /\ \A d \in DraftIds : DraftListed(draftRow[d])

ProposalOK(p) == ProposalNamed(p) /\ (p.status \in {"approved", "published"} => approvedOnce)

ProposalsOK ==
  /\ proposalMem = [s \in DraftServers |-> proposalMem[s]]
  /\ \A s \in DraftServers : ProposalOK(proposalMem[s])
  /\ ProposalOK(proposalRow)

\* What is released compiled, from the source on record.
ReleaseOK(row) ==
  Found(row) => /\ SourceListed(row.source)
                /\ row.definition = Compile(row.source) /\ Compiled(row.definition)

ReleasesOK ==
  releaseRow = [v \in DraftVersions |-> releaseRow[v]] /\ \A v \in DraftVersions : ReleaseOK(releaseRow[v])

DraftInv == AuthorsOK /\ DraftsListed /\ ProposalsOK /\ ReleasesOK

-----------------------------------------------------------------------------
(* What the compiler promises                                              *)

\* A definition with its list of denied tools.
DeniesListed(d) == "tools" \in DOMAIN d /\ DeniedListed(d.tools)

LEMMA SetTools ==
  ASSUME NEW d, NEW t, "tools" \in DOMAIN d, DeniedListed(t)
  PROVE  DeniesListed([d EXCEPT !.tools = t]) /\ [d EXCEPT !.tools = t].tools = t
BY Zenon DEF DeniesListed

LEMMA AppliedPrompt ==
  ASSUME NEW d, NEW p, DeniesListed(d)
  PROVE  DeniesListed(applyPromptStrategy(d, p))
BY Zenon DEF DeniesListed, applyPromptStrategy

LEMMA AppliedTools ==
  ASSUME NEW d, NEW t, DeniesListed(d), DeniedListed(t)
  PROVE  DeniesListed(applyToolUseStrategy(d, t))
BY Zenon DEF DeniesListed, DeniedListed, applyToolUseStrategy, Given

LEMMA AppliedRuntime ==
  ASSUME NEW d, NEW r, DeniesListed(d)
  PROVE  DeniesListed(applyRuntimeStrategy(d, r))
BY Zenon DEF DeniesListed, applyRuntimeStrategy

LEMMA AppliedRepair ==
  ASSUME NEW d, NEW r, DeniesListed(d)
  PROVE  DeniesListed(applyRepairStrategy(d, r))
BY Zenon DEF DeniesListed, applyRepairStrategy

LEMMA AppendUniqueHas ==
  ASSUME NEW list \in Seq(STRING), NEW id \in STRING
  PROVE  id \in ToSet(appendUniqueString(list, id))
<1>1. CASE id \in ToSet(list)
  BY <1>1 DEF appendUniqueString
<1>2. CASE id \notin ToSet(list)
  <2>1. /\ Append(list, id) \in Seq(STRING) /\ Len(Append(list, id)) = Len(list) + 1
        /\ Append(list, id)[Len(list) + 1] = id
    BY AppendProperties
  <2>2. Len(list) + 1 \in DOMAIN Append(list, id)
    BY <2>1
  <2> QED BY <1>2, <2>1, <2>2 DEF appendUniqueString, ToSet
<1> QED BY <1>1, <1>2

\* Delegation that is disabled is denied, whatever list was there before.
LEMMA AppliedCollaboration ==
  ASSUME NEW d, NEW c, DeniesListed(d), c.mode = "disabled"
  PROVE  DelegateTool \in ToSet(applyCollaborationStrategy(d, c).tools.denied)
<1>1. applyCollaborationStrategy(d, c).tools.denied = appendUniqueString(d.tools.denied, DelegateTool)
  BY Zenon DEF applyCollaborationStrategy, DeniesListed, DeniedListed
<1> QED BY <1>1, AppendUniqueHas, DraftAssumption DEF DeniesListed, DeniedListed

LEMMA CompiledIsChecked ==
  ASSUME NEW source, Compiled(Compile(source))
  PROVE  Compile(source) = uncheckedDefinition(source) /\ validateRuntimeLimits(Compile(source).limits)
<1>1. ~ Compiled(CompileError)
  BY Zenon DEF Compiled, CompileError
<1> QED BY <1>1 DEF Compile

\* A source that compiles has usable limits, and its disabled delegation is denied.
LEMMA CompiledGoverns ==
  ASSUME NEW source, SourceListed(source), Compiled(Compile(source)),
         source.strategies.collaboration.mode = "disabled"
  PROVE  DelegateTool \in ToSet(Compile(source).tools.denied)
<1> DEFINE st == source.strategies
<1>1. PICK d : /\ DeniesListed(d) /\ uncheckedDefinition(source) = applyCompiledStrategies(d, st)
  <2> DEFINE d == [kind |-> normalizeSourceKind(source.kind), provider |-> source.provider,
     identity |-> IF source.prompt # "" THEN source.prompt ELSE source.agentsMD,
     system |-> "decisions_as_json", developer |-> "",
     tools |-> source.tools, skills |-> source.skills, collaborators |-> source.collaborators,
     exports |-> normalizedExports(source.exports), hooks |-> source.hooks, limits |-> DefaultLimits,
     skillDefinitions |-> normalizeSkillDefinitions(source.skillDefinitions)]
  <2>1. "tools" \in DOMAIN d /\ d.tools = source.tools
    BY Zenon
  <2>2. uncheckedDefinition(source) = applyCompiledStrategies(d, st)
    BY Zenon DEF uncheckedDefinition
  <2> HIDE DEF d
  <2> QED BY <2>1, <2>2, Zenon DEF SourceListed, DeniesListed
<1>2. DeniesListed(applyToolUseStrategy(applyPromptStrategy(d, st.prompt), st.tools))
  BY <1>1, AppliedPrompt, AppliedTools DEF SourceListed, StrategiesListed
<1>3. PICK e : DeniesListed(e) /\ applyCompiledStrategies(d, st) = applyCollaborationStrategy(e, st.collaboration)
  BY <1>2, AppliedRuntime, AppliedRepair DEF applyCompiledStrategies
<1> QED BY <1>1, <1>3, AppliedCollaboration, CompiledIsChecked

-----------------------------------------------------------------------------
(* Sources stay lists of lists                                             *)

LEMMA EmptyListed == SourceListed(EmptySource) /\ DraftListed(NoDraft) /\ ProposalNamed(NoDraft)
<1>1. NoTools.denied = <<>> /\ "denied" \in DOMAIN NoTools
  BY DEF NoTools
<1>2. "tools" \in DOMAIN NoStrategies /\ "denied" \in DOMAIN NoStrategies.tools /\ NoStrategies.tools.denied = <<>>
  BY DEF NoStrategies
<1>3. /\ {"tools", "strategies"} \subseteq DOMAIN EmptySource
      /\ EmptySource.tools = NoTools /\ EmptySource.strategies = NoStrategies
  BY DEF EmptySource
<1>4. <<>> \in Seq(STRING)
  OBVIOUS
<1>5. "status" \in DOMAIN NoDraft /\ ~ Found(NoDraft)
  BY DEF NoDraft, Found
<1> QED BY <1>1, <1>2, <1>3, <1>4, <1>5 DEF SourceListed, StrategiesListed, DeniedListed, DraftListed, ProposalNamed

LEMMA SameLists ==
  ASSUME NEW source, SourceListed(source), NEW new, {"tools", "strategies"} \subseteq DOMAIN new,
         new.tools = source.tools, new.strategies = source.strategies
  PROVE  SourceListed(new)
BY Zenon DEF SourceListed

LEMMA ToolsListed ==
  ASSUME NEW source, SourceListed(source), NEW t, DeniedListed(t)
  PROVE  SourceListed([source EXCEPT !.tools = t])
<1>1. PICK new : new = [source EXCEPT !.tools = t]
  OBVIOUS
<1>2. {"tools", "strategies"} \subseteq DOMAIN source
  BY DEF SourceListed
<1>3. {"tools", "strategies"} \subseteq DOMAIN new /\ new.tools = t /\ new.strategies = source.strategies
  BY <1>1, <1>2, Zenon
<1> QED BY <1>1, <1>3 DEF SourceListed

LEMMA StrategiesKept ==
  ASSUME NEW source, SourceListed(source), NEW t, StrategiesListed(t)
  PROVE  SourceListed([source EXCEPT !.strategies = t])
<1>1. PICK new : new = [source EXCEPT !.strategies = t]
  OBVIOUS
<1>2. {"tools", "strategies"} \subseteq DOMAIN source
  BY DEF SourceListed
<1>3. {"tools", "strategies"} \subseteq DOMAIN new /\ new.strategies = t /\ new.tools = source.tools
  BY <1>1, <1>2, Zenon
<1> QED BY <1>1, <1>3 DEF SourceListed

LEMMA MergedListed ==
  ASSUME NEW base, StrategiesListed(base), NEW change,
         "tools" \in DOMAIN change /\ "denied" \in DOMAIN change.tools => change.tools.denied \in Seq(STRING)
  PROVE  StrategiesListed(mergeJSONObjects(base, change))
<1>1. PICK new : new = mergeJSONObjects(base, change)
  OBVIOUS
<1>2. "tools" \in DOMAIN base /\ "denied" \in DOMAIN base.tools /\ base.tools.denied \in Seq(STRING)
  BY DEF StrategiesListed, DeniedListed
<1>3. /\ "tools" \in DOMAIN new
      /\ new.tools = IF "tools" \in DOMAIN change THEN mergeFields(base.tools, change.tools) ELSE base.tools
  BY <1>1, <1>2, Zenon DEF mergeJSONObjects
<1>4. /\ "denied" \in DOMAIN mergeFields(base.tools, change.tools)
      /\ mergeFields(base.tools, change.tools).denied =
           IF "denied" \in DOMAIN change.tools THEN change.tools.denied ELSE base.tools.denied
  BY <1>2, Zenon DEF mergeFields
<1>5. "tools" \in DOMAIN change => mergeFields(base.tools, change.tools).denied \in Seq(STRING)
  BY <1>2, <1>4
<1>6. "denied" \in DOMAIN new.tools /\ new.tools.denied \in Seq(STRING)
  BY <1>2, <1>3, <1>4, <1>5, Zenon
<1> QED BY <1>1, <1>3, <1>6, Zenon DEF StrategiesListed, DeniedListed

LEMMA PatchedListed ==
  ASSUME NEW e \in Edits, NEW read, NEW now, SourceListed(read), SourceListed(now)
  PROVE  SourceListed(patched(e, read, now))
<1>0. {"tools", "strategies"} \subseteq DOMAIN read /\ {"tools", "strategies"} \subseteq DOMAIN now
  BY DEF SourceListed
<1>1. CASE e.op = "prompt_profile"
  <2>1. patched(e, read, now) = [read EXCEPT !.prompt = e.prompt, !.agentsMD = e.agentsMD]
    BY <1>1, Zenon DEF patched, patchPromptProfileDraft
  <2>2. PICK new : new = patched(e, read, now)
    OBVIOUS
  <2>3. {"tools", "strategies"} \subseteq DOMAIN new /\ new.tools = read.tools /\ new.strategies = read.strategies
    BY <1>0, <2>1, <2>2, Zenon
  <2> QED BY <2>2, <2>3, SameLists
<1>2. CASE e.op = "tool_bindings"
  <2>1. patched(e, read, now) = [read EXCEPT !.tools = e.tools]
    BY <1>2 DEF patched
  <2> QED BY <1>2, <2>1, ToolsListed, DraftAssumption
<1>3. CASE e.op = "strategies"
  <2>1. patched(e, read, now) = [now EXCEPT !.strategies = mergeJSONObjects(read.strategies, e.patch)]
    BY <1>3 DEF patched
  <2>2. StrategiesListed(mergeJSONObjects(read.strategies, e.patch))
    BY <1>3, MergedListed, DraftAssumption DEF SourceListed
  <2> QED BY <2>1, <2>2, StrategiesKept
<1>4. CASE e.op \in {"collaborators", "collaborator", "collaborator_remove"}
  <2>1. \E x : patched(e, read, now) = [now EXCEPT !.collaborators = x]
    BY <1>4 DEF patched
  <2>2. PICK new : new = patched(e, read, now)
    OBVIOUS
  <2>3. {"tools", "strategies"} \subseteq DOMAIN new /\ new.tools = now.tools /\ new.strategies = now.strategies
    BY <1>0, <2>1, <2>2, Zenon
  <2> QED BY <2>2, <2>3, SameLists
<1>5. CASE e.op \in {"exports", "exported_tool", "exported_tool_remove"}
  <2>1. \E x : patched(e, read, now) = [now EXCEPT !.exports = x]
    BY <1>5 DEF patched
  <2>2. PICK new : new = patched(e, read, now)
    OBVIOUS
  <2>3. {"tools", "strategies"} \subseteq DOMAIN new /\ new.tools = now.tools /\ new.strategies = now.strategies
    BY <1>0, <2>1, <2>2, Zenon
  <2> QED BY <2>2, <2>3, SameLists
<1>6. CASE e.op = "skill"
  <2>1. patched(e, read, now) = UpsertSkill(now, e)
    BY <1>6 DEF patched
  <2>2. PICK new : new = patched(e, read, now)
    OBVIOUS
  <2>3. {"tools", "strategies"} \subseteq DOMAIN new /\ new.tools = now.tools /\ new.strategies = now.strategies
    BY <1>0, <2>1, <2>2, Zenon DEF UpsertSkill
  <2> QED BY <2>2, <2>3, SameLists
<1>7. CASE e.op = "skill_remove"
  <2>1. patched(e, read, now) = RemoveSkill(now, e)
    BY <1>7 DEF patched
  <2>2. PICK new : new = patched(e, read, now)
    OBVIOUS
  <2>3. {"tools", "strategies"} \subseteq DOMAIN new /\ new.tools = now.tools /\ new.strategies = now.strategies
    BY <1>0, <2>1, <2>2, Zenon DEF RemoveSkill
  <2> QED BY <2>2, <2>3, SameLists
<1> QED BY <1>1, <1>2, <1>3, <1>4, <1>5, <1>6, <1>7, DraftAssumption DEF EditOps

LEMMA PluginListed ==
  ASSUME NEW m \in PluginManifests, NEW provider, Compiled(BuildSource(m, provider, EmptySource))
  PROVE  SourceListed(BuildSource(m, provider, EmptySource))
<1>1. PICK source : source = PackageSourceFromPlugin(m, provider, EmptySource)
  OBVIOUS
<1>2. ~ Compiled(CompileError)
  BY Zenon DEF Compiled, CompileError
<1>3. BuildSource(m, provider, EmptySource) = source
  BY <1>1, <1>2 DEF BuildSource
<1>4. EmptySource.tools = NoTools /\ EmptySource.strategies = NoStrategies
  BY DEF EmptySource
<1>5. /\ {"tools", "strategies"} \subseteq DOMAIN source
      /\ source.tools = First(EmptySource.tools, NoTools, toolBindingsForManifest(m.tools))
      /\ source.strategies = mergeStrategies(m.strategies, EmptySource.strategies)
  BY <1>1, Zenon DEF PackageSourceFromPlugin
<1>6. DeniedListed(source.tools)
  <2>1. source.tools = toolBindingsForManifest(m.tools)
    BY <1>4, <1>5 DEF First
  <2>2. toolBindingsForManifest(m.tools).denied = <<>> /\ "denied" \in DOMAIN toolBindingsForManifest(m.tools)
    BY DEF toolBindingsForManifest, NoTools
  <2> QED BY <2>1, <2>2 DEF DeniedListed
<1>7. StrategiesListed(source.strategies)
  <2>1. "tools" \in DOMAIN m.strategies /\ DeniedListed(m.strategies.tools)
    BY DraftAssumption DEF StrategiesListed
  <2>2. /\ "tools" \in DOMAIN mergeStrategies(m.strategies, NoStrategies)
        /\ mergeStrategies(m.strategies, NoStrategies).tools = m.strategies.tools
    BY <2>1, Zenon DEF mergeStrategies
  <2> QED BY <1>4, <1>5, <2>1, <2>2, Zenon DEF StrategiesListed
<1> QED BY <1>3, <1>5, <1>6, <1>7 DEF SourceListed

-----------------------------------------------------------------------------
(* Steps                                                                   *)

LEMMA AuthorMoves ==
  ASSUME AuthorsOK, NEW c \in Authors, NEW q, AuthorGoes(c, q), AuthorOK(q)', approvedOnce => approvedOnce'
  PROVE  AuthorsOK'
<1>1. /\ author = [d \in Authors |-> author[d]] /\ \A d \in Authors : AuthorOK(author[d])
      /\ author' = [author EXCEPT ![c] = q]
  BY DEF AuthorsOK, AuthorGoes
<1>2. /\ author' = [d \in Authors |-> author'[d]] /\ author'[c] = q
      /\ \A d \in Authors : d # c => author'[d] = author[d]
  BY <1>1
<1>3. ASSUME NEW d \in Authors PROVE AuthorOK(author[d])'
  <2>1. CASE d = c
    BY <1>2, <2>1 DEF AuthorOK, OpFits, ApprovalSeen
  <2>2. CASE d # c
    <3>1. AuthorOK(author[d]) /\ author'[d] = author[d]
      BY <1>1, <1>2, <2>2
    <3> QED BY <3>1 DEF AuthorOK, OpFits, ApprovalSeen
  <2> QED BY <2>1, <2>2
<1> QED BY <1>2, <1>3 DEF AuthorsOK

LEMMA AuthorEnds ==
  ASSUME AuthorsOK, NEW c \in Authors, AuthorAnswer(c), approvedOnce => approvedOnce'
  PROVE  AuthorsOK'
<1>1. AuthorOK(IdleAuthor)'
  BY DEF AuthorOK, IdleAuthor
<1> QED BY <1>1, AuthorMoves DEF AuthorAnswer

LEMMA DraftsKept ==
  ASSUME DraftsListed, UNCHANGED <<draftMem, draftRow>>
  PROVE  DraftsListed'
BY DEF DraftsListed

LEMMA ProposalsKept ==
  ASSUME ProposalsOK, UNCHANGED <<proposalMem, proposalRow>>, approvedOnce => approvedOnce'
  PROVE  ProposalsOK'
BY DEF ProposalsOK, ProposalOK

LEMMA ReleasesKept ==
  ASSUME ReleasesOK, UNCHANGED releaseRow
  PROVE  ReleasesOK'
BY DEF ReleasesOK

LEMMA StoresKept ==
  ASSUME DraftInv, storesUnchanged
  PROVE  DraftsListed' /\ ProposalsOK' /\ ReleasesOK' /\ approvedOnce' = approvedOnce
BY DraftsKept, ProposalsKept, ReleasesKept DEF DraftInv, storesUnchanged

\* What every request in progress has, and what memory and database give it.
LEMMA AuthorHas ==
  ASSUME DraftInv, NEW c \in Authors, author[c].pc # "idle"
  PROVE  /\ AuthorFields \subseteq DOMAIN author[c]
         /\ author[c].server \in DraftServers /\ author[c].id \in DraftIds /\ author[c].via \in BOOLEAN
         /\ SourceListed(author[c].read) /\ DraftListed(author[c].draft) /\ ProposalNamed(author[c].proposal)
         /\ OpFits(author[c]) /\ ApprovalSeen(author[c])
         /\ DraftListed(getDraft(author[c].server, author[c].id))
         /\ DraftListed(draftMem[author[c].server][author[c].id]) /\ DraftListed(draftRow[author[c].id])
         /\ ProposalOK(getProposal(author[c].server))
BY DEF DraftInv, AuthorsOK, AuthorOK, DraftsListed, ProposalsOK, getDraft, getProposal

\* A step that changes the locals of a request only.
LEMMA LocalStep ==
  ASSUME DraftInv, NEW c \in Authors, NEW q, AuthorGoes(c, q), AuthorOK(q), storesUnchanged
  PROVE  DraftInv'
<1>1. AuthorOK(q)' /\ approvedOnce' = approvedOnce
  BY DEF storesUnchanged, AuthorOK, OpFits, ApprovalSeen
<1> QED BY <1>1, AuthorMoves, StoresKept DEF DraftInv

LEMMA LocalEnd ==
  ASSUME DraftInv, NEW c \in Authors, AuthorAnswer(c), storesUnchanged
  PROVE  DraftInv'
BY AuthorEnds, StoresKept DEF DraftInv

LEMMA BeginsOK ==
  ASSUME DraftInv, NEW c \in Authors, NEW s \in DraftServers, NEW d \in DraftIds, NEW e, NEW pc,
         NEW via \in BOOLEAN, AuthorBegins(c, s, d, e, pc, via), via => pc = "plugin",
         NEW r, r = [pc |-> pc, server |-> s, id |-> d, edit |-> e, read |-> EmptySource, draft |-> NoDraft,
                     todo |-> <<>>, via |-> via, proposal |-> NoDraft],
         pc \in {"create", "read", "lock", "plugin", "proposal"}, OpFits(r)
  PROVE  DraftInv'
<1>1. AuthorFields \subseteq DOMAIN r
  BY DEF AuthorFields
<1>2. /\ r.pc = pc /\ r.server = s /\ r.id = d /\ r.via = via
      /\ r.read = EmptySource /\ r.draft = NoDraft /\ r.proposal = NoDraft
  OBVIOUS
<1>3. ApprovalSeen(r)
  BY <1>2 DEF ApprovalSeen
<1>4. AuthorOK(r)
  BY <1>1, <1>2, <1>3, EmptyListed DEF AuthorOK
<1>5. AuthorGoes(c, r) /\ storesUnchanged
  BY DEF AuthorBegins
<1> QED BY <1>4, <1>5, LocalStep

LEMMA AuthorRequestsBegin ==
  ASSUME DraftInv, NEW c \in Authors,
         \/ packageDraftCreate(c) \/ packageDraftEdit(c) \/ packageDraftValidate(c) \/ packageReview(c)
         \/ packagePublish(c) \/ packageProposalCreate(c) \/ packageProposalDecide(c) \/ packageProposalPublish(c)
         \/ agentPluginSync(c)
  PROVE  DraftInv'
<1> DEFINE R(s, d, e, pc, via) ==
      [pc |-> pc, server |-> s, id |-> d, edit |-> e, read |-> EmptySource, draft |-> NoDraft,
       todo |-> <<>>, via |-> via, proposal |-> NoDraft]
<1>0. ~ Found(NoDraft)
  BY DEF Found, NoDraft
<1>1. CASE packageDraftCreate(c)
  <2>1. PICK s \in DraftServers, d \in DraftIds, source \in NewSources, op \in {"create", "create_and_publish"} :
          AuthorBegins(c, s, d, [op |-> op, source |-> source], "create", FALSE)
    BY <1>1 DEF packageDraftCreate
  <2>2. PICK e : e = [op |-> op, source |-> source]
    OBVIOUS
  <2>3. SourceListed(e.source)
    BY <2>2, DraftAssumption
  <2>4. OpFits(R(s, d, e, "create", FALSE))
    BY <2>3 DEF OpFits
  <2> QED BY <2>1, <2>2, <2>4, BeginsOK
<1>2. CASE packageDraftEdit(c)
  <2>1. PICK s \in DraftServers, d \in DraftIds, e \in Edits :
          AuthorBegins(c, s, d, e, IF ReadsFirst(e) THEN "read" ELSE "lock", FALSE)
    BY <1>2 DEF packageDraftEdit
  <2>2. PICK pc : pc = (IF ReadsFirst(e) THEN "read" ELSE "lock") /\ pc \in {"read", "lock"}
    OBVIOUS
  <2>3. OpFits(R(s, d, e, pc, FALSE))
    BY <2>2 DEF OpFits
  <2> QED BY <2>1, <2>2, <2>3, BeginsOK
<1>3. ASSUME NEW s \in DraftServers, NEW d \in DraftIds, NEW op \in {"validate", "review", "publish", "propose"},
             NEW via \in BOOLEAN, via => op = "publish", AuthorBegins(c, s, d, Op(op), "plugin", via)
      PROVE  DraftInv'
  <2>1. PICK e : e = Op(op)
    OBVIOUS
  <2>2. e.op = op
    BY <2>1 DEF Op
  <2>3. OpFits(R(s, d, e, "plugin", via))
    BY <1>0, <1>3, <2>2 DEF OpFits
  <2> QED BY <1>3, <2>1, <2>3, BeginsOK
<1>4. CASE packageDraftValidate(c) \/ packageReview(c) \/ packagePublish(c) \/ packageProposalCreate(c)
  BY <1>3, <1>4 DEF packageDraftValidate, packageReview, packagePublish, packageProposalCreate
<1>5. CASE packageProposalDecide(c)
  <2>1. PICK s \in DraftServers, d \in DraftIds, op \in {"submit", "approve", "reject"} :
          AuthorBegins(c, s, d, Op(op), "proposal", FALSE)
    BY <1>5 DEF packageProposalDecide
  <2>2. PICK e : e = Op(op)
    OBVIOUS
  <2>3. e.op = op
    BY <2>2 DEF Op
  <2>4. OpFits(R(s, d, e, "proposal", FALSE))
    BY <1>0, <2>3 DEF OpFits
  <2> QED BY <2>1, <2>2, <2>4, BeginsOK
<1>6. CASE packageProposalPublish(c)
  <2>1. PICK s \in DraftServers : /\ Found(getProposal(s))
                                  /\ AuthorBegins(c, s, getProposal(s).draft, Op("publish"), "plugin", TRUE)
    BY <1>6 DEF packageProposalPublish
  <2>2. getProposal(s).draft \in DraftIds
    BY <2>1 DEF DraftInv, ProposalsOK, ProposalOK, ProposalNamed, getProposal
  <2> QED BY <1>3, <2>1, <2>2
<1>7. CASE agentPluginSync(c)
  <2>1. PICK s \in DraftServers, d \in DraftIds, m \in PluginManifests :
          /\ Compiled(BuildSource(m, "plugin", EmptySource))
          /\ AuthorBegins(c, s, d, [op |-> "plugin_sync", source |-> BuildSource(m, "plugin", EmptySource),
                                    manifest |-> m], "create", FALSE)
    BY <1>7 DEF agentPluginSync
  <2>2. PICK e : e = [op |-> "plugin_sync", source |-> BuildSource(m, "plugin", EmptySource), manifest |-> m]
    OBVIOUS
  <2>3. SourceListed(e.source)
    BY <2>1, <2>2, PluginListed
  <2>4. OpFits(R(s, d, e, "create", FALSE))
    BY <2>3 DEF OpFits
  <2> QED BY <2>1, <2>2, <2>4, BeginsOK
<1> QED BY <1>1, <1>2, <1>4, <1>5, <1>6, <1>7

-----------------------------------------------------------------------------
(* What memory and database hold                                           *)

LEMMA MemSaved ==
  ASSUME DraftsListed, NEW s \in DraftServers, NEW d \in DraftIds, NEW x, DraftListed(x),
         draftMem' = [draftMem EXCEPT ![s][d] = x], UNCHANGED draftRow
  PROVE  DraftsListed'
BY DEF DraftsListed

LEMMA RowSaved ==
  ASSUME DraftsListed, NEW d \in DraftIds, NEW x, DraftListed(x), SaveDraftRow(d, x), UNCHANGED draftMem
  PROVE  DraftsListed'
BY DEF DraftsListed, SaveDraftRow

\* A request that moves on between steps that ask nothing of its locals.
LEMMA MovesOn ==
  ASSUME DraftInv, NEW c \in Authors, author[c].pc # "idle", NEW q,
         AuthorFields \subseteq DOMAIN q, q.server = author[c].server, q.id = author[c].id,
         q.via = author[c].via, q.edit = author[c].edit, q.read = author[c].read, q.draft = author[c].draft,
         q.proposal = author[c].proposal, q.pc \in {"register", "sync"}
  PROVE  AuthorOK(q)
<1>1. OpFits(q)
  BY AuthorHas DEF OpFits
<1>2. ApprovalSeen(q)
  BY DEF ApprovalSeen
<1> QED BY <1>1, <1>2, AuthorHas DEF AuthorOK

LEMMA FallbackKeeps ==
  ASSUME DraftInv, NEW c \in Authors, agentPluginSyncToolCatalogFallback(c)
  PROVE  DraftInv'
<1>1. PICK s \in DraftServers, d \in DraftIds, m \in PluginManifests :
        /\ AuthorGoes(c, [pc |-> "sync", server |-> s, id |-> d, edit |-> Op("fallback"), read |-> EmptySource,
                          draft |-> NoDraft, todo |-> ToolManifests(m), via |-> FALSE, proposal |-> NoDraft])
        /\ storesUnchanged
  BY DEF agentPluginSyncToolCatalogFallback
<1>2. PICK r : r = [pc |-> "sync", server |-> s, id |-> d, edit |-> Op("fallback"), read |-> EmptySource,
                    draft |-> NoDraft, todo |-> ToolManifests(m), via |-> FALSE, proposal |-> NoDraft]
  OBVIOUS
<1>3. /\ AuthorFields \subseteq DOMAIN r /\ r.pc = "sync" /\ r.server = s /\ r.id = d /\ r.via = FALSE
      /\ r.read = EmptySource /\ r.draft = NoDraft /\ r.proposal = NoDraft
  BY <1>2 DEF AuthorFields
<1>4. OpFits(r) /\ ApprovalSeen(r)
  BY <1>3 DEF OpFits, ApprovalSeen
<1>5. AuthorOK(r)
  BY <1>3, <1>4, EmptyListed DEF AuthorOK
<1> QED BY <1>1, <1>2, <1>5, LocalStep

LEMMA CreateKeeps ==
  ASSUME DraftInv, NEW c \in Authors, CreateDraft(c)
  PROVE  DraftInv'
<1>1. /\ author[c].pc = "create" /\ UNCHANGED <<draftRow, proposalMem, proposalRow, releaseRow, approvedOnce>>
  BY DEF CreateDraft, AuthorAt, only
<1>2. PICK x : x = [status |-> "draft", source |-> author[c].edit.source]
  OBVIOUS
<1>3. /\ draftMem' = [draftMem EXCEPT ![author[c].server][author[c].id] = x]
      /\ AuthorGoes(c, [author[c] EXCEPT !.pc = "row", !.draft = x])
  BY <1>2 DEF CreateDraft
<1>4. SourceListed(author[c].edit.source) /\ ~ author[c].via
  BY <1>1, AuthorHas DEF OpFits
<1>5. DraftListed(x) /\ Found(x)
  BY <1>2, <1>4 DEF DraftListed, Found
<1>6. PICK q : q = [author[c] EXCEPT !.pc = "row", !.draft = x]
  OBVIOUS
<1>7. /\ AuthorFields \subseteq DOMAIN q /\ q.pc = "row" /\ q.draft = x
      /\ q.server = author[c].server /\ q.id = author[c].id /\ q.edit = author[c].edit /\ q.read = author[c].read
      /\ q.via = author[c].via /\ q.proposal = author[c].proposal
  <2>1. AuthorFields \subseteq DOMAIN author[c]
    BY <1>1, AuthorHas
  <2> QED BY <1>6, <2>1, Zenon DEF AuthorFields
<1>8. OpFits(q) /\ ApprovalSeen(q)'
  BY <1>4, <1>5, <1>7 DEF OpFits, ApprovalSeen
<1>9. AuthorOK(q)'
  BY <1>1, <1>5, <1>7, <1>8, AuthorHas DEF AuthorOK
<1>10. AuthorsOK'
  BY <1>1, <1>3, <1>6, <1>9, AuthorMoves DEF DraftInv
<1>11. DraftsListed'
  BY <1>1, <1>3, <1>5, AuthorHas, MemSaved DEF DraftInv
<1> QED BY <1>1, <1>10, <1>11, ProposalsKept, ReleasesKept DEF DraftInv

LEMMA PluginKeeps ==
  ASSUME DraftInv, NEW c \in Authors, validateDraftPluginSourceForTenant(c)
  PROVE  DraftInv'
<1>1. author[c].pc = "plugin" /\ storesUnchanged
  BY DEF validateDraftPluginSourceForTenant, AuthorAt
<1>2. PICK pc : pc = IF author[c].via THEN "proposal" ELSE IF author[c].edit.op = "publish" THEN "lock" ELSE "read"
  OBVIOUS
<1>3. AuthorAnswer(c) \/ AuthorTo(c, pc)
  BY <1>2 DEF validateDraftPluginSourceForTenant
<1>4. CASE AuthorTo(c, pc)
  <2>1. PICK q : q = [author[c] EXCEPT !.pc = pc]
    OBVIOUS
  <2>2. /\ AuthorFields \subseteq DOMAIN q /\ q.pc = pc /\ q.draft = author[c].draft
        /\ q.server = author[c].server /\ q.id = author[c].id /\ q.edit = author[c].edit /\ q.read = author[c].read
        /\ q.via = author[c].via /\ q.proposal = author[c].proposal
    <3>1. AuthorFields \subseteq DOMAIN author[c]
      BY <1>1, AuthorHas
    <3> QED BY <2>1, <3>1, Zenon DEF AuthorFields
  <2>3. /\ author[c].via \in BOOLEAN /\ (author[c].via => author[c].edit.op = "publish")
        /\ author[c].edit.op \in {"validate", "review", "publish", "propose"} /\ ~ Found(author[c].draft)
    BY <1>1, AuthorHas DEF OpFits
  <2>4. \/ pc = "proposal" /\ author[c].via
        \/ pc = "lock" /\ ~ author[c].via /\ author[c].edit.op = "publish"
        \/ pc = "read" /\ ~ author[c].via /\ author[c].edit.op \in {"validate", "review", "propose"}
    BY <1>2, <2>3
  <2>5. OpFits(q) /\ ApprovalSeen(q)
    BY <2>2, <2>3, <2>4 DEF OpFits, ApprovalSeen
  <2>6. AuthorOK(q)
    BY <1>1, <2>2, <2>5, AuthorHas DEF AuthorOK
  <2> QED BY <1>1, <1>4, <2>1, <2>6, LocalStep DEF AuthorTo
<1> QED BY <1>1, <1>3, <1>4, LocalEnd

LEMMA ReadKeeps ==
  ASSUME DraftInv, NEW c \in Authors, ReadDraft(c)
  PROVE  DraftInv'
<1>1. author[c].pc = "read" /\ storesUnchanged
  BY DEF ReadDraft, AuthorAt
<1>2. PICK pc, x : pc = (IF author[c].edit.op = "propose" THEN "propose" ELSE "lock") /\ x = getDraft(author[c].server, author[c].id)
  OBVIOUS
<1>3. AuthorAnswer(c) \/ (Found(x) /\ AuthorGoes(c, [author[c] EXCEPT !.pc = pc, !.read = x.source]))
  BY <1>2 DEF ReadDraft
<1>4. CASE Found(x) /\ AuthorGoes(c, [author[c] EXCEPT !.pc = pc, !.read = x.source])
  <2>1. PICK q : q = [author[c] EXCEPT !.pc = pc, !.read = x.source]
    OBVIOUS
  <2>2. /\ AuthorFields \subseteq DOMAIN q /\ q.pc = pc /\ q.draft = author[c].draft
        /\ q.server = author[c].server /\ q.id = author[c].id /\ q.edit = author[c].edit /\ q.read = x.source
        /\ q.via = author[c].via /\ q.proposal = author[c].proposal
    <3>1. AuthorFields \subseteq DOMAIN author[c]
      BY <1>1, AuthorHas
    <3> QED BY <2>1, <3>1, Zenon DEF AuthorFields
  <2>3. SourceListed(x.source)
    BY <1>1, <1>2, <1>4, AuthorHas DEF DraftListed
  <2>4. ~ author[c].via /\ (author[c].edit \in Edits \/ author[c].edit.op \in {"validate", "review", "propose"})
    BY <1>1, AuthorHas DEF OpFits
  <2>5. pc = "propose" \/ (pc = "lock" /\ author[c].edit.op # "propose")
    BY <1>2
  <2>6. OpFits(q) /\ ApprovalSeen(q)
    BY <2>2, <2>4, <2>5 DEF OpFits, ApprovalSeen
  <2>7. AuthorOK(q)
    BY <1>1, <2>2, <2>3, <2>6, AuthorHas DEF AuthorOK
  <2> QED BY <1>1, <1>4, <2>1, <2>7, LocalStep
<1> QED BY <1>1, <1>3, <1>4, LocalEnd

-----------------------------------------------------------------------------
(* Under the mutex                                                         *)

LEMMA PatchOK ==
  ASSUME DraftInv, NEW c \in Authors, author[c].pc # "idle", NEW x, DraftListed(x), Found(x),
         author[c].edit \in Edits \/ author[c].edit.op \in {"validate", "review", "create_and_publish"}
  PROVE  DraftListed(patch(c, x)) /\ Found(patch(c, x))
<1>1. "status" \in DOMAIN x /\ "source" \in DOMAIN x /\ SourceListed(x.source)
  BY DEF DraftListed
<1>2. ASSUME NEW status, status # "absent", patch(c, x) = [x EXCEPT !.status = status]
      PROVE  DraftListed(patch(c, x)) /\ Found(patch(c, x))
  <2>1. PICK y : y = patch(c, x)
    OBVIOUS
  <2>2. "status" \in DOMAIN y /\ "source" \in DOMAIN y /\ y.source = x.source /\ y.status = status
    BY <1>1, <1>2, <2>1, Zenon
  <2> QED BY <1>1, <1>2, <2>1, <2>2 DEF DraftListed, Found
<1>3. CASE author[c].edit.op \in {"validate", "create_and_publish"}
  BY <1>2, <1>3 DEF patch
<1>4. CASE author[c].edit.op = "review"
  BY <1>2, <1>4 DEF patch
<1>5. CASE author[c].edit.op \notin {"validate", "create_and_publish", "review"}
  <2>1. PICK new : new = patched(author[c].edit, author[c].read, x.source)
    OBVIOUS
  <2>2. SourceListed(new)
    BY <1>1, <1>5, <2>1, AuthorHas, PatchedListed
  <2>3. PICK y : y = patch(c, x)
    OBVIOUS
  <2>4. y = [x EXCEPT !.source = new]
    BY <1>5, <2>1, <2>3 DEF patch
  <2>5. "status" \in DOMAIN y /\ "source" \in DOMAIN y /\ y.source = new /\ y.status = x.status
    BY <1>1, <2>4, Zenon
  <2> QED BY <2>2, <2>3, <2>5 DEF DraftListed, Found
<1> QED BY <1>3, <1>4, <1>5

LEMMA UnderMutexKeeps ==
  ASSUME DraftInv, NEW c \in Authors, author[c].pc \in {"lock", "relock"}, NEW x, DraftListed(x), Found(x),
         UnderMutex(c, x), UNCHANGED <<draftRow, proposalMem, proposalRow, releaseRow, approvedOnce>>
  PROVE  DraftInv'
<1>1. author[c].edit \in Edits \/ author[c].edit.op \in {"validate", "review", "publish", "create_and_publish"}
  BY AuthorHas DEF OpFits
<1>2. (author[c].via => approvedOnce) /\ (author[c].via => author[c].edit.op = "publish")
  BY AuthorHas DEF ApprovalSeen, OpFits
<1>3. AuthorFields \subseteq DOMAIN author[c]
  BY AuthorHas
<1>4. ProposalsOK' /\ ReleasesOK'
  BY ProposalsKept, ReleasesKept DEF DraftInv
<1>5. ASSUME NEW y, DraftListed(y), Found(y), NEW pc \in {"versions", "row"},
             AuthorGoes(c, [author[c] EXCEPT !.pc = pc, !.draft = y])
      PROVE  AuthorsOK'
  <2>1. PICK q : q = [author[c] EXCEPT !.pc = pc, !.draft = y]
    OBVIOUS
  <2>2. /\ AuthorFields \subseteq DOMAIN q /\ q.pc = pc /\ q.draft = y
        /\ q.server = author[c].server /\ q.id = author[c].id /\ q.edit = author[c].edit /\ q.read = author[c].read
        /\ q.via = author[c].via /\ q.proposal = author[c].proposal
    BY <1>3, <2>1, Zenon DEF AuthorFields
  <2>3. OpFits(q)
    BY <1>2, <1>5, <2>2 DEF OpFits
  <2>4. ApprovalSeen(q)'
    BY <1>2, <1>5, <2>2 DEF ApprovalSeen
  <2>5. AuthorOK(q)'
    BY <1>5, <2>2, <2>3, <2>4, AuthorHas DEF AuthorOK
  <2> QED BY <1>5, <2>1, <2>5, AuthorMoves DEF DraftInv
<1>6. CASE author[c].edit.op = "publish"
  <2>1. /\ UNCHANGED draftMem
        /\ AuthorAnswer(c) \/ AuthorGoes(c, [author[c] EXCEPT !.pc = "versions", !.draft = x])
    BY <1>6 DEF UnderMutex
  <2>2. AuthorsOK'
    BY <1>5, <2>1, AuthorEnds DEF DraftInv
  <2> QED BY <1>4, <2>1, <2>2, DraftsKept DEF DraftInv
<1>7. CASE author[c].edit.op # "publish"
  <2>1. PICK y : y = patch(c, x)
    OBVIOUS
  <2>2. /\ draftMem' = [draftMem EXCEPT ![author[c].server][author[c].id] = y]
        /\ AuthorGoes(c, [author[c] EXCEPT !.pc = "row", !.draft = y])
    BY <1>7, <2>1 DEF UnderMutex
  <2>3. DraftListed(y) /\ Found(y)
    BY <1>1, <1>7, <2>1, PatchOK
  <2>4. AuthorsOK'
    BY <1>5, <2>2, <2>3
  <2>5. DraftsListed'
    BY <2>2, <2>3, AuthorHas, MemSaved DEF DraftInv
  <2> QED BY <1>4, <2>4, <2>5 DEF DraftInv
<1> QED BY <1>6, <1>7

LEMMA LockKeeps ==
  ASSUME DraftInv, NEW c \in Authors, patchForTenant(c)
  PROVE  DraftInv'
<1>1. author[c].pc = "lock" /\ UNCHANGED <<draftRow, proposalMem, proposalRow, releaseRow, approvedOnce>>
  BY DEF patchForTenant, AuthorAt, only
<1>2. CASE Found(draftMem[author[c].server][author[c].id])
  <2>1. UnderMutex(c, draftMem[author[c].server][author[c].id])
    BY <1>2 DEF patchForTenant
  <2> QED BY <1>1, <1>2, <2>1, AuthorHas, UnderMutexKeeps
<1>3. CASE ~ Found(draftMem[author[c].server][author[c].id])
  <2>1. AuthorTo(c, "fetch") /\ UNCHANGED draftMem
    BY <1>3 DEF patchForTenant
  <2>2. PICK q : q = [author[c] EXCEPT !.pc = "fetch"]
    OBVIOUS
  <2>3. AuthorFields \subseteq DOMAIN author[c]
    BY <1>1, AuthorHas
  <2>4. /\ AuthorFields \subseteq DOMAIN q /\ q.pc = "fetch" /\ q.draft = author[c].draft
        /\ q.server = author[c].server /\ q.id = author[c].id /\ q.edit = author[c].edit /\ q.read = author[c].read
        /\ q.via = author[c].via /\ q.proposal = author[c].proposal
    BY <2>2, <2>3, Zenon DEF AuthorFields
  <2>5. OpFits(q) /\ ApprovalSeen(q)'
    BY <1>1, <2>4, AuthorHas DEF OpFits, ApprovalSeen
  <2>6. AuthorOK(q)'
    BY <1>1, <2>4, <2>5, AuthorHas DEF AuthorOK
  <2>7. AuthorsOK'
    BY <1>1, <2>1, <2>2, <2>6, AuthorMoves DEF DraftInv, AuthorTo
  <2> QED BY <1>1, <2>1, <2>7, DraftsKept, ProposalsKept, ReleasesKept DEF DraftInv
<1> QED BY <1>2, <1>3

LEMMA RelockKeeps ==
  ASSUME DraftInv, NEW c \in Authors, patchRelocks(c)
  PROVE  DraftInv'
<1>1. author[c].pc = "relock" /\ UNCHANGED <<draftRow, proposalMem, proposalRow, releaseRow, approvedOnce>>
  BY DEF patchRelocks, AuthorAt, only
<1>2. Found(author[c].draft) /\ DraftListed(author[c].draft)
  BY <1>1, AuthorHas DEF OpFits
<1>3. UnderMutex(c, author[c].draft)
  BY DEF patchRelocks
<1> QED BY <1>1, <1>2, <1>3, UnderMutexKeeps

LEMMA FetchKeeps ==
  ASSUME DraftInv, NEW c \in Authors, patchFetches(c)
  PROVE  DraftInv'
<1>1. author[c].pc = "fetch" /\ storesUnchanged
  BY DEF patchFetches, AuthorAt
<1>2. PICK x : x = draftRow[author[c].id]
  OBVIOUS
<1>3. AuthorAnswer(c) \/ (Found(x) /\ AuthorGoes(c, [author[c] EXCEPT !.pc = "relock", !.draft = x]))
  BY <1>2 DEF patchFetches
<1>4. CASE Found(x) /\ AuthorGoes(c, [author[c] EXCEPT !.pc = "relock", !.draft = x])
  <2>1. PICK q : q = [author[c] EXCEPT !.pc = "relock", !.draft = x]
    OBVIOUS
  <2>2. AuthorFields \subseteq DOMAIN author[c] /\ DraftListed(x)
    BY <1>1, <1>2, AuthorHas
  <2>3. /\ AuthorFields \subseteq DOMAIN q /\ q.pc = "relock" /\ q.draft = x
        /\ q.server = author[c].server /\ q.id = author[c].id /\ q.edit = author[c].edit /\ q.read = author[c].read
        /\ q.via = author[c].via /\ q.proposal = author[c].proposal
    BY <2>1, <2>2, Zenon DEF AuthorFields
  <2>4. OpFits(q) /\ ApprovalSeen(q)
    BY <1>1, <1>4, <2>3, AuthorHas DEF OpFits, ApprovalSeen
  <2>5. AuthorOK(q)
    BY <1>1, <2>2, <2>3, <2>4, AuthorHas DEF AuthorOK
  <2> QED BY <1>1, <1>4, <2>1, <2>5, LocalStep
<1> QED BY <1>1, <1>3, <1>4, LocalEnd

-----------------------------------------------------------------------------
(* Publication and saving                                                  *)

\* A request that goes on with its draft, and nothing else of it changed.
LEMMA GoesOn ==
  ASSUME DraftInv, NEW c \in Authors, NEW pc, pc # "idle", author[c].pc # "idle", AuthorTo(c, pc),
         approvedOnce' = approvedOnce,
         \A q : /\ q.pc = pc /\ q.edit = author[c].edit /\ q.via = author[c].via
                /\ q.draft = author[c].draft /\ q.proposal = author[c].proposal
                => OpFits(q) /\ ApprovalSeen(q)
  PROVE  AuthorsOK'
<1>1. PICK q : q = [author[c] EXCEPT !.pc = pc]
  OBVIOUS
<1>2. AuthorFields \subseteq DOMAIN author[c]
  BY AuthorHas
<1>3. /\ AuthorFields \subseteq DOMAIN q /\ q.pc = pc /\ q.draft = author[c].draft
      /\ q.server = author[c].server /\ q.id = author[c].id /\ q.edit = author[c].edit /\ q.read = author[c].read
      /\ q.via = author[c].via /\ q.proposal = author[c].proposal
  BY <1>1, <1>2, Zenon DEF AuthorFields
<1>4. OpFits(q) /\ ApprovalSeen(q)
  BY <1>3
<1>5. ApprovalSeen(q)'
  BY <1>4 DEF ApprovalSeen
<1>6. AuthorOK(q)'
  BY <1>3, <1>4, <1>5, AuthorHas DEF AuthorOK
<1> QED BY <1>1, <1>6, AuthorMoves DEF DraftInv, AuthorTo

LEMMA VersionsKeeps ==
  ASSUME DraftInv, NEW c \in Authors, releaseVersionExistsLocked(c)
  PROVE  DraftInv'
<1>1. author[c].pc = "versions" /\ storesUnchanged /\ (AuthorAnswer(c) \/ AuthorTo(c, "publish"))
  BY DEF releaseVersionExistsLocked, AuthorAt
<1>2. CASE AuthorTo(c, "publish")
  <2>1. \A q : /\ q.pc = "publish" /\ q.edit = author[c].edit /\ q.via = author[c].via
               /\ q.draft = author[c].draft /\ q.proposal = author[c].proposal
               => OpFits(q) /\ ApprovalSeen(q)
    BY <1>1, AuthorHas DEF OpFits, ApprovalSeen
  <2>2. AuthorsOK'
    BY <1>1, <1>2, <2>1, GoesOn, StoresKept
  <2> QED BY <1>1, <2>2, StoresKept DEF DraftInv
<1> QED BY <1>1, <1>2, LocalEnd

LEMMA PublishKeeps ==
  ASSUME DraftInv, NEW c \in Authors, PublishDraft(c)
  PROVE  DraftInv'
<1>1. author[c].pc = "publish" /\ UNCHANGED <<draftRow, proposalMem, proposalRow, releaseRow, approvedOnce>>
  BY DEF PublishDraft, AuthorAt, only
<1>2. PICK x : x = [author[c].draft EXCEPT !.status = "published"]
  OBVIOUS
<1>3. /\ AuthorFields \subseteq DOMAIN author[c] /\ Found(author[c].draft) /\ DraftListed(author[c].draft)
      /\ (author[c].via => author[c].edit.op = "publish") /\ (author[c].via => approvedOnce)
  BY <1>1, AuthorHas DEF OpFits, ApprovalSeen
<1>4. "status" \in DOMAIN author[c].draft /\ "source" \in DOMAIN author[c].draft /\ SourceListed(author[c].draft.source)
  BY <1>3 DEF DraftListed
<1>5. "status" \in DOMAIN x /\ "source" \in DOMAIN x /\ x.source = author[c].draft.source /\ x.status = "published"
  BY <1>2, <1>4, Zenon
<1>6. DraftListed(x) /\ Found(x)
  BY <1>4, <1>5 DEF DraftListed, Found
<1>7. \/ AuthorAnswer(c) /\ UNCHANGED draftMem
      \/ /\ Compiled(Compile(x.source)) /\ draftMem' = [draftMem EXCEPT ![author[c].server][author[c].id] = x]
         /\ AuthorGoes(c, [author[c] EXCEPT !.pc = "release", !.draft = x])
  BY <1>2 DEF PublishDraft
<1>8. CASE AuthorAnswer(c) /\ UNCHANGED draftMem
  BY <1>1, <1>8, AuthorEnds, DraftsKept, ProposalsKept, ReleasesKept DEF DraftInv
<1>9. CASE /\ Compiled(Compile(x.source)) /\ draftMem' = [draftMem EXCEPT ![author[c].server][author[c].id] = x]
           /\ AuthorGoes(c, [author[c] EXCEPT !.pc = "release", !.draft = x])
  <2>1. PICK q : q = [author[c] EXCEPT !.pc = "release", !.draft = x]
    OBVIOUS
  <2>2. /\ AuthorFields \subseteq DOMAIN q /\ q.pc = "release" /\ q.draft = x
        /\ q.server = author[c].server /\ q.id = author[c].id /\ q.edit = author[c].edit /\ q.read = author[c].read
        /\ q.via = author[c].via /\ q.proposal = author[c].proposal
    BY <1>3, <2>1, Zenon DEF AuthorFields
  <2>3. OpFits(q) /\ ApprovalSeen(q)'
    BY <1>1, <1>3, <1>6, <1>9, <2>2 DEF OpFits, ApprovalSeen
  <2>4. AuthorOK(q)'
    BY <1>1, <1>6, <2>2, <2>3, AuthorHas DEF AuthorOK
  <2>5. AuthorsOK'
    BY <1>1, <1>9, <2>1, <2>4, AuthorMoves DEF DraftInv
  <2>6. DraftsListed'
    BY <1>1, <1>6, <1>9, AuthorHas, MemSaved DEF DraftInv
  <2> QED BY <1>1, <2>5, <2>6, ProposalsKept, ReleasesKept DEF DraftInv
<1> QED BY <1>7, <1>8, <1>9

LEMMA PublishSavesKeeps ==
  ASSUME DraftInv, NEW c \in Authors, PublishSaves(c)
  PROVE  DraftInv'
<1>1. /\ author[c].pc = "release" /\ AuthorTo(c, "row")
      /\ UNCHANGED <<draftMem, draftRow, proposalMem, proposalRow, approvedOnce>>
  BY DEF PublishSaves, AuthorAt, only
<1>2. \A q : /\ q.pc = "row" /\ q.edit = author[c].edit /\ q.via = author[c].via
             /\ q.draft = author[c].draft /\ q.proposal = author[c].proposal
             => OpFits(q) /\ ApprovalSeen(q)
  BY <1>1, AuthorHas DEF OpFits, ApprovalSeen
<1>3. AuthorsOK'
  BY <1>1, <1>2, GoesOn
<1>4. PICK src, def, v : src = author[c].draft.source /\ def = Compile(src) /\ v = DraftVersion[author[c].id]
  OBVIOUS
<1>5. releaseRow' = [releaseRow EXCEPT ![v] = [status |-> "published", source |-> src, definition |-> def]]
  BY <1>4 DEF PublishSaves, SaveRelease
<1>6. v \in DraftVersions /\ Compiled(def) /\ SourceListed(src)
  BY <1>1, <1>4, AuthorHas DEF DraftVersions, OpFits, DraftListed
<1>7. ReleaseOK([status |-> "published", source |-> src, definition |-> def])
  BY <1>4, <1>6 DEF ReleaseOK
<1>8. ReleasesOK'
  <2>1. releaseRow = [w \in DraftVersions |-> releaseRow[w]] /\ \A w \in DraftVersions : ReleaseOK(releaseRow[w])
    BY DEF DraftInv, ReleasesOK
  <2>2. /\ releaseRow' = [w \in DraftVersions |-> releaseRow'[w]]
        /\ \A w \in DraftVersions : ReleaseOK(releaseRow'[w])
    BY <1>5, <1>6, <1>7, <2>1
  <2> QED BY <2>2 DEF ReleasesOK
<1> QED BY <1>1, <1>3, <1>8, DraftsKept, ProposalsKept DEF DraftInv

LEMMA SaveKeeps ==
  ASSUME DraftInv, NEW c \in Authors, SaveDraft(c)
  PROVE  DraftInv'
<1>1. /\ author[c].pc = "row" /\ AuthorTo(c, "delete") /\ SaveDraftRow(author[c].id, author[c].draft)
      /\ UNCHANGED <<draftMem, proposalMem, proposalRow, releaseRow, approvedOnce>>
  BY DEF SaveDraft, AuthorAt, only
<1>2. \A q : /\ q.pc = "delete" /\ q.edit = author[c].edit /\ q.via = author[c].via
             /\ q.draft = author[c].draft /\ q.proposal = author[c].proposal
             => OpFits(q) /\ ApprovalSeen(q)
  BY <1>1, AuthorHas DEF OpFits, ApprovalSeen
<1>3. AuthorsOK'
  BY <1>1, <1>2, GoesOn
<1>4. DraftsListed'
  BY <1>1, AuthorHas, RowSaved DEF DraftInv
<1> QED BY <1>1, <1>3, <1>4, ProposalsKept, ReleasesKept DEF DraftInv

LEMMA DeletesKeeps ==
  ASSUME DraftInv, NEW c \in Authors, SaveDraftDeletes(c)
  PROVE  DraftInv'
<1>1. /\ author[c].pc = "delete" /\ AuthorTo(c, "insert")
      /\ UNCHANGED <<draftMem, draftRow, proposalMem, proposalRow, releaseRow, approvedOnce>>
  BY DEF SaveDraftDeletes, AuthorAt, only
<1>2. \A q : /\ q.pc = "insert" /\ q.edit = author[c].edit /\ q.via = author[c].via
             /\ q.draft = author[c].draft /\ q.proposal = author[c].proposal
             => OpFits(q) /\ ApprovalSeen(q)
  BY <1>1, AuthorHas DEF OpFits, ApprovalSeen
<1>3. AuthorsOK'
  BY <1>1, <1>2, GoesOn
<1> QED BY <1>1, <1>3, DraftsKept, ProposalsKept, ReleasesKept DEF DraftInv

LEMMA AfterSaveOK ==
  ASSUME DraftInv, NEW c \in Authors, author[c].pc = "insert"
  PROVE  AuthorOK(afterSave(c))
<1>1. PICK n : n = afterSave(c)
  OBVIOUS
<1>2. /\ AuthorFields \subseteq DOMAIN author[c] /\ Found(author[c].draft) /\ author[c].via \in BOOLEAN
      /\ (author[c].via => author[c].edit.op = "publish") /\ (author[c].via => approvedOnce)
  BY AuthorHas DEF OpFits, ApprovalSeen
<1>3. ASSUME NEW pc, n = [author[c] EXCEPT !.pc = pc],
             \/ pc = "idle"
             \/ pc = "lock" /\ author[c].edit.op = "create_and_publish"
             \/ pc = "proposal" /\ author[c].via
             \/ pc = "register"
      PROVE  AuthorOK(n)
  <2>1. /\ AuthorFields \subseteq DOMAIN n /\ n.pc = pc /\ n.draft = author[c].draft
        /\ n.server = author[c].server /\ n.id = author[c].id /\ n.edit = author[c].edit /\ n.read = author[c].read
        /\ n.via = author[c].via /\ n.proposal = author[c].proposal
    BY <1>2, <1>3, Zenon DEF AuthorFields
  <2>2. pc # "idle" => OpFits(n) /\ ApprovalSeen(n)
    BY <1>2, <1>3, <2>1 DEF OpFits, ApprovalSeen
  <2> QED BY <2>1, <2>2, AuthorHas DEF AuthorOK
<1>4. ASSUME NEW todo, n = [author[c] EXCEPT !.pc = "sync", !.todo = todo]
      PROVE  AuthorOK(n)
  <2>1. /\ AuthorFields \subseteq DOMAIN n /\ n.pc = "sync" /\ n.draft = author[c].draft
        /\ n.server = author[c].server /\ n.id = author[c].id /\ n.edit = author[c].edit /\ n.read = author[c].read
        /\ n.via = author[c].via /\ n.proposal = author[c].proposal
    BY <1>2, <1>4, Zenon DEF AuthorFields
  <2> QED BY <2>1, MovesOn
<1>5. CASE author[c].edit.op = "create_and_publish" /\ author[c].draft.status = "draft"
  <2>1. n = [author[c] EXCEPT !.pc = IF Compiled(Compile(author[c].draft.source)) THEN "lock" ELSE "idle"]
    BY <1>1, <1>5 DEF afterSave
  <2>2. PICK pc : pc = IF Compiled(Compile(author[c].draft.source)) THEN "lock" ELSE "idle"
    OBVIOUS
  <2> QED BY <1>1, <1>3, <1>5, <2>1, <2>2
<1>6. CASE author[c].edit.op = "create_and_publish" /\ author[c].draft.status # "draft"
  <2>1. n = [author[c] EXCEPT !.pc = "lock", !.edit = Op("publish")]
    BY <1>1, <1>6 DEF afterSave
  <2>2. /\ AuthorFields \subseteq DOMAIN n /\ n.pc = "lock" /\ n.draft = author[c].draft
        /\ n.server = author[c].server /\ n.id = author[c].id /\ n.edit = Op("publish") /\ n.read = author[c].read
        /\ n.via = author[c].via /\ n.proposal = author[c].proposal
    BY <1>2, <2>1, Zenon DEF AuthorFields
  <2>3. n.edit.op = "publish"
    BY <2>2 DEF Op
  <2>4. OpFits(n) /\ ApprovalSeen(n)
    BY <1>2, <1>6, <2>2, <2>3 DEF OpFits, ApprovalSeen
  <2> QED BY <1>1, <2>2, <2>4, AuthorHas DEF AuthorOK
<1>7. CASE author[c].edit.op = "publish"
  <2>1. n = [author[c] EXCEPT !.pc = IF author[c].via THEN "proposal" ELSE "register"]
    BY <1>1, <1>7 DEF afterSave
  <2>2. CASE author[c].via
    <3>1. n = [author[c] EXCEPT !.pc = "proposal"]
      BY <2>1, <2>2
    <3> QED BY <1>1, <1>3, <2>2, <3>1
  <2>3. CASE ~ author[c].via
    <3>1. n = [author[c] EXCEPT !.pc = "register"]
      BY <2>1, <2>3
    <3> QED BY <1>1, <1>3, <3>1
  <2> QED BY <2>2, <2>3
<1>8. CASE author[c].edit.op = "plugin_sync"
  <2>1. n = [author[c] EXCEPT !.pc = "sync", !.todo = ToolManifests(author[c].edit.manifest)]
    BY <1>1, <1>8 DEF afterSave
  <2> QED BY <1>1, <1>4, <2>1
<1>9. CASE author[c].edit.op \in {"create", "validate", "review"}
  <2>1. n = IdleAuthor
    BY <1>1, <1>9 DEF afterSave
  <2> QED BY <1>1, <2>1 DEF AuthorOK, IdleAuthor
<1>10. CASE author[c].edit.op \notin {"create_and_publish", "publish", "plugin_sync", "create", "validate", "review"}
  <2>1. n = [author[c] EXCEPT !.pc = "sync",
               !.todo = syncDraftExportedTools(author[c].edit, author[c].read, author[c].draft)]
    BY <1>1, <1>10 DEF afterSave
  <2> QED BY <1>1, <1>4, <2>1
<1> QED BY <1>5, <1>6, <1>7, <1>8, <1>9, <1>10

LEMMA InsertsKeeps ==
  ASSUME DraftInv, NEW c \in Authors, SaveDraftInserts(c)
  PROVE  DraftInv'
<1>1. author[c].pc = "insert" /\ UNCHANGED <<draftMem, draftRow, proposalMem, proposalRow, releaseRow, approvedOnce>>
  BY DEF SaveDraftInserts, AuthorAt, only
<1>2. PICK n : n = afterSave(c)
  OBVIOUS
<1>3. AuthorGoes(c, n) \/ AuthorAnswer(c)
  BY <1>2 DEF SaveDraftInserts, AuthorAnswer
<1>4. AuthorOK(n)
  BY <1>1, <1>2, AfterSaveOK
<1>5. AuthorOK(n)'
  BY <1>1, <1>4 DEF AuthorOK, OpFits, ApprovalSeen
<1>6. AuthorsOK'
  BY <1>1, <1>3, <1>5, AuthorMoves, AuthorEnds DEF DraftInv
<1> QED BY <1>1, <1>6, DraftsKept, ProposalsKept, ReleasesKept DEF DraftInv

-----------------------------------------------------------------------------
(* Registry and catalog                                                    *)

LEMMA RegisterKeeps ==
  ASSUME DraftInv, NEW c \in Authors, releaseAndRegisterDraft(c)
  PROVE  DraftInv'
<1>1. author[c].pc = "register" /\ UNCHANGED <<draftMem, draftRow, proposalMem, proposalRow, releaseRow, approvedOnce>>
  BY DEF releaseAndRegisterDraft, AuthorAt, only
<1>2. PICK todo : todo = syncAgentExportedTools(Compile(getDraft(author[c].server, author[c].id).source).exports)
  OBVIOUS
<1>3. AuthorAnswer(c) \/ AuthorGoes(c, [author[c] EXCEPT !.pc = "sync", !.todo = todo])
  BY <1>2 DEF releaseAndRegisterDraft
<1>4. PICK q : q = [author[c] EXCEPT !.pc = "sync", !.todo = todo]
  OBVIOUS
<1>5. AuthorFields \subseteq DOMAIN author[c]
  BY <1>1, AuthorHas
<1>6. /\ AuthorFields \subseteq DOMAIN q /\ q.pc = "sync" /\ q.draft = author[c].draft
      /\ q.server = author[c].server /\ q.id = author[c].id /\ q.edit = author[c].edit /\ q.read = author[c].read
      /\ q.via = author[c].via /\ q.proposal = author[c].proposal
  BY <1>4, <1>5, Zenon DEF AuthorFields
<1>7. AuthorOK(q)
  BY <1>1, <1>6, MovesOn
<1>8. AuthorOK(q)'
  BY <1>1, <1>7 DEF AuthorOK, OpFits, ApprovalSeen
<1>9. AuthorsOK'
  BY <1>1, <1>3, <1>4, <1>8, AuthorMoves, AuthorEnds DEF DraftInv
<1> QED BY <1>1, <1>9, DraftsKept, ProposalsKept, ReleasesKept DEF DraftInv

LEMMA CatalogKeeps ==
  ASSUME DraftInv, NEW c \in Authors, SyncCatalog(c)
  PROVE  DraftInv'
<1>1. author[c].pc = "sync" /\ UNCHANGED <<draftMem, draftRow, proposalMem, proposalRow, releaseRow, approvedOnce>>
  BY DEF SyncCatalog, AuthorAt, only
<1>2. AuthorFields \subseteq DOMAIN author[c]
  BY <1>1, AuthorHas
<1>3. PICK rest : rest = Tail(author[c].todo)
  OBVIOUS
<1>4. AuthorAnswer(c) \/ AuthorGoes(c, [author[c] EXCEPT !.todo = rest])
  BY <1>3 DEF SyncCatalog
<1>6. ASSUME AuthorGoes(c, [author[c] EXCEPT !.todo = rest]) PROVE AuthorsOK'
  <2>1. PICK q : q = [author[c] EXCEPT !.todo = rest]
    OBVIOUS
  <2>2. /\ AuthorFields \subseteq DOMAIN q /\ q.pc = author[c].pc /\ q.draft = author[c].draft
        /\ q.server = author[c].server /\ q.id = author[c].id /\ q.edit = author[c].edit /\ q.read = author[c].read
        /\ q.via = author[c].via /\ q.proposal = author[c].proposal
    BY <1>2, <2>1, Zenon DEF AuthorFields
  <2>3. AuthorOK(q)
    BY <1>1, <2>2, MovesOn
  <2>4. AuthorOK(q)'
    BY <1>1, <2>3 DEF AuthorOK, OpFits, ApprovalSeen
  <2> QED BY <1>1, <1>6, <2>1, <2>4, AuthorMoves DEF DraftInv
<1>7. AuthorsOK'
  BY <1>1, <1>4, <1>6, AuthorEnds DEF DraftInv
<1> QED BY <1>1, <1>7, DraftsKept, ProposalsKept, ReleasesKept DEF DraftInv

LEMMA DraftFailuresKeep ==
  ASSUME DraftInv, NEW c \in Authors, DraftStoreFails(c)
  PROVE  DraftInv'
<1>1. AuthorAnswer(c) /\ UNCHANGED <<draftMem, draftRow, proposalMem, proposalRow, releaseRow, approvedOnce>>
  BY DEF DraftStoreFails, only, storesUnchanged
<1> QED BY <1>1, AuthorEnds, DraftsKept, ProposalsKept, ReleasesKept DEF DraftInv

-----------------------------------------------------------------------------
(* Proposals                                                               *)

LEMMA ProposeKeeps ==
  ASSUME DraftInv, NEW c \in Authors, CreateProposal(c)
  PROVE  DraftInv'
<1>1. author[c].pc = "propose" /\ UNCHANGED <<draftMem, draftRow, proposalRow, releaseRow, approvedOnce>>
  BY DEF CreateProposal, AuthorAt, only
<1>2. PICK p : p = [status |-> "draft", draft |-> author[c].id]
  OBVIOUS
<1>3. /\ proposalMem' = [proposalMem EXCEPT ![author[c].server] = p]
      /\ AuthorGoes(c, [author[c] EXCEPT !.pc = "proposal_row", !.proposal = p])
  BY <1>2 DEF CreateProposal
<1>4. p.status = "draft" /\ ProposalNamed(p)
  BY <1>1, <1>2, AuthorHas DEF ProposalNamed
<1>5. PICK q : q = [author[c] EXCEPT !.pc = "proposal_row", !.proposal = p]
  OBVIOUS
<1>6. AuthorFields \subseteq DOMAIN author[c]
  BY <1>1, AuthorHas
<1>7. /\ AuthorFields \subseteq DOMAIN q /\ q.pc = "proposal_row" /\ q.draft = author[c].draft
      /\ q.server = author[c].server /\ q.id = author[c].id /\ q.edit = author[c].edit /\ q.read = author[c].read
      /\ q.via = author[c].via /\ q.proposal = p
  BY <1>5, <1>6, Zenon DEF AuthorFields
<1>8. OpFits(q) /\ ApprovalSeen(q)'
  BY <1>1, <1>4, <1>7, AuthorHas DEF OpFits, ApprovalSeen
<1>9. AuthorOK(q)'
  BY <1>1, <1>4, <1>7, <1>8, AuthorHas DEF AuthorOK
<1>10. AuthorsOK'
  BY <1>1, <1>3, <1>5, <1>9, AuthorMoves DEF DraftInv
<1>11. ProposalsOK'
  BY <1>1, <1>3, <1>4, AuthorHas DEF DraftInv, ProposalsOK, ProposalOK
<1> QED BY <1>1, <1>10, <1>11, DraftsKept, ReleasesKept DEF DraftInv

LEMMA ProposalReadKeeps ==
  ASSUME DraftInv, NEW c \in Authors, updateProposalForTenant(c)
  PROVE  DraftInv'
<1>1. author[c].pc = "proposal" /\ storesUnchanged
  BY DEF updateProposalForTenant, AuthorAt
<1>2. PICK p, next :
        /\ p = getProposal(author[c].server)
        /\ next = IF Found(p)
                  THEN proposalTransition(author[c].edit.op, author[c].via, Found(author[c].draft), p.status)
                  ELSE "refused"
  OBVIOUS
<1>3. \/ AuthorAnswer(c)
      \/ next = "published" /\ ~ Found(author[c].draft) /\ AuthorTo(c, "lock")
      \/ /\ next # "refused" /\ (next = "published" => Found(author[c].draft))
         /\ AuthorGoes(c, [author[c] EXCEPT !.pc = "proposal_write", !.proposal = [p EXCEPT !.status = next]])
  BY <1>2 DEF updateProposalForTenant
<1>4. /\ AuthorFields \subseteq DOMAIN author[c] /\ ProposalOK(p) /\ author[c].via \in BOOLEAN
      /\ (author[c].via => author[c].edit.op = "publish")
      /\ author[c].via \/ author[c].edit.op \in {"submit", "approve", "reject"}
      /\ (author[c].via /\ Found(author[c].draft) => approvedOnce)
  BY <1>1, <1>2, AuthorHas DEF OpFits, ApprovalSeen
<1>5. next = "published" => author[c].via /\ (Found(author[c].draft) \/ p.status = "approved")
  BY <1>2, <1>4 DEF proposalTransition
<1>6. next = "published" => approvedOnce
  BY <1>4, <1>5 DEF ProposalOK
<1>7. next # "refused" => Found(p)
  BY <1>2
<1>8. next # "absent"
  BY <1>2 DEF proposalTransition
<1>9. CASE next = "published" /\ ~ Found(author[c].draft) /\ AuthorTo(c, "lock")
  <2>1. \A q : /\ q.pc = "lock" /\ q.edit = author[c].edit /\ q.via = author[c].via
               /\ q.draft = author[c].draft /\ q.proposal = author[c].proposal
               => OpFits(q) /\ ApprovalSeen(q)
    BY <1>4, <1>5, <1>6, <1>9 DEF OpFits, ApprovalSeen
  <2>2. AuthorsOK'
    BY <1>1, <1>9, <2>1, GoesOn, StoresKept
  <2> QED BY <1>1, <2>2, StoresKept DEF DraftInv
<1>10. CASE /\ next # "refused" /\ (next = "published" => Found(author[c].draft))
            /\ AuthorGoes(c, [author[c] EXCEPT !.pc = "proposal_write", !.proposal = [p EXCEPT !.status = next]])
  <2>1. PICK new : new = [p EXCEPT !.status = next]
    OBVIOUS
  <2>2. "status" \in DOMAIN p /\ "draft" \in DOMAIN p /\ p.draft \in DraftIds
    BY <1>4, <1>7, <1>10 DEF ProposalOK, ProposalNamed
  <2>3. "status" \in DOMAIN new /\ "draft" \in DOMAIN new /\ new.draft = p.draft /\ new.status = next
    BY <2>1, <2>2, Zenon
  <2>4. ProposalNamed(new)
    BY <2>2, <2>3 DEF ProposalNamed
  <2>5. PICK q : q = [author[c] EXCEPT !.pc = "proposal_write", !.proposal = new]
    OBVIOUS
  <2>6. /\ AuthorFields \subseteq DOMAIN q /\ q.pc = "proposal_write" /\ q.draft = author[c].draft
        /\ q.server = author[c].server /\ q.id = author[c].id /\ q.edit = author[c].edit /\ q.read = author[c].read
        /\ q.via = author[c].via /\ q.proposal = new
    BY <1>4, <2>5, Zenon DEF AuthorFields
  <2>7. OpFits(q) /\ ApprovalSeen(q)
    BY <1>4, <1>6, <2>3, <2>6 DEF OpFits, ApprovalSeen
  <2>8. AuthorOK(q)
    BY <1>1, <2>4, <2>6, <2>7, AuthorHas DEF AuthorOK
  <2>9. AuthorGoes(c, q)
    BY <1>10, <2>1, <2>5
  <2> QED BY <1>1, <2>8, <2>9, LocalStep
<1> QED BY <1>1, <1>3, <1>9, <1>10, LocalEnd

LEMMA ProposalWriteKeeps ==
  ASSUME DraftInv, NEW c \in Authors, updateProposalWrites(c)
  PROVE  DraftInv'
<1>1. /\ author[c].pc = "proposal_write" /\ AuthorTo(c, "proposal_row")
      /\ UNCHANGED <<draftMem, draftRow, proposalRow, releaseRow>>
      /\ proposalMem' = [proposalMem EXCEPT ![author[c].server] = author[c].proposal]
      /\ approvedOnce' = (approvedOnce \/ author[c].proposal.status = "approved")
  BY DEF updateProposalWrites, AuthorAt, only
<1>2. PICK q : q = [author[c] EXCEPT !.pc = "proposal_row"]
  OBVIOUS
<1>3. AuthorFields \subseteq DOMAIN author[c]
  BY <1>1, AuthorHas
<1>4. /\ AuthorFields \subseteq DOMAIN q /\ q.pc = "proposal_row" /\ q.draft = author[c].draft
      /\ q.server = author[c].server /\ q.id = author[c].id /\ q.edit = author[c].edit /\ q.read = author[c].read
      /\ q.via = author[c].via /\ q.proposal = author[c].proposal
  BY <1>2, <1>3, Zenon DEF AuthorFields
<1>5. author[c].proposal.status \in {"approved", "published"} => approvedOnce'
  BY <1>1, AuthorHas DEF ApprovalSeen
<1>6. OpFits(q) /\ ApprovalSeen(q)'
  BY <1>1, <1>4, <1>5, AuthorHas DEF OpFits, ApprovalSeen
<1>7. AuthorOK(q)'
  BY <1>1, <1>4, <1>6, AuthorHas DEF AuthorOK
<1>8. AuthorsOK'
  BY <1>1, <1>2, <1>7, AuthorMoves DEF DraftInv, AuthorTo
<1>9. ProposalsOK'
  <2>1. ProposalNamed(author[c].proposal) /\ author[c].server \in DraftServers
    BY <1>1, AuthorHas
  <2>2. /\ proposalMem = [s \in DraftServers |-> proposalMem[s]]
        /\ \A s \in DraftServers : ProposalOK(proposalMem[s])
        /\ ProposalOK(proposalRow)
    BY DEF DraftInv, ProposalsOK
  <2> QED BY <1>1, <1>5, <2>1, <2>2 DEF ProposalsOK, ProposalOK
<1> QED BY <1>1, <1>8, <1>9, DraftsKept, ReleasesKept DEF DraftInv

LEMMA ProposalSaveKeeps ==
  ASSUME DraftInv, NEW c \in Authors, updateProposalSaves(c)
  PROVE  DraftInv'
<1>1. /\ author[c].pc = "proposal_row" /\ (AuthorAnswer(c) \/ AuthorTo(c, "register"))
      /\ UNCHANGED <<draftMem, draftRow, proposalMem, releaseRow, approvedOnce>>
      /\ proposalRow' = author[c].proposal
  BY DEF updateProposalSaves, AuthorAt, only, SaveProposal
<1>2. ProposalOK(author[c].proposal)
  BY <1>1, AuthorHas DEF ApprovalSeen, ProposalOK
<1>3. ProposalsOK'
  BY <1>1, <1>2 DEF DraftInv, ProposalsOK, ProposalOK
<1>4. ASSUME AuthorTo(c, "register") PROVE AuthorsOK'
  <2>1. \A q : /\ q.pc = "register" /\ q.edit = author[c].edit /\ q.via = author[c].via
               /\ q.draft = author[c].draft /\ q.proposal = author[c].proposal
               => OpFits(q) /\ ApprovalSeen(q)
    BY <1>1, AuthorHas DEF OpFits, ApprovalSeen
  <2> QED BY <1>1, <1>4, <2>1, GoesOn
<1>5. AuthorsOK'
  BY <1>1, <1>4, AuthorEnds DEF DraftInv
<1> QED BY <1>1, <1>3, <1>5, DraftsKept, ReleasesKept DEF DraftInv

-----------------------------------------------------------------------------
(* The theorems                                                            *)

LEMMA DraftInitOK == ASSUME DraftInit PROVE DraftInv
<1>1. PICK init \in InitialDrafts : draftRow = init.draft /\ proposalRow = init.proposal
  BY DEF DraftInit
<1>2. /\ draftRow = [d \in DraftIds |-> draftRow[d]] /\ ProposalNamed(proposalRow)
      /\ \A d \in DraftIds : DraftListed(draftRow[d])
  BY <1>1, DraftAssumption
<1>3. AuthorsOK
  BY DEF DraftInit, AuthorsOK, AuthorOK, IdleAuthor
<1>4. DraftsListed
  BY <1>2, EmptyListed DEF DraftInit, DraftsListed
<1>5. ProposalsOK
  <2>1. ProposalOK(NoDraft)
    BY EmptyListed DEF ProposalOK, NoDraft
  <2> QED BY <1>2, <2>1 DEF DraftInit, ProposalsOK, ProposalOK
<1>6. ReleasesOK
  <2>1. ReleaseOK(NoDraft)
    BY EmptyListed DEF ReleaseOK, NoDraft, Found
  <2> QED BY <2>1 DEF DraftInit, ReleasesOK
<1> QED BY <1>3, <1>4, <1>5, <1>6 DEF DraftInv

LEMMA DraftStepKeeps ==
  ASSUME DraftInv, [DraftNext]_draftVars
  PROVE  DraftInv'
<1>1. CASE UNCHANGED draftVars
  BY <1>1 DEF draftVars, DraftInv, AuthorsOK, AuthorOK, OpFits, ApprovalSeen, DraftsListed, ProposalsOK,
              ProposalOK, ReleasesOK
<1>2. ASSUME NEW c \in Authors, AuthorStep(c) PROVE DraftInv'
  BY <1>2, AuthorRequestsBegin, FallbackKeeps, CreateKeeps, PluginKeeps, ReadKeeps, LockKeeps, FetchKeeps, RelockKeeps,
     VersionsKeeps, PublishKeeps, PublishSavesKeeps, SaveKeeps, DeletesKeeps, InsertsKeeps, RegisterKeeps,
     CatalogKeeps, DraftFailuresKeep, ProposeKeeps, ProposalReadKeeps, ProposalWriteKeeps, ProposalSaveKeeps
     DEF AuthorStep
<1> QED BY <1>1, <1>2 DEF DraftNext

LEMMA DraftInvariant == DraftSpec => []DraftInv
BY DraftInitOK, DraftStepKeeps, PTL DEF DraftSpec

\* A proposal is published, in the memory of a server or in the database, only after an
\* approval of it was written, however the requests of all servers and the failures of their
\* calls of the database interleave (PublishProposalForTenant, updateProposalForTenant).
THEOREM PublishedWasApprovedHolds == DraftSpec => []PublishedWasApproved
<1>1. DraftInv => PublishedWasApproved
  BY DEF DraftInv, ProposalsOK, ProposalOK, PublishedWasApproved
<1> QED BY <1>1, DraftInvariant, PTL

\* Whatever edits reach a draft between its validation and its release, what is released
\* compiled: its limits are usable and its disabled delegation is denied (Compile,
\* PublishDraftForTenant).
THEOREM ReleasedGovernableHolds == DraftSpec => []ReleasedGovernable
<1>1. ASSUME DraftInv PROVE ReleasedGovernable
  <2>1. ASSUME NEW v \in ListReleases
        PROVE  /\ SourceListed(releaseRow[v].source)
               /\ releaseRow[v].definition = Compile(releaseRow[v].source) /\ Compiled(releaseRow[v].definition)
    BY <1>1 DEF DraftInv, ReleasesOK, ReleaseOK, ListReleases
  <2>2. ReleasedLimitsUsable
    BY <2>1, CompiledIsChecked DEF ReleasedLimitsUsable, Released, validateRuntimeLimits
  <2>3. DisabledDelegationDenied
    BY <2>1, CompiledGoverns DEF DisabledDelegationDenied
  <2> QED BY <2>2, <2>3 DEF ReleasedGovernable
<1> QED BY <1>1, DraftInvariant, PTL

-----------------------------------------------------------------------------
(* The invariant of AgentResources                                         *)

EditorFields == {"pc", "server", "kind", "version", "item", "seen", "own", "then"}

\* A request has begun a statement of its transaction.
Started(r) == r.pc # "idle" /\ r.then # ""

\* The statement at which a transaction is, or which it has begun.
StatementOf(r) == IF r.pc = "wait" THEN r.then ELSE r.pc

\* What a transaction sees of a row.
Seen(r, v) == IF v \in DOMAIN r.own THEN r.own[v] ELSE skillRow[v]

\* Locals of a request in progress, whichever it is.
EditorFit(r) ==
  /\ EditorFields \subseteq DOMAIN r /\ r.server \in ResourceServers /\ r.version \in GivenVersions
  /\ r.pc = "asset_row" => AssetStored(r.item) /\ RowFound(r.item)
  /\ r.pc = "patch_asset" => "default" \notin DOMAIN r.item
                             /\ ("version" \in DOMAIN r.item => r.item.version \in GivenVersions)
  /\ r.pc = "ensure_asset" => r.version \in AgentVersions

\* A transaction that gets as far as its commit has made its version active, or deletes all;
\* the only row it ever removes is the one it is about to insert.
TransactionFits(r) ==
  /\ DOMAIN r.own \subseteq SkillVersions /\ \A v \in DOMAIN r.own : SkillStored(r.own[v])
  /\ \A v \in DOMAIN r.own : RowFound(r.own[v]) \/ (r.pc = "insert" /\ v = r.item)
  /\ StatementOf(r) \in {"demote", "remove", "promote", "others", "insert", "lookup"} => r.item \in SkillVersions
  /\ r.pc = "wait" => r.then \in {"demote", "remove", "promote", "others", "delete_all"}
  /\ r.pc \in {"remove", "insert", "lookup", "others", "commit"} => r.then # ""
  /\ r.pc = "insert" => r.then = "remove"
  /\ StatementOf(r) = "others" \/ (r.pc = "commit" /\ r.then # "delete_all") =>
       r.item \in SkillVersions /\ r.item \in DOMAIN r.own /\ ActiveSkill(r.own[r.item])

\* While no two transactions overlap, nothing changes under a transaction that has begun: it
\* has found all rows its statement is about, and leaves at most its own version active.
UndisturbedFits(r) ==
  /\ r.pc = "wait" => r.seen = {<<v, SkillGen(v)>> : v \in {w \in SkillVersions :
                                  UpdateSelects(r.then, r.item, w, Seen(r, w))}}
  /\ StatementOf(r) \in {"remove", "insert"} \/ (r.pc = "commit" /\ r.then = "delete_all") =>
       \A v \in SkillVersions : ~ ActiveSkill(Seen(r, v))
  /\ r.pc = "commit" /\ r.then # "delete_all" =>
       \A v \in SkillVersions : v # r.item => ~ ActiveSkill(Seen(r, v))

EditorsOK ==
  /\ editor = [c \in ResourceCallers |-> editor[c]]
  /\ \A c \in ResourceCallers : editor[c].pc # "idle" => EditorFit(editor[c]) /\ TransactionFits(editor[c])

AssetsOK ==
  /\ assetMem = [s \in ResourceServers |-> assetMem[s]] /\ \A s \in ResourceServers : AssetStored(assetMem[s])
  /\ registryDefault = [s \in ResourceServers |-> registryDefault[s]]
  /\ \A s \in ResourceServers : registryDefault[s] \in GivenVersions
  /\ AssetStored(assetRow)

SkillsOK ==
  /\ skillRow = [v \in SkillVersions |-> skillRow[v]] /\ \A v \in SkillVersions : SkillStored(skillRow[v])
  /\ lastSkillWrite = "activated" => \E v \in SkillVersions : ActiveSkill(skillRow[v])

SkillsAlone ==
  ~ skillsOverlapped =>
    /\ \A c, d \in ResourceCallers : Started(editor[c]) /\ Started(editor[d]) => c = d
    /\ \A c \in ResourceCallers : Started(editor[c]) => UndisturbedFits(editor[c])
    /\ \A v, w \in SkillVersions : ActiveSkill(skillRow[v]) /\ ActiveSkill(skillRow[w]) => v = w

ResourceInv == EditorsOK /\ AssetsOK /\ SkillsOK /\ SkillsAlone

-----------------------------------------------------------------------------
(* Rows and transactions                                                   *)

LEMMA LaidOverIs ==
  ASSUME NEW new, NEW base
  PROVE  /\ DOMAIN LaidOver(new, base) = DOMAIN new \cup DOMAIN base
         /\ \A f \in DOMAIN new : LaidOver(new, base)[f] = new[f]
         /\ \A f \in DOMAIN base : f \notin DOMAIN new => LaidOver(new, base)[f] = base[f]
BY DEF LaidOver

LEMMA UpdateSetsOK ==
  ASSUME NEW row, SkillStored(row), RowFound(row),
         NEW stmt \in {"demote", "others", "remove", "promote", "delete_all"}
  PROVE  /\ SkillStored(UpdateSets(stmt, row))
         /\ ActiveSkill(UpdateSets(stmt, row)) <=> stmt = "promote"
         /\ stmt # "remove" => RowFound(UpdateSets(stmt, row))
<1>1. {"version", "status", "card", "gen"} \subseteq DOMAIN row
  BY DEF SkillStored
<1>2. CASE stmt = "remove"
  <2>1. UpdateSets(stmt, row) = AbsentRow
    BY <1>2 DEF UpdateSets
  <2> QED BY <1>2, <2>1 DEF AbsentRow, SkillStored, RowFound, ActiveSkill
<1>3. ASSUME NEW new, {"version", "status", "card", "gen"} \subseteq DOMAIN new, new.version = row.version
      PROVE  SkillStored(new) /\ RowFound(new) /\ (ActiveSkill(new) <=> new.status = "stable")
  BY <1>3 DEF SkillStored, RowFound, ActiveSkill
<1>4. CASE stmt \in {"demote", "others", "promote"}
  <2>1. PICK new, status : /\ new = UpdateSets(stmt, row)
                           /\ status = IF stmt = "promote" THEN "stable" ELSE "published"
    OBVIOUS
  <2>2. new = [row EXCEPT !.status = status]
    BY <1>4, <2>1 DEF UpdateSets
  <2>3. {"version", "status", "card", "gen"} \subseteq DOMAIN new /\ new.version = row.version /\ new.status = status
    BY <1>1, <2>2, Zenon
  <2> QED BY <1>3, <1>4, <2>1, <2>3
<1>5. CASE stmt = "delete_all"
  <2>1. PICK new : new = UpdateSets(stmt, row)
    OBVIOUS
  <2>2. new = [row EXCEPT !.status = "deprecated", !.card = "deleted"]
    BY <1>5, <2>1 DEF UpdateSets
  <2>3. {"version", "status", "card", "gen"} \subseteq DOMAIN new /\ new.version = row.version /\ new.status = "deprecated"
    BY <1>1, <2>2, Zenon
  <2> QED BY <1>3, <1>5, <2>1, <2>3
<1> QED BY <1>2, <1>4, <1>5

LEMMA SeenIs ==
  ASSUME NEW c
  PROVE  \A v : VisibleSkill(c, v) = Seen(editor[c], v)
BY DEF VisibleSkill, Seen

LEMMA SeenStored ==
  ASSUME ResourceInv, NEW c \in ResourceCallers, editor[c].pc # "idle"
  PROVE  \A v \in SkillVersions : SkillStored(Seen(editor[c], v))
BY DEF ResourceInv, EditorsOK, TransactionFits, SkillsOK, Seen

\* What a request in progress is known to have.
LEMMA EditorHas ==
  ASSUME ResourceInv, NEW c \in ResourceCallers, editor[c].pc # "idle"
  PROVE  EditorFields \subseteq DOMAIN editor[c] /\ EditorFit(editor[c]) /\ TransactionFits(editor[c])
BY DEF ResourceInv, EditorsOK, EditorFit

LEMMA EditorMoves ==
  ASSUME ResourceInv, NEW c \in ResourceCallers, NEW q, EditorGoes(c, q),
         q.pc # "idle" => EditorFit(q) /\ TransactionFits(q)
  PROVE  EditorsOK'
<1>1. /\ editor = [d \in ResourceCallers |-> editor[d]]
      /\ \A d \in ResourceCallers : editor[d].pc # "idle" => EditorFit(editor[d]) /\ TransactionFits(editor[d])
      /\ editor' = [editor EXCEPT ![c] = q]
  BY DEF ResourceInv, EditorsOK, EditorGoes
<1>2. /\ editor' = [d \in ResourceCallers |-> editor'[d]] /\ editor'[c] = q
      /\ \A d \in ResourceCallers : d # c => editor'[d] = editor[d]
  BY <1>1
<1>3. ASSUME NEW d \in ResourceCallers, editor'[d].pc # "idle"
      PROVE  EditorFit(editor'[d]) /\ TransactionFits(editor'[d])
  BY <1>1, <1>2, <1>3
<1>4. ASSUME NEW d \in ResourceCallers, editor'[d].pc # "idle"
      PROVE  EditorFit(editor[d])' /\ TransactionFits(editor[d])'
  BY <1>3, <1>4 DEF EditorFit, TransactionFits, StatementOf
<1> QED BY <1>2, <1>4 DEF EditorsOK

\* A step of a request that commits nothing.
LEMMA SkillsKept ==
  ASSUME ResourceInv, NEW c \in ResourceCallers, NEW q, EditorGoes(c, q), keepSkills,
         Started(q) => Started(editor[c]),
         ~ skillsOverlapped /\ Started(q) => UndisturbedFits(q)
  PROVE  SkillsOK' /\ SkillsAlone'
<1>1. UNCHANGED <<skillRow, lastSkillWrite, skillsOverlapped>>
  BY DEF keepSkills
<1>2. SkillsOK'
  BY <1>1 DEF ResourceInv, SkillsOK
<1>3. /\ editor'[c] = q /\ \A d \in ResourceCallers : d # c => editor'[d] = editor[d]
  BY DEF ResourceInv, EditorsOK, EditorGoes
<1>4. SUFFICES ASSUME ~ skillsOverlapped
               PROVE  /\ \A a, d \in ResourceCallers : Started(editor'[a]) /\ Started(editor'[d]) => a = d
                      /\ \A d \in ResourceCallers : Started(editor'[d]) => UndisturbedFits(editor[d])'
                      /\ \A v, w \in SkillVersions : ActiveSkill(skillRow[v]) /\ ActiveSkill(skillRow[w]) => v = w
  BY <1>1, <1>2 DEF SkillsAlone, Started
<1>5. /\ \A a, d \in ResourceCallers : Started(editor[a]) /\ Started(editor[d]) => a = d
      /\ \A d \in ResourceCallers : Started(editor[d]) => UndisturbedFits(editor[d])
      /\ \A v, w \in SkillVersions : ActiveSkill(skillRow[v]) /\ ActiveSkill(skillRow[w]) => v = w
  BY <1>4 DEF ResourceInv, SkillsAlone
<1>6. ASSUME NEW d \in ResourceCallers PROVE Started(editor'[d]) => Started(editor[d]) /\ UndisturbedFits(editor'[d])
  BY <1>3, <1>4, <1>5
<1>7. ASSUME NEW d \in ResourceCallers, Started(editor'[d]) PROVE UndisturbedFits(editor[d])'
  <2>1. PICK r : r = editor'[d]
    OBVIOUS
  <2>2. UndisturbedFits(r)
    BY <1>6, <1>7, <2>1
  <2> QED BY <1>1, <2>1, <2>2 DEF UndisturbedFits, Seen, SkillGen, StatementOf
<1> QED BY <1>5, <1>6, <1>7

\* The places of a request about which nothing is known but its locals.
QuietPCs == {"idle", "prompt_read", "put", "delete", "enable", "disable", "create_asset", "patch_asset",
             "ensure_asset", "asset_row", "set_default", "demote", "promote", "delete_all"}

LEMMA QuietFits ==
  ASSUME NEW q, q.pc \in QuietPCs \cup {"lookup", "others"}
  PROVE  UndisturbedFits(q)
BY DEF UndisturbedFits, StatementOf, QuietPCs

LEMMA AssetsKept ==
  ASSUME ResourceInv, keepAssets
  PROVE  AssetsOK'
BY DEF ResourceInv, AssetsOK, keepAssets

LEMMA EditorEnds ==
  ASSUME ResourceInv, NEW c \in ResourceCallers, EditorAnswer(c), keepSkills
  PROVE  EditorsOK' /\ SkillsOK' /\ SkillsAlone'
<1>1. EditorGoes(c, IdleEditor) /\ IdleEditor.pc = "idle"
  BY DEF EditorAnswer, IdleEditor
<1>2. ~ Started(IdleEditor)
  BY <1>1 DEF Started
<1> QED BY <1>1, <1>2, EditorMoves, SkillsKept

-----------------------------------------------------------------------------
(* Requests begin                                                          *)

LEMMA AssetOfServer ==
  ASSUME ResourceInv, NEW s \in ResourceServers
  PROVE  AssetStored(GetAgentAsset(s))
BY DEF ResourceInv, AssetsOK, GetAgentAsset

LEMMA VersionGiven ==
  ASSUME ResourceInv, NEW s \in ResourceServers, NEW given \in GivenVersions
  PROVE  standaloneAgentSubresourceVersion(s, given) \in GivenVersions
<1>1. registryDefault[s] \in GivenVersions
  BY DEF ResourceInv, AssetsOK
<1> QED BY <1>1, AssetOfServer DEF standaloneAgentSubresourceVersion, DefaultVersionForTenant, AssetStored

LEMMA BeginKeeps ==
  ASSUME ResourceInv, NEW c \in ResourceCallers, NEW s \in ResourceServers, NEW pc \in QuietPCs \ {"idle", "asset_row"},
         NEW kind, NEW version \in GivenVersions, NEW item, EditorBegins(c, s, pc, kind, version, item),
         pc \in {"demote", "promote"} => item \in SkillVersions,
         pc = "patch_asset" => "default" \notin DOMAIN item /\ ("version" \in DOMAIN item => item.version \in GivenVersions),
         pc = "ensure_asset" => version \in AgentVersions
  PROVE  ResourceInv'
<1>1. PICK q : q = [pc |-> pc, server |-> s, kind |-> kind, version |-> version, item |-> item,
                    seen |-> {}, own |-> <<>>, then |-> ""]
  OBVIOUS
<1>2. EditorGoes(c, q) /\ keepSkills /\ keepAssets
  BY <1>1 DEF EditorBegins
<1>3. /\ EditorFields \subseteq DOMAIN q /\ q.pc = pc /\ q.server = s /\ q.version = version /\ q.item = item
      /\ q.own = <<>> /\ q.then = ""
  BY <1>1 DEF EditorFields
<1>4. EditorFit(q)
  BY <1>3 DEF EditorFit
<1>5. TransactionFits(q)
  <2>1. DOMAIN q.own = {}
    <3>1. <<>> \in Seq(SkillVersions) /\ Len(<<>>) = 0
      OBVIOUS
    <3>2. DOMAIN <<>> = 1 .. 0
      BY <3>1
    <3>3. 1 .. 0 = {}
      OBVIOUS
    <3> QED BY <1>3, <3>2, <3>3
  <2>2. StatementOf(q) = pc
    BY <1>3 DEF StatementOf, QuietPCs
  <2> QED BY <1>3, <2>1, <2>2 DEF TransactionFits, QuietPCs
<1>6. ~ Started(q)
  BY <1>3 DEF Started
<1> QED BY <1>2, <1>4, <1>5, <1>6, EditorMoves, SkillsKept, AssetsKept DEF ResourceInv

LEMMA ResourceRequestsBegin ==
  ASSUME ResourceInv, NEW c \in ResourceCallers,
         \/ handleAgentPromptProfile(c) \/ handleAgentToolBindings(c) \/ handleAgentCollaborators(c)
         \/ handleAgentExportedTools(c) \/ handleAgentResourceDelete(c)
  PROVE  ResourceInv'
<1>1. CASE handleAgentPromptProfile(c)
  <2>1. PICK s \in ResourceServers, given \in GivenVersions, p \in PromptPatches :
          EditorBegins(c, s, "prompt_read", "prompt", given, p)
    BY <1>1 DEF handleAgentPromptProfile
  <2> QED BY <2>1, BeginKeeps DEF QuietPCs
<1>2. ASSUME NEW s \in ResourceServers, NEW given \in GivenVersions, NEW k,
             EditorBegins(c, s, "put", k, standaloneAgentSubresourceVersion(s, given), <<"saved", c>>)
      PROVE  ResourceInv'
  BY <1>2, VersionGiven, BeginKeeps DEF QuietPCs
<1>3. CASE handleAgentToolBindings(c) \/ handleAgentCollaborators(c) \/ handleAgentExportedTools(c)
  BY <1>2, <1>3 DEF handleAgentToolBindings, handleAgentCollaborators, handleAgentExportedTools
<1>4. CASE handleAgentResourceDelete(c)
  <2>1. PICK s \in ResourceServers, k \in ResourceKinds : EditorBegins(c, s, "delete", k, "", <<>>)
    BY <1>4 DEF handleAgentResourceDelete
  <2> QED BY <2>1, BeginKeeps DEF QuietPCs, GivenVersions
<1> QED BY <1>1, <1>3, <1>4

LEMMA SkillRequestsBegin ==
  ASSUME ResourceInv, NEW c \in ResourceCallers, handleAgentSkills(c) \/ handleSkillResource(c)
  PROVE  ResourceInv'
<1>1. ASSUME NEW s \in ResourceServers, NEW given \in GivenVersions, NEW v \in SkillVersions,
             UpsertSkillDefinitionProjection(c, s, standaloneAgentSubresourceVersion(s, given), v)
      PROVE  ResourceInv'
  BY <1>1, VersionGiven, BeginKeeps DEF QuietPCs, UpsertSkillDefinitionProjection
<1>2. ASSUME NEW s \in ResourceServers, NEW v \in SkillVersions, ActivateSkillDefinitionProjection(c, s, v)
      PROVE  ResourceInv'
  BY <1>2, BeginKeeps DEF QuietPCs, ActivateSkillDefinitionProjection, GivenVersions
<1>3. ASSUME NEW s \in ResourceServers, DeleteActiveSkillDefinitionProjection(c, s)
      PROVE  ResourceInv'
  BY <1>3, BeginKeeps DEF QuietPCs, DeleteActiveSkillDefinitionProjection, GivenVersions
<1>4. CASE upsertAgentSkill(c)
  BY <1>1, <1>4 DEF upsertAgentSkill
<1>5. CASE upsertGlobalSkill(c)
  BY <1>1, <1>5 DEF upsertGlobalSkill, shouldCreateSkillVersion
<1>6. CASE activateSkillDefinitionVersion(c)
  BY <1>2, <1>6 DEF activateSkillDefinitionVersion
<1>7. CASE deleteAgentSkill(c) \/ deleteGlobalSkill(c)
  BY <1>3, <1>7 DEF deleteAgentSkill, deleteGlobalSkill
<1> QED BY <1>4, <1>5, <1>6, <1>7 DEF handleAgentSkills, handleSkillResource

LEMMA AssetRequestsBegin ==
  ASSUME ResourceInv, NEW c \in ResourceCallers,
         \/ handleAgentCreate(c) \/ handleAgentPatch(c) \/ handleAgentPatchVersion(c) \/ handleAgentDelete(c)
         \/ activateStableAgentVersion(c) \/ activateAgentSkillVersion(c)
  PROVE  ResourceInv'
<1>1. CASE handleAgentCreate(c)
  <2>1. PICK s \in ResourceServers : EditorBegins(c, s, "create_asset", "asset", "", <<>>)
    BY <1>1 DEF handleAgentCreate
  <2> QED BY <2>1, BeginKeeps DEF QuietPCs, GivenVersions
<1>2. ASSUME NEW s \in ResourceServers, NEW item, EditorBegins(c, s, "patch_asset", "asset", "", item),
             "default" \notin DOMAIN item, "version" \in DOMAIN item => item.version \in GivenVersions
      PROVE  ResourceInv'
  BY <1>2, BeginKeeps DEF QuietPCs, GivenVersions
<1>3. ASSUME NEW status
      PROVE  "default" \notin DOMAIN [status |-> status] /\ "version" \notin DOMAIN [status |-> status]
  OBVIOUS
<1>4. CASE handleAgentPatch(c)
  BY <1>2, <1>3, <1>4 DEF handleAgentPatch
<1>5. CASE handleAgentDelete(c)
  BY <1>2, <1>3, <1>5 DEF handleAgentDelete
<1>6. CASE handleAgentPatchVersion(c)
  <2>1. PICK s \in ResourceServers, v \in AgentVersions : EditorBegins(c, s, "patch_asset", "asset", "", [version |-> v])
    BY <1>6 DEF handleAgentPatchVersion
  <2>2. PICK item : item = [version |-> v]
    OBVIOUS
  <2>3. "default" \notin DOMAIN item /\ item.version \in GivenVersions
    BY <2>2 DEF GivenVersions
  <2> QED BY <1>2, <2>1, <2>2, <2>3
<1>7. CASE activateStableAgentVersion(c) \/ activateAgentSkillVersion(c)
  <2>1. PICK s \in ResourceServers, v \in AgentVersions : EditorBegins(c, s, "ensure_asset", "asset", v, <<>>)
    BY <1>7 DEF activateStableAgentVersion, activateAgentSkillVersion
  <2> QED BY <2>1, BeginKeeps DEF QuietPCs, GivenVersions
<1> QED BY <1>1, <1>4, <1>5, <1>6, <1>7

-----------------------------------------------------------------------------
(* Steps that are not about skills                                         *)

\* A request moves between places about which nothing is known but its locals.
LEMMA QuietMoves ==
  ASSUME ResourceInv, NEW c \in ResourceCallers, editor[c].pc \notin {"idle", "insert"}, NEW q, EditorGoes(c, q), keepSkills,
         q.pc \in QuietPCs \ {"demote", "promote"}, EditorFit(q), q.own = editor[c].own, q.then = editor[c].then
  PROVE  EditorsOK' /\ SkillsOK' /\ SkillsAlone'
<1>1. TransactionFits(q)
  <2>1. StatementOf(q) = q.pc
    BY DEF StatementOf, QuietPCs
  <2> QED BY <2>1, EditorHas DEF TransactionFits, QuietPCs
<1>2. Started(q) => Started(editor[c])
  BY DEF Started
<1>3. UndisturbedFits(q)
  BY QuietFits
<1> QED BY <1>1, <1>2, <1>3, EditorMoves, SkillsKept

LEMMA RowStepsKeep ==
  ASSUME ResourceInv, NEW c \in ResourceCallers,
         \/ UpsertPromptProfileProjection(c) \/ UpsertToolBindingProjection(c) \/ UpsertCollaboratorProjection(c)
         \/ UpsertExportedToolProjection(c) \/ DeleteActivePromptProfileProjection(c) \/ DeleteActiveToolBindingProjection(c)
         \/ DeleteActiveCollaboratorProjection(c) \/ DeleteActiveExportedToolProjection(c) \/ SyncExportManifest(c)
         \/ ResourceStoreFails(c)
  PROVE  ResourceInv'
<1>1. keepSkills /\ keepAssets
  BY DEF UpsertPromptProfileProjection, UpsertToolBindingProjection, UpsertCollaboratorProjection,
         UpsertExportedToolProjection, DeleteActivePromptProfileProjection, DeleteActiveToolBindingProjection,
         DeleteActiveCollaboratorProjection, DeleteActiveExportedToolProjection, SyncExportManifest,
         ResourceStoreFails, keepAllButRow
<1>2. \/ EditorAnswer(c)
      \/ editor[c].pc \in {"put", "delete"} /\ (EditorTo(c, "enable") \/ EditorTo(c, "disable"))
  BY DEF UpsertPromptProfileProjection, UpsertToolBindingProjection, UpsertCollaboratorProjection,
         UpsertExportedToolProjection, DeleteActivePromptProfileProjection, DeleteActiveToolBindingProjection,
         DeleteActiveCollaboratorProjection, DeleteActiveExportedToolProjection, SyncExportManifest,
         ResourceStoreFails, EditorSaves, EditorDeletes, EditorAt
<1>3. CASE EditorAnswer(c)
  BY <1>1, <1>3, EditorEnds, AssetsKept DEF ResourceInv
<1>4. ASSUME editor[c].pc \in {"put", "delete"}, NEW pc \in {"enable", "disable"}, EditorTo(c, pc)
      PROVE  ResourceInv'
  <2>1. PICK q : q = [editor[c] EXCEPT !.pc = pc]
    OBVIOUS
  <2>2. EditorFields \subseteq DOMAIN editor[c] /\ EditorFit(editor[c])
    BY <1>4, EditorHas
  <2>3. /\ EditorFields \subseteq DOMAIN q /\ q.pc = pc /\ q.server = editor[c].server /\ q.version = editor[c].version
        /\ q.own = editor[c].own /\ q.then = editor[c].then
    BY <2>1, <2>2, Zenon DEF EditorFields
  <2>4. EditorFit(q)
    BY <1>4, <2>2, <2>3 DEF EditorFit
  <2>5. EditorGoes(c, q)
    BY <1>4, <2>1 DEF EditorTo
  <2> QED BY <1>1, <1>4, <2>3, <2>4, <2>5, QuietMoves, AssetsKept DEF ResourceInv, QuietPCs
<1> QED BY <1>2, <1>3, <1>4

LEMMA PromptStepKeeps ==
  ASSUME ResourceInv, NEW c \in ResourceCallers, upsertStandalonePromptProfile(c)
  PROVE  ResourceInv'
<1>1. editor[c].pc = "prompt_read" /\ keepSkills /\ keepAssets
  BY DEF upsertStandalonePromptProfile, EditorAt
<1>2. PICK version : version = standaloneAgentSubresourceVersion(editor[c].server, editor[c].version)
  OBVIOUS
<1>3. EditorAnswer(c) \/ \E item : EditorGoes(c, [editor[c] EXCEPT !.pc = "put", !.version = version, !.item = item])
  BY <1>2 DEF upsertStandalonePromptProfile
<1>4. ASSUME NEW item, EditorGoes(c, [editor[c] EXCEPT !.pc = "put", !.version = version, !.item = item])
      PROVE  ResourceInv'
  <2>1. PICK q : q = [editor[c] EXCEPT !.pc = "put", !.version = version, !.item = item]
    OBVIOUS
  <2>2. EditorFields \subseteq DOMAIN editor[c] /\ EditorFit(editor[c])
    BY <1>1, EditorHas
  <2>3. /\ EditorFields \subseteq DOMAIN q /\ q.pc = "put" /\ q.server = editor[c].server /\ q.version = version
        /\ q.own = editor[c].own /\ q.then = editor[c].then
    BY <2>1, <2>2, Zenon DEF EditorFields
  <2>4. version \in GivenVersions
    BY <1>2, <2>2, VersionGiven DEF EditorFit
  <2>5. EditorFit(q)
    BY <2>2, <2>3, <2>4 DEF EditorFit
  <2> QED BY <1>1, <1>4, <2>1, <2>3, <2>5, QuietMoves, AssetsKept DEF ResourceInv, QuietPCs
<1> QED BY <1>1, <1>3, <1>4, EditorEnds, AssetsKept DEF ResourceInv

LEMMA AssetInMemory ==
  ASSUME ResourceInv, NEW c \in ResourceCallers, editor[c].pc \notin {"idle", "insert"}, NEW asset, AssetStored(asset), RowFound(asset),
         SaveAssetInMemory(c, asset), keepSkills, UNCHANGED <<assetRow, registryDefault>>
  PROVE  ResourceInv'
<1>1. /\ assetMem' = [assetMem EXCEPT ![editor[c].server] = asset]
      /\ EditorGoes(c, [editor[c] EXCEPT !.pc = "asset_row", !.item = asset])
  BY DEF SaveAssetInMemory
<1>2. PICK q : q = [editor[c] EXCEPT !.pc = "asset_row", !.item = asset]
  OBVIOUS
<1>3. EditorFields \subseteq DOMAIN editor[c] /\ EditorFit(editor[c])
  BY EditorHas
<1>4. /\ EditorFields \subseteq DOMAIN q /\ q.pc = "asset_row" /\ q.server = editor[c].server
      /\ q.version = editor[c].version /\ q.item = asset /\ q.own = editor[c].own /\ q.then = editor[c].then
  BY <1>2, <1>3, Zenon DEF EditorFields
<1>5. EditorFit(q)
  BY <1>3, <1>4 DEF EditorFit
<1>6. AssetsOK'
  BY <1>1, <1>3 DEF ResourceInv, AssetsOK, EditorFit
<1> QED BY <1>1, <1>2, <1>4, <1>5, <1>6, QuietMoves DEF ResourceInv, QuietPCs

LEMMA AssetNotSaved ==
  ASSUME ResourceInv, NEW c \in ResourceCallers, NotSaved(c), keepSkills, UNCHANGED <<assetRow, registryDefault>>
  PROVE  ResourceInv'
<1>1. EditorAnswer(c) /\ keepAssets
  BY DEF NotSaved, keepAssets
<1> QED BY <1>1, EditorEnds, AssetsKept DEF ResourceInv

LEMMA NewAssetStored == AssetStored(NewAsset) /\ RowFound(NewAsset)
BY DEF AssetStored, NewAsset, RowFound, GivenVersions

LEMMA CreateAssetKeeps ==
  ASSUME ResourceInv, NEW c \in ResourceCallers, CreateAgentAssetForTenant(c)
  PROVE  ResourceInv'
<1>1. /\ editor[c].pc = "create_asset" /\ keepSkills /\ UNCHANGED <<assetRow, registryDefault>>
      /\ NotSaved(c) \/ SaveAssetInMemory(c, NewAsset)
  BY DEF CreateAgentAssetForTenant, EditorAt
<1> QED BY <1>1, NewAssetStored, AssetInMemory, AssetNotSaved

LEMMA PatchAssetKeeps ==
  ASSUME ResourceInv, NEW c \in ResourceCallers, PatchAgentAssetForTenant(c)
  PROVE  ResourceInv'
<1>1. editor[c].pc = "patch_asset" /\ keepSkills /\ UNCHANGED <<assetRow, registryDefault>>
  BY DEF PatchAgentAssetForTenant, EditorAt
<1>2. PICK asset, next : asset = GetAgentAsset(editor[c].server) /\ next = LaidOver(editor[c].item, asset)
  OBVIOUS
<1>3. NotSaved(c) \/ (RowFound(asset) /\ SaveAssetInMemory(c, next))
  BY <1>2 DEF PatchAgentAssetForTenant
<1>4. CASE RowFound(asset) /\ SaveAssetInMemory(c, next)
  <2>1. /\ editor[c].server \in ResourceServers /\ "default" \notin DOMAIN editor[c].item
        /\ "version" \in DOMAIN editor[c].item => editor[c].item.version \in GivenVersions
    BY <1>1, EditorHas DEF EditorFit
  <2>2. /\ {"version", "status", "default"} \subseteq DOMAIN asset
        /\ asset.version \in GivenVersions /\ asset.default \in GivenVersions
    BY <1>2, <1>4, <2>1, AssetOfServer DEF AssetStored
  <2>3. /\ {"version", "status", "default"} \subseteq DOMAIN next /\ next.default = asset.default
        /\ next.version = IF "version" \in DOMAIN editor[c].item THEN editor[c].item.version ELSE asset.version
    <3>1. DOMAIN next = DOMAIN editor[c].item \cup DOMAIN asset
      BY <1>2, LaidOverIs
    <3>2. next.default = asset.default
      BY <1>2, <2>1, <2>2, Zenon DEF LaidOver
    <3>3. next.version = IF "version" \in DOMAIN editor[c].item THEN editor[c].item.version ELSE asset.version
      BY <1>2, <2>2, Zenon DEF LaidOver
    <3> QED BY <2>2, <3>1, <3>2, <3>3
  <2>4. next.version \in GivenVersions /\ "absent" \notin GivenVersions
    BY <2>1, <2>2, <2>3, ResourceAssumption DEF GivenVersions
  <2>5. AssetStored(next) /\ RowFound(next)
    BY <2>2, <2>3, <2>4 DEF AssetStored, RowFound
  <2> QED BY <1>1, <1>4, <2>5, AssetInMemory
<1> QED BY <1>1, <1>3, <1>4, AssetNotSaved

LEMMA EnsureAssetKeeps ==
  ASSUME ResourceInv, NEW c \in ResourceCallers, EnsureAgentAssetVersionForTenant(c)
  PROVE  ResourceInv'
<1>1. editor[c].pc = "ensure_asset" /\ keepSkills /\ UNCHANGED <<assetRow, registryDefault>>
  BY DEF EnsureAgentAssetVersionForTenant, EditorAt
<1>2. PICK found, version : /\ found = IF RowFound(GetAgentAsset(editor[c].server)) THEN GetAgentAsset(editor[c].server) ELSE NewAsset
                            /\ version = editor[c].version
  OBVIOUS
<1>3. PICK next : next = [found EXCEPT !.version = version, !.default = version,
                                       !.status = IF @ = "deleted" THEN "active" ELSE @]
  OBVIOUS
<1>4. SaveAssetInMemory(c, next)
  BY <1>2, <1>3 DEF EnsureAgentAssetVersionForTenant
<1>5. version \in AgentVersions /\ editor[c].server \in ResourceServers
  BY <1>1, <1>2, EditorHas DEF EditorFit
<1>6. {"version", "status", "default"} \subseteq DOMAIN found
  BY <1>2, <1>5, AssetOfServer, NewAssetStored DEF AssetStored
<1>7. {"version", "status", "default"} \subseteq DOMAIN next /\ next.version = version /\ next.default = version
  BY <1>3, <1>6, Zenon
<1>8. AssetStored(next) /\ RowFound(next)
  BY <1>5, <1>7, ResourceAssumption DEF AssetStored, RowFound, GivenVersions
<1> QED BY <1>1, <1>4, <1>8, AssetInMemory

LEMMA SaveAssetKeeps ==
  ASSUME ResourceInv, NEW c \in ResourceCallers, saveAgentAsset(c)
  PROVE  ResourceInv'
<1>1. /\ editor[c].pc = "asset_row" /\ keepSkills /\ UNCHANGED <<assetMem, registryDefault>>
      /\ assetRow' = editor[c].item /\ (EditorAnswer(c) \/ EditorTo(c, "set_default"))
  BY DEF saveAgentAsset, EditorAt
<1>2. AssetsOK'
  BY <1>1, EditorHas DEF ResourceInv, AssetsOK, EditorFit
<1>3. CASE EditorAnswer(c)
  BY <1>1, <1>2, <1>3, EditorEnds DEF ResourceInv
<1>4. CASE EditorTo(c, "set_default")
  <2>1. PICK q : q = [editor[c] EXCEPT !.pc = "set_default"]
    OBVIOUS
  <2>2. EditorFields \subseteq DOMAIN editor[c] /\ EditorFit(editor[c])
    BY <1>1, EditorHas
  <2>3. /\ EditorFields \subseteq DOMAIN q /\ q.pc = "set_default" /\ q.server = editor[c].server
        /\ q.version = editor[c].version /\ q.own = editor[c].own /\ q.then = editor[c].then
    BY <2>1, <2>2, Zenon DEF EditorFields
  <2>4. EditorFit(q)
    BY <2>2, <2>3 DEF EditorFit
  <2>5. EditorGoes(c, q)
    BY <1>4, <2>1 DEF EditorTo
  <2> QED BY <1>1, <1>2, <2>3, <2>4, <2>5, QuietMoves DEF ResourceInv, QuietPCs
<1> QED BY <1>1, <1>3, <1>4

LEMMA SetDefaultKeeps ==
  ASSUME ResourceInv, NEW c \in ResourceCallers, SetDefaultForTenant(c)
  PROVE  ResourceInv'
<1>1. /\ editor[c].pc = "set_default" /\ keepSkills /\ UNCHANGED <<assetMem, assetRow>> /\ EditorAnswer(c)
      /\ registryDefault' = [registryDefault EXCEPT ![editor[c].server] = editor[c].version]
  BY DEF SetDefaultForTenant, EditorAt
<1>2. AssetsOK'
  BY <1>1, EditorHas DEF ResourceInv, AssetsOK, EditorFit
<1> QED BY <1>1, <1>2, EditorEnds DEF ResourceInv

LEMMA ReleaseStatusKeeps ==
  ASSUME ResourceInv, UpdateReleaseStatus
  PROVE  ResourceInv'
<1>1. keepSkills /\ keepAssets /\ UNCHANGED editor
  BY DEF UpdateReleaseStatus
<1>2. UNCHANGED <<skillRow, lastSkillWrite, skillsOverlapped>>
  BY <1>1 DEF keepSkills
<1>3. EditorsOK'
  BY <1>1 DEF ResourceInv, EditorsOK, EditorFit, TransactionFits, StatementOf
<1>4. SkillsOK'
  BY <1>2 DEF ResourceInv, SkillsOK
<1>5. SkillsAlone'
  BY <1>1, <1>2 DEF ResourceInv, SkillsAlone, Started, UndisturbedFits, StatementOf, Seen, SkillGen
<1> QED BY <1>1, <1>3, <1>4, <1>5, AssetsKept DEF ResourceInv

-----------------------------------------------------------------------------
(* The statements of a transaction on the skill                            *)

\* A statement that begins may find another transaction under way.
LEMMA AloneKept ==
  ASSUME ResourceInv, NEW c \in ResourceCallers, NEW q, EditorGoes(c, q), UNCHANGED <<skillRow, lastSkillWrite>>,
         ~ skillsOverlapped' => /\ ~ skillsOverlapped /\ UndisturbedFits(q)
                                /\ \A d \in ResourceCallers : d # c => ~ Started(editor[d])
  PROVE  SkillsOK' /\ SkillsAlone'
<1>1. SkillsOK'
  BY DEF ResourceInv, SkillsOK
<1>2. editor'[c] = q /\ \A d \in ResourceCallers : d # c => editor'[d] = editor[d]
  BY DEF ResourceInv, EditorsOK, EditorGoes
<1>3. SUFFICES ASSUME ~ skillsOverlapped'
               PROVE  /\ \A a, d \in ResourceCallers : Started(editor'[a]) /\ Started(editor'[d]) => a = d
                      /\ \A d \in ResourceCallers : Started(editor'[d]) => UndisturbedFits(editor[d])'
                      /\ \A v, w \in SkillVersions : ActiveSkill(skillRow[v]) /\ ActiveSkill(skillRow[w]) => v = w
  BY <1>1 DEF SkillsAlone, Started
<1>4. \A v, w \in SkillVersions : ActiveSkill(skillRow[v]) /\ ActiveSkill(skillRow[w]) => v = w
  BY <1>3 DEF ResourceInv, SkillsAlone
<1>5. \A d \in ResourceCallers : Started(editor'[d]) => d = c
  BY <1>2, <1>3
<1>6. UndisturbedFits(editor[c])'
  <2>1. UndisturbedFits(q)
    BY <1>3
  <2> QED BY <1>2, <2>1 DEF UndisturbedFits, Seen, SkillGen, StatementOf
<1> QED BY <1>4, <1>5, <1>6

LEMMA StatementBegins ==
  ASSUME ResourceInv, NEW c \in ResourceCallers, SkillStatement(c)
  PROVE  ResourceInv'
<1>1. PICK stmt, item : stmt = editor[c].pc /\ item = editor[c].item
  OBVIOUS
<1>2. /\ stmt \in {"demote", "remove", "promote", "others", "delete_all"} /\ editor[c].pc # "idle"
      /\ keepAssets /\ UNCHANGED <<skillRow, lastSkillWrite>>
      /\ skillsOverlapped' = (skillsOverlapped \/ \E d \in ResourceCallers \ {c} : ~ EditorAt(d, "idle") /\ editor[d].then # "")
  BY <1>1 DEF SkillStatement
<1>3. PICK selected : selected = {<<v, SkillGen(v)>> : v \in {w \in SkillVersions :
                                    UpdateSelects(stmt, item, w, VisibleSkill(c, w))}}
  OBVIOUS
<1>4. PICK q : q = [editor[c] EXCEPT !.pc = "wait", !.then = stmt, !.seen = selected]
  OBVIOUS
<1>5. EditorGoes(c, q)
  BY <1>1, <1>3, <1>4 DEF SkillStatement
<1>6. EditorFields \subseteq DOMAIN editor[c] /\ EditorFit(editor[c]) /\ TransactionFits(editor[c])
  BY <1>2, EditorHas
<1>7. /\ EditorFields \subseteq DOMAIN q /\ q.pc = "wait" /\ q.then = stmt /\ q.seen = selected /\ q.item = item
      /\ q.server = editor[c].server /\ q.version = editor[c].version /\ q.own = editor[c].own
  BY <1>1, <1>4, <1>6, Zenon DEF EditorFields
<1>8. StatementOf(q) = stmt /\ StatementOf(editor[c]) = stmt
  BY <1>1, <1>2, <1>7 DEF StatementOf
<1>9. EditorFit(q)
  BY <1>6, <1>7 DEF EditorFit
<1>10. TransactionFits(q)
  BY <1>1, <1>2, <1>6, <1>7, <1>8 DEF TransactionFits
<1>11. EditorsOK'
  BY <1>5, <1>9, <1>10, EditorMoves
<1>12. \A v : Seen(q, v) = Seen(editor[c], v) /\ VisibleSkill(c, v) = Seen(q, v)
  BY <1>7, SeenIs DEF Seen
<1>13. ASSUME ~ skillsOverlapped' PROVE UndisturbedFits(q) /\ \A d \in ResourceCallers : d # c => ~ Started(editor[d])
  <2>1. \A d \in ResourceCallers : d # c => ~ Started(editor[d])
    BY <1>2, <1>13 DEF Started, EditorAt
  <2>2. q.seen = {<<v, SkillGen(v)>> : v \in {w \in SkillVersions : UpdateSelects(q.then, q.item, w, Seen(q, w))}}
    BY <1>3, <1>7, <1>12
  <2>3. stmt = "remove" => \A v \in SkillVersions : ~ ActiveSkill(Seen(q, v))
    <3>1. SUFFICES ASSUME stmt = "remove" PROVE \A v \in SkillVersions : ~ ActiveSkill(Seen(editor[c], v))
      BY <1>12
    <3>2. Started(editor[c])
      BY <1>1, <1>2, <1>6, <3>1 DEF TransactionFits, Started
    <3>3. UndisturbedFits(editor[c])
      BY <1>2, <1>13, <3>2 DEF ResourceInv, SkillsAlone
    <3> QED BY <1>8, <3>1, <3>3 DEF UndisturbedFits
  <2> QED BY <1>2, <1>7, <1>8, <2>1, <2>2, <2>3 DEF UndisturbedFits
<1>14. SkillsOK' /\ SkillsAlone'
  BY <1>2, <1>5, <1>13, AloneKept
<1> QED BY <1>2, <1>11, <1>14, AssetsKept DEF ResourceInv

LEMMA StatementEnds ==
  ASSUME ResourceInv, NEW c \in ResourceCallers, SkillStatementEnds(c)
  PROVE  ResourceInv'
<1>1. PICK e, stmt, item : e = editor[c] /\ stmt = e.then /\ item = e.item
  OBVIOUS
<1>2. e.pc = "wait" /\ keepSkills /\ keepAssets
  BY <1>1 DEF SkillStatementEnds, EditorAt
<1>3. PICK affected, written :
        /\ affected = AffectedSkills(c)
        /\ written = LaidOver([v \in affected |-> UpdateSets(stmt, VisibleSkill(c, v))], e.own)
  OBVIOUS
<1>4. PICK q : q = [e EXCEPT !.pc = afterStatement(stmt, affected), !.own = written, !.seen = {}]
  OBVIOUS
<1>5. EditorGoes(c, q)
  BY <1>1, <1>3, <1>4 DEF SkillStatementEnds
<1>6. EditorFields \subseteq DOMAIN e /\ EditorFit(e) /\ TransactionFits(e)
  BY <1>1, <1>2, EditorHas
<1>7. /\ EditorFields \subseteq DOMAIN q /\ q.pc = afterStatement(stmt, affected) /\ q.then = stmt /\ q.item = item
      /\ q.server = e.server /\ q.version = e.version /\ q.own = written
  BY <1>1, <1>4, <1>6, Zenon DEF EditorFields
<1>8. stmt \in {"demote", "remove", "promote", "others", "delete_all"} /\ StatementOf(e) = stmt
  BY <1>1, <1>2, <1>6 DEF TransactionFits, StatementOf
<1>9. /\ q.pc = IF stmt = "demote" THEN "remove" ELSE IF stmt = "remove" THEN "insert"
                ELSE IF stmt = "promote" THEN IF affected = {} THEN "lookup" ELSE "others" ELSE "commit"
      /\ StatementOf(q) = q.pc
  BY <1>7, <1>8 DEF afterStatement, StatementOf
<1>10. ASSUME NEW v \in affected
       PROVE  /\ v \in SkillVersions /\ RowFound(Seen(e, v)) /\ UpdateSelects(stmt, item, v, Seen(e, v))
              /\ <<v, SkillGen(v)>> \in e.seen
  BY <1>1, <1>3, <1>10, SeenIs DEF AffectedSkills, UpdateSelects
<1>11. /\ DOMAIN written = affected \cup DOMAIN e.own
       /\ \A v \in affected : written[v] = UpdateSets(stmt, Seen(e, v))
       /\ \A v \in DOMAIN e.own : v \notin affected => written[v] = e.own[v]
  <2>1. PICK new : new = [v \in affected |-> UpdateSets(stmt, VisibleSkill(c, v))]
    OBVIOUS
  <2>2. DOMAIN new = affected /\ \A v \in affected : new[v] = UpdateSets(stmt, Seen(e, v))
    BY <1>1, <2>1, SeenIs
  <2>3. written = LaidOver(new, e.own)
    BY <1>3, <2>1
  <2>4. /\ DOMAIN LaidOver(new, e.own) = DOMAIN new \cup DOMAIN e.own
        /\ \A v \in DOMAIN new : LaidOver(new, e.own)[v] = new[v]
        /\ \A v \in DOMAIN e.own : v \notin DOMAIN new => LaidOver(new, e.own)[v] = e.own[v]
    BY LaidOverIs
  <2> QED BY <2>2, <2>3, <2>4
<1>12. ASSUME NEW v \in affected
       PROVE  /\ SkillStored(written[v]) /\ (ActiveSkill(written[v]) <=> stmt = "promote")
              /\ RowFound(written[v]) \/ (stmt = "remove" /\ v = item)
  <2>1. SkillStored(Seen(e, v))
    BY <1>1, <1>2, <1>10, SeenStored
  <2>2. stmt = "remove" => v = item
    BY <1>10 DEF UpdateSelects
  <2> QED BY <1>8, <1>10, <1>11, <2>1, <2>2, UpdateSetsOK
<1>13. ASSUME NEW v \in SkillVersions
       PROVE  Seen(q, v) = IF v \in affected THEN written[v] ELSE Seen(e, v)
  BY <1>7, <1>11 DEF Seen
<1>14. EditorFit(q)
  BY <1>6, <1>7, <1>8, <1>9 DEF EditorFit
<1>15. TransactionFits(q)
  <2>1. DOMAIN written \subseteq SkillVersions /\ \A v \in DOMAIN written : SkillStored(written[v])
    BY <1>6, <1>10, <1>11, <1>12 DEF TransactionFits
  <2>5. \A v \in DOMAIN written : RowFound(written[v]) \/ (q.pc = "insert" /\ v = item)
    BY <1>2, <1>6, <1>9, <1>11, <1>12 DEF TransactionFits
  <2>2. stmt \in {"demote", "remove", "promote", "others"} => item \in SkillVersions
    BY <1>1, <1>6, <1>8 DEF TransactionFits
  <2>3. ASSUME stmt = "promote", affected # {} PROVE item \in DOMAIN written /\ ActiveSkill(written[item])
    <3>1. PICK v \in affected : TRUE
      BY <2>3
    <3>2. v = item
      BY <1>10, <2>3 DEF UpdateSelects
    <3> QED BY <1>11, <1>12, <2>3, <3>2
  <2>4. ASSUME stmt = "others" PROVE item \in DOMAIN written /\ ActiveSkill(written[item])
    <3>1. item \in DOMAIN e.own /\ ActiveSkill(e.own[item])
      BY <1>1, <1>6, <1>8, <2>4 DEF TransactionFits
    <3>2. item \notin affected
      BY <1>10, <2>4 DEF UpdateSelects
    <3> QED BY <1>11, <3>1, <3>2
  <2> QED BY <1>7, <1>8, <1>9, <2>1, <2>2, <2>3, <2>4, <2>5 DEF TransactionFits
<1>16. Started(e) /\ EditorsOK'
  BY <1>2, <1>1, <1>5, <1>8, <1>14, <1>15, EditorMoves DEF Started
<1>17. ASSUME ~ skillsOverlapped PROVE UndisturbedFits(q)
  <2>1. UndisturbedFits(e)
    BY <1>1, <1>16, <1>17 DEF ResourceInv, SkillsAlone
  <2>2. ASSUME NEW v \in SkillVersions, UpdateSelects(stmt, item, v, Seen(e, v)) PROVE v \in affected
    <3>1. <<v, SkillGen(v)>> \in e.seen
      BY <1>1, <1>2, <2>1, <2>2 DEF UndisturbedFits
    <3> QED BY <1>1, <1>3, <2>2, <3>1, SeenIs DEF AffectedSkills
  <2>3. ASSUME NEW v \in SkillVersions, stmt # "promote", ActiveSkill(Seen(q, v))
        PROVE  ActiveSkill(Seen(e, v)) /\ ~ UpdateSelects(stmt, item, v, Seen(e, v))
    BY <1>12, <1>13, <2>2, <2>3
  <2>4. stmt = "demote" => \A v \in SkillVersions : ~ ActiveSkill(Seen(q, v))
    BY <2>3 DEF ActiveSkill, UpdateSelects
  <2>5. stmt = "remove" => \A v \in SkillVersions : ~ ActiveSkill(Seen(q, v))
    <3>1. stmt = "remove" => \A v \in SkillVersions : ~ ActiveSkill(Seen(e, v))
      BY <1>8, <2>1 DEF UndisturbedFits
    <3> QED BY <2>3, <3>1
  <2>6. stmt = "delete_all" => \A v \in SkillVersions : ~ ActiveSkill(Seen(q, v))
    BY <2>3 DEF ActiveSkill, UpdateSelects
  <2>7. stmt = "others" => \A v \in SkillVersions : v # item => ~ ActiveSkill(Seen(q, v))
    BY <2>3 DEF ActiveSkill, UpdateSelects
  <2> QED BY <1>7, <1>8, <1>9, <2>4, <2>5, <2>6, <2>7 DEF UndisturbedFits
<1>18. SkillsOK' /\ SkillsAlone'
  BY <1>1, <1>2, <1>5, <1>16, <1>17, SkillsKept
<1> QED BY <1>2, <1>16, <1>18, AssetsKept DEF ResourceInv

LEMMA InsertKeeps ==
  ASSUME ResourceInv, NEW c \in ResourceCallers, InsertSkill(c)
  PROVE  ResourceInv'
<1>1. editor[c].pc = "insert" /\ keepSkills /\ keepAssets
  BY DEF InsertSkill, EditorAt
<1>2. PICK e, v, new : /\ e = editor[c] /\ v = e.item
                       /\ new = [version |-> e.version, status |-> "stable", card |-> "enabled", gen |-> SkillGen(v) + 1]
  OBVIOUS
<1>3. PICK written : written = LaidOver([w \in {v} |-> new], e.own)
  OBVIOUS
<1>4. PICK q : q = [e EXCEPT !.pc = "commit", !.own = written]
  OBVIOUS
<1>5. EditorFields \subseteq DOMAIN e /\ EditorFit(e) /\ TransactionFits(e)
  BY <1>1, <1>2, EditorHas
<1>6. EditorAnswer(c) \/ EditorGoes(c, q)
  BY <1>2, <1>3, <1>4, <1>5, Zenon DEF InsertSkill, EditorFields
<1>7. CASE EditorGoes(c, q)
  <2>1. /\ EditorFields \subseteq DOMAIN q /\ q.pc = "commit" /\ q.then = e.then /\ q.item = v
        /\ q.server = e.server /\ q.version = e.version /\ q.own = written
    BY <1>2, <1>4, <1>5, Zenon DEF EditorFields
  <2>2. v \in SkillVersions /\ e.then = "remove" /\ e.version \in GivenVersions /\ StatementOf(e) = "insert"
    BY <1>1, <1>2, <1>5 DEF TransactionFits, EditorFit, StatementOf
  <2>3. /\ DOMAIN written = {v} \cup DOMAIN e.own /\ written[v] = new
        /\ \A w \in DOMAIN e.own : w # v => written[w] = e.own[w]
    <3>1. PICK laid : laid = [w \in {v} |-> new]
      OBVIOUS
    <3>2. DOMAIN laid = {v} /\ laid[v] = new
      BY <3>1
    <3>3. /\ DOMAIN LaidOver(laid, e.own) = DOMAIN laid \cup DOMAIN e.own
          /\ \A w \in DOMAIN laid : LaidOver(laid, e.own)[w] = laid[w]
          /\ \A w \in DOMAIN e.own : w \notin DOMAIN laid => LaidOver(laid, e.own)[w] = e.own[w]
      BY LaidOverIs
    <3>4. written = LaidOver(laid, e.own)
      BY <1>3, <3>1
    <3> QED BY <3>2, <3>3, <3>4
  <2>4. SkillStored(new) /\ ActiveSkill(new)
    BY <1>2, <2>2, ResourceAssumption DEF SkillStored, ActiveSkill, RowFound, GivenVersions
  <2>5. EditorFit(q)
    BY <1>5, <2>1 DEF EditorFit
  <2>6. TransactionFits(q)
    <3>1. DOMAIN written \subseteq SkillVersions /\ \A w \in DOMAIN written : SkillStored(written[w])
      BY <1>5, <2>2, <2>3, <2>4 DEF TransactionFits
    <3>2. StatementOf(q) = "commit"
      BY <2>1 DEF StatementOf
    <3>3. \A w \in DOMAIN written : RowFound(written[w])
      BY <1>2, <1>5, <2>3, <2>4 DEF TransactionFits, ActiveSkill
    <3> QED BY <2>1, <2>2, <2>3, <2>4, <3>1, <3>2, <3>3 DEF TransactionFits
  <2>7. Started(e)
    BY <1>1, <1>2, <2>2 DEF Started
  <2>8. ASSUME ~ skillsOverlapped PROVE UndisturbedFits(q)
    <3>1. UndisturbedFits(e)
      BY <1>2, <2>7, <2>8 DEF ResourceInv, SkillsAlone
    <3>2. \A w \in SkillVersions : ~ ActiveSkill(Seen(e, w))
      BY <2>2, <3>1 DEF UndisturbedFits
    <3>3. \A w \in SkillVersions : w # v => Seen(q, w) = Seen(e, w)
      BY <2>1, <2>3 DEF Seen
    <3> QED BY <2>1, <2>2, <3>2, <3>3 DEF UndisturbedFits, StatementOf
  <2>9. SkillsOK' /\ SkillsAlone' /\ EditorsOK'
    BY <1>1, <1>2, <1>7, <2>5, <2>6, <2>7, <2>8, SkillsKept, EditorMoves
  <2> QED BY <1>1, <2>9, AssetsKept DEF ResourceInv
<1> QED BY <1>1, <1>6, <1>7, EditorEnds, AssetsKept DEF ResourceInv

LEMMA CommitKeeps ==
  ASSUME ResourceInv, NEW c \in ResourceCallers, CommitSkills(c)
  PROVE  ResourceInv'
<1>1. PICK e : e = editor[c]
  OBVIOUS
<1>2. /\ e.pc = "commit" /\ keepAssets /\ UNCHANGED skillsOverlapped /\ EditorGoes(c, IdleEditor) /\ IdleEditor.pc = "idle"
      /\ lastSkillWrite' = IF e.then = "delete_all" THEN "deleted" ELSE "activated"
      /\ skillRow' = [v \in SkillVersions |-> Seen(e, v)]
  BY <1>1, SeenIs DEF CommitSkills, EditorAt, EditorAnswer, IdleEditor
<1>3. TransactionFits(e) /\ \A v \in SkillVersions : SkillStored(Seen(e, v))
  BY <1>1, <1>2, EditorHas, SeenStored
<1>4. EditorsOK' /\ AssetsOK'
  BY <1>2, EditorMoves, AssetsKept
<1>5. \A v \in SkillVersions : skillRow'[v] = Seen(e, v)
  BY <1>2
<1>6. SkillsOK'
  <2>1. e.then # "delete_all" => \E v \in SkillVersions : ActiveSkill(skillRow'[v])
    BY <1>2, <1>3, <1>5 DEF TransactionFits, Seen
  <2>2. /\ skillRow' = [v \in SkillVersions |-> skillRow'[v]] /\ \A v \in SkillVersions : SkillStored(skillRow'[v])
        /\ lastSkillWrite' = "activated" => e.then # "delete_all"
    BY <1>2, <1>3, <1>5
  <2> QED BY <2>1, <2>2 DEF SkillsOK
<1>7. SkillsAlone'
  <2>1. SUFFICES ASSUME ~ skillsOverlapped
                 PROVE  /\ \A d \in ResourceCallers : ~ Started(editor'[d])
                        /\ \A v, w \in SkillVersions : ActiveSkill(skillRow'[v]) /\ ActiveSkill(skillRow'[w]) => v = w
    BY <1>2 DEF SkillsAlone, Started
  <2>2. Started(e)
    BY <1>2, <1>3 DEF TransactionFits, Started
  <2>3. UndisturbedFits(e) /\ \A d \in ResourceCallers : Started(editor[d]) => d = c
    BY <1>1, <2>1, <2>2 DEF ResourceInv, SkillsAlone
  <2>4. editor'[c] = IdleEditor /\ \A d \in ResourceCallers : d # c => editor'[d] = editor[d]
    BY <1>2 DEF ResourceInv, EditorsOK, EditorGoes
  <2>5. \A d \in ResourceCallers : ~ Started(editor'[d])
    BY <1>2, <2>3, <2>4 DEF Started
  <2>6. \A v, w \in SkillVersions : ActiveSkill(Seen(e, v)) /\ ActiveSkill(Seen(e, w)) => v = w
    BY <1>2, <2>3 DEF UndisturbedFits
  <2> QED BY <1>5, <2>5, <2>6
<1> QED BY <1>4, <1>6, <1>7 DEF ResourceInv

LEMMA LookupKeeps ==
  ASSUME ResourceInv, NEW c \in ResourceCallers, ActivateSkillLooksUp(c)
  PROVE  ResourceInv'
<1>1. editor[c].pc = "lookup" /\ keepSkills /\ keepAssets
  BY DEF ActivateSkillLooksUp, EditorAt
<1>2. PICK e, version : e = editor[c] /\ version = standaloneAgentSubresourceVersion(e.server, "")
  OBVIOUS
<1>3. PICK q : q = [e EXCEPT !.pc = "demote", !.own = <<>>, !.version = version]
  OBVIOUS
<1>4. EditorAnswer(c) \/ EditorGoes(c, q)
  BY <1>2, <1>3 DEF ActivateSkillLooksUp
<1>5. CASE EditorGoes(c, q)
  <2>1. EditorFields \subseteq DOMAIN e /\ EditorFit(e) /\ TransactionFits(e)
    BY <1>1, <1>2, EditorHas
  <2>2. /\ EditorFields \subseteq DOMAIN q /\ q.pc = "demote" /\ q.then = e.then /\ q.item = e.item
        /\ q.server = e.server /\ q.version = version /\ q.own = <<>>
    BY <1>3, <2>1, Zenon DEF EditorFields
  <2>3. version \in GivenVersions
    BY <1>2, <2>1, VersionGiven DEF EditorFit, GivenVersions
  <2>4. EditorFit(q)
    BY <2>1, <2>2, <2>3 DEF EditorFit
  <2>5. DOMAIN q.own = {}
    <3>1. <<>> \in Seq(SkillVersions) /\ Len(<<>>) = 0
      OBVIOUS
    <3>2. DOMAIN <<>> = 1 .. 0
      BY <3>1
    <3>3. 1 .. 0 = {}
      OBVIOUS
    <3> QED BY <2>2, <3>2, <3>3
  <2>6. TransactionFits(q)
    <3>1. StatementOf(q) = "demote" /\ StatementOf(e) = "lookup"
      BY <1>1, <1>2, <2>2 DEF StatementOf
    <3> QED BY <2>1, <2>2, <2>5, <3>1 DEF TransactionFits
  <2>7. Started(e) /\ UndisturbedFits(q)
    BY <1>1, <1>2, <2>1, <2>2, QuietFits DEF TransactionFits, Started, QuietPCs
  <2>8. SkillsOK' /\ SkillsAlone' /\ EditorsOK'
    BY <1>1, <1>2, <1>5, <2>4, <2>6, <2>7, SkillsKept, EditorMoves
  <2> QED BY <1>1, <2>8, AssetsKept DEF ResourceInv
<1> QED BY <1>1, <1>4, <1>5, EditorEnds, AssetsKept DEF ResourceInv

-----------------------------------------------------------------------------
(* The invariant and the theorems                                          *)

LEMMA ResourceStart == ResourceInit => ResourceInv
<1>1. SUFFICES ASSUME ResourceInit PROVE ResourceInv
  OBVIOUS
<1>2. PICK init \in InitialResources :
        skillRow = init.skills /\ assetRow = init.asset /\ registryDefault = [s \in ResourceServers |-> init.default]
  BY <1>1 DEF ResourceInit
<1>3. /\ editor = [c \in ResourceCallers |-> IdleEditor] /\ IdleEditor.pc = "idle"
      /\ assetMem = [s \in ResourceServers |-> AbsentRow]
      /\ lastSkillWrite = IF \E v \in SkillVersions : ActiveSkill(skillRow[v]) THEN "activated" ELSE "none"
  BY <1>1 DEF ResourceInit, IdleEditor
<1>4. /\ skillRow = [v \in SkillVersions |-> skillRow[v]] /\ \A v \in SkillVersions : SkillStored(skillRow[v])
      /\ \A v, w \in SkillVersions : ActiveSkill(skillRow[v]) /\ ActiveSkill(skillRow[w]) => v = w
      /\ AssetStored(assetRow) /\ init.default \in GivenVersions
  BY <1>2, ResourceAssumption
<1>5. AssetStored(AbsentRow)
  BY DEF AssetStored, AbsentRow, RowFound
<1>6. EditorsOK
  BY <1>3 DEF EditorsOK
<1>7. AssetsOK
  BY <1>2, <1>3, <1>4, <1>5 DEF AssetsOK
<1>8. SkillsOK
  BY <1>3, <1>4 DEF SkillsOK
<1>9. SkillsAlone
  BY <1>3, <1>4 DEF SkillsAlone, Started
<1> QED BY <1>6, <1>7, <1>8, <1>9 DEF ResourceInv

LEMMA ResourceStays ==
  ASSUME ResourceInv, UNCHANGED resourceVars
  PROVE  ResourceInv'
<1>1. keepSkills /\ keepAssets /\ UNCHANGED editor
  BY DEF resourceVars, keepSkills, keepAssets
<1>2. UNCHANGED <<skillRow, lastSkillWrite, skillsOverlapped>>
  BY <1>1 DEF keepSkills
<1>3. EditorsOK'
  BY <1>1 DEF ResourceInv, EditorsOK, EditorFit, TransactionFits, StatementOf
<1>4. SkillsOK'
  BY <1>2 DEF ResourceInv, SkillsOK
<1>5. SkillsAlone'
  BY <1>1, <1>2 DEF ResourceInv, SkillsAlone, Started, UndisturbedFits, StatementOf, Seen, SkillGen
<1> QED BY <1>1, <1>3, <1>4, <1>5, AssetsKept DEF ResourceInv

LEMMA EditorStepKeeps ==
  ASSUME ResourceInv, NEW c \in ResourceCallers, EditorStep(c)
  PROVE  ResourceInv'
<1>1. CASE \/ handleAgentPromptProfile(c) \/ handleAgentToolBindings(c) \/ handleAgentCollaborators(c)
           \/ handleAgentExportedTools(c) \/ handleAgentResourceDelete(c)
  BY <1>1, ResourceRequestsBegin
<1>2. CASE upsertStandalonePromptProfile(c)
  BY <1>2, PromptStepKeeps
<1>3. CASE \/ UpsertPromptProfileProjection(c) \/ UpsertToolBindingProjection(c) \/ UpsertCollaboratorProjection(c)
           \/ UpsertExportedToolProjection(c) \/ DeleteActivePromptProfileProjection(c)
           \/ DeleteActiveToolBindingProjection(c) \/ DeleteActiveCollaboratorProjection(c)
           \/ DeleteActiveExportedToolProjection(c) \/ SyncExportManifest(c) \/ ResourceStoreFails(c)
  BY <1>3, RowStepsKeep
<1>4. CASE handleAgentSkills(c) \/ handleSkillResource(c)
  BY <1>4, SkillRequestsBegin
<1>5. CASE SkillStatement(c)
  BY <1>5, StatementBegins
<1>6. CASE SkillStatementEnds(c)
  BY <1>6, StatementEnds
<1>7. CASE InsertSkill(c)
  BY <1>7, InsertKeeps
<1>8. CASE CommitSkills(c)
  BY <1>8, CommitKeeps
<1>9. CASE ActivateSkillLooksUp(c)
  BY <1>9, LookupKeeps
<1>10. CASE \/ handleAgentCreate(c) \/ handleAgentPatch(c) \/ handleAgentPatchVersion(c) \/ handleAgentDelete(c)
            \/ activateStableAgentVersion(c) \/ activateAgentSkillVersion(c)
  BY <1>10, AssetRequestsBegin
<1>11. CASE CreateAgentAssetForTenant(c)
  BY <1>11, CreateAssetKeeps
<1>12. CASE PatchAgentAssetForTenant(c)
  BY <1>12, PatchAssetKeeps
<1>13. CASE EnsureAgentAssetVersionForTenant(c)
  BY <1>13, EnsureAssetKeeps
<1>14. CASE saveAgentAsset(c)
  BY <1>14, SaveAssetKeeps
<1>15. CASE SetDefaultForTenant(c)
  BY <1>15, SetDefaultKeeps
<1> QED BY <1>1, <1>2, <1>3, <1>4, <1>5, <1>6, <1>7, <1>8, <1>9, <1>10, <1>11, <1>12, <1>13, <1>14, <1>15 DEF EditorStep

LEMMA ResourceInvariant == ResourceSpec => []ResourceInv
<1>1. ASSUME ResourceInv, [ResourceNext]_resourceVars PROVE ResourceInv'
  <2>1. CASE UpdateReleaseStatus
    BY <1>1, <2>1, ReleaseStatusKeeps
  <2>2. CASE \E c \in ResourceCallers : EditorStep(c)
    BY <1>1, <2>2, EditorStepKeeps
  <2>3. CASE UNCHANGED resourceVars
    BY <1>1, <2>3, ResourceStays
  <2> QED BY <1>1, <2>1, <2>2, <2>3 DEF ResourceNext
<1> QED BY <1>1, ResourceStart, PTL DEF ResourceSpec

\* Once a version of a skill was published or activated the skill has an active version until
\* it is deleted, and only one while its changes do not run at the same time: for any number
\* of servers, requests and versions (UpsertSkillDefinitionProjection,
\* ActivateSkillDefinitionProjection).
THEOREM SkillStaysActiveHolds == ResourceSpec => []SkillStaysActive
<1>1. ASSUME ResourceInv PROVE SkillStaysActive
  <2>1. PICK active : active = ListActiveSkillDefinitionProjections
    OBVIOUS
  <2>2. lastSkillWrite = "activated" => active # {}
    BY <1>1, <2>1 DEF ResourceInv, SkillsOK, ListActiveSkillDefinitionProjections
  <2>3. ASSUME ~ skillsOverlapped PROVE Cardinality(active) <= 1
    <3>1. \A v, w \in active : v = w
      BY <1>1, <2>1, <2>3 DEF ResourceInv, SkillsAlone, ListActiveSkillDefinitionProjections
    <3>2. CASE active = {}
      BY <3>2, FS_EmptySet
    <3>3. CASE active # {}
      <4>1. PICK v \in active : TRUE
        BY <3>3
      <4>2. active = {v}
        BY <3>1, <4>1
      <4> QED BY <4>2, FS_Singleton
    <3> QED BY <3>2, <3>3
  <2> QED BY <2>1, <2>2, <2>3 DEF SkillStaysActive
<1> QED BY <1>1, ResourceInvariant, PTL

\* No step loses a stored version of the skill, for any number of servers, requests and
\* versions: what a transaction removes it has inserted again when it commits, whatever others
\* did between its statements (UpsertSkillDefinitionProjection, CommitSkills).
THEOREM SkillVersionsKeptHolds == ResourceSpec => SkillVersionsKept
<1> DEFINE Kept == \A v \in SkillVersions : RowFound(skillRow[v]) => RowFound(skillRow'[v])
<1>1. ASSUME ResourceInv, [ResourceNext]_resourceVars PROVE Kept
  <2>1. CASE UNCHANGED skillRow
    BY <2>1
  <2>2. ASSUME NEW c \in ResourceCallers, CommitSkills(c) PROVE Kept
    <3>1. PICK e : e = editor[c]
      OBVIOUS
    <3>2. e.pc = "commit" /\ skillRow' = [v \in SkillVersions |-> Seen(e, v)]
      BY <2>2, <3>1, SeenIs DEF CommitSkills, EditorAt
    <3>3. \A v \in DOMAIN e.own : RowFound(e.own[v])
      BY <1>1, <3>1, <3>2, EditorHas DEF TransactionFits
    <3> QED BY <3>2, <3>3 DEF Seen
  <2>3. ASSUME NEW c \in ResourceCallers, EditorStep(c), ~ CommitSkills(c) PROVE UNCHANGED skillRow
    <3>1. CASE \/ handleAgentPromptProfile(c) \/ handleAgentToolBindings(c) \/ handleAgentCollaborators(c)
               \/ handleAgentExportedTools(c) \/ handleAgentResourceDelete(c) \/ handleAgentSkills(c)
               \/ handleSkillResource(c) \/ handleAgentCreate(c) \/ handleAgentPatch(c) \/ handleAgentPatchVersion(c)
               \/ handleAgentDelete(c) \/ activateStableAgentVersion(c) \/ activateAgentSkillVersion(c)
      <4>1. ASSUME NEW s, NEW pc, NEW kind, NEW version, NEW item, EditorBegins(c, s, pc, kind, version, item)
            PROVE  UNCHANGED skillRow
        BY <4>1 DEF EditorBegins, keepSkills
      <4> QED BY <3>1, <4>1 DEF handleAgentPromptProfile, handleAgentToolBindings, handleAgentCollaborators,
                handleAgentExportedTools, handleAgentResourceDelete, handleAgentSkills, handleSkillResource,
                upsertAgentSkill, activateSkillDefinitionVersion, deleteAgentSkill, upsertGlobalSkill, deleteGlobalSkill,
                UpsertSkillDefinitionProjection, ActivateSkillDefinitionProjection, DeleteActiveSkillDefinitionProjection,
                handleAgentCreate, handleAgentPatch, handleAgentPatchVersion, handleAgentDelete,
                activateStableAgentVersion, activateAgentSkillVersion
    <3>2. CASE \/ UpsertPromptProfileProjection(c) \/ UpsertToolBindingProjection(c) \/ UpsertCollaboratorProjection(c)
               \/ UpsertExportedToolProjection(c) \/ DeleteActivePromptProfileProjection(c)
               \/ DeleteActiveToolBindingProjection(c) \/ DeleteActiveCollaboratorProjection(c)
               \/ DeleteActiveExportedToolProjection(c)
      BY <3>2 DEF UpsertPromptProfileProjection, UpsertToolBindingProjection, UpsertCollaboratorProjection,
            UpsertExportedToolProjection, DeleteActivePromptProfileProjection, DeleteActiveToolBindingProjection,
            DeleteActiveCollaboratorProjection, DeleteActiveExportedToolProjection, keepAllButRow, keepSkills
    <3>3. CASE \/ upsertStandalonePromptProfile(c) \/ SyncExportManifest(c) \/ SkillStatement(c)
               \/ SkillStatementEnds(c) \/ InsertSkill(c) \/ ActivateSkillLooksUp(c) \/ ResourceStoreFails(c)
      BY <3>3 DEF upsertStandalonePromptProfile, SyncExportManifest, SkillStatement, SkillStatementEnds, InsertSkill,
            ActivateSkillLooksUp, ResourceStoreFails, keepSkills
    <3>4. CASE \/ CreateAgentAssetForTenant(c) \/ PatchAgentAssetForTenant(c) \/ EnsureAgentAssetVersionForTenant(c)
               \/ saveAgentAsset(c) \/ SetDefaultForTenant(c)
      BY <3>4 DEF CreateAgentAssetForTenant, PatchAgentAssetForTenant, EnsureAgentAssetVersionForTenant,
            saveAgentAsset, SetDefaultForTenant, keepSkills
    <3> QED BY <2>3, <3>1, <3>2, <3>3, <3>4 DEF EditorStep
  <2>4. CASE UpdateReleaseStatus \/ UNCHANGED resourceVars
    BY <2>1, <2>4 DEF UpdateReleaseStatus, keepSkills, resourceVars
  <2> QED BY <1>1, <2>1, <2>2, <2>3, <2>4 DEF ResourceNext
<1>2. ASSUME ResourceInv, [ResourceNext]_resourceVars PROVE [Kept]_resourceVars
  BY <1>1, <1>2
<1> QED BY <1>2, ResourceInvariant, PTL DEF ResourceSpec, SkillVersionsKept

=============================================================================
