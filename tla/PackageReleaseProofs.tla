------------------------ MODULE PackageReleaseProofs ------------------------
(***************************************************************************)
(* Proofs about PackageRelease, for any number of versions, handlers and   *)
(* approvals, any release policies, failing store calls and restarts.      *)
(***************************************************************************)
EXTENDS PackageRelease, TLAPS

\* What an evaluation leaves behind, in the map or in the store, was passed by it.
EvaluationsKnown ==
  \A v \in Versions :
    v \in evalPass \/ release[v] = "evaluated" \/ stored[v] = "evaluated" => verdict[v] # "never"

ReleasesOK ==
  /\ release \in [Versions -> Statuses \cup {"absent"}]
  /\ stored \in [Versions -> Statuses \cup {"absent"}]
  /\ evalPass \subseteq Versions
  /\ verdict \in [Versions -> {"never", "passed", "stale"}]
  /\ gate \subseteq {"stale"}
  /\ EvaluationsKnown

\* An approval that can still be used has let nothing pass.
ApprovalsOK ==
  /\ approvals \in [Approvals -> ApprovalRows]
  /\ spent \in [Approvals -> {0, 1}]
  /\ \A a \in Approvals : approvals[a].status \in {"unsent", "pending", "approved"} => spent[a] = 0

\* A handler that is past the check of MarkStable has seen that its version was evaluated.
LocalsOK(r) ==
  /\ r.pc # "idle" => r.v \in Versions
  /\ r.pc \in {"check", "consume"} => r.command \in Commands
  /\ r.pc = "consume" => r.approval \in Approvals
  /\ r.pc = "active" => r.command = "rollback"
  /\ r.pc \in {"mark", "relocked"} /\ r.command = "stable" => verdict[r.v] # "never"

HandlersOK ==
  /\ handler \in [Handlers -> HandlerStates]
  /\ \A h \in Handlers : LocalsOK(handler[h])

AssetsOK ==
  /\ published \in Seq(Versions)
  /\ asset \in Versions \cup {None} /\ storedAsset \in Versions \cup {None}
  /\ default \in Versions \cup {None}
  /\ registered \subseteq Versions
  /\ releasePolicy \in ReleasePolicies
  /\ failures \in 0..MaxFailures
  /\ restarts \in 0..MaxRestarts

RelInv == ReleasesOK /\ ApprovalsOK /\ HandlersOK /\ AssetsOK

\* An evaluation that has been seen is not forgotten.
VerdictKept == \A v \in Versions : verdict[v] # "never" => verdict'[v] # "never"

-----------------------------------------------------------------------------
(* Steps of a handler                                                      *)

LEMMA HandlerFacts ==
  ASSUME RelInv, NEW h \in Handlers
  PROVE  /\ handler[h] \in HandlerStates /\ LocalsOK(handler[h])
         /\ handler[h].pc # "idle" => handler[h].v \in Versions
         /\ handler[h].command \in Commands \cup {"none", "publish", "activate", "eval"}
<1>1. handler[h] \in HandlerStates /\ LocalsOK(handler[h])
  BY DEF RelInv, HandlersOK
<1> QED BY <1>1 DEF HandlerStates, LocalsOK

LEMMA HandlerMoves ==
  ASSUME RelInv, NEW h \in Handlers, NEW r \in HandlerStates, handler' = [handler EXCEPT ![h] = r],
         LocalsOK(r)', VerdictKept
  PROVE  HandlersOK'
<1>1. /\ handler' \in [Handlers -> HandlerStates]
      /\ \A g \in Handlers : handler'[g] = IF g = h THEN r ELSE handler[g]
  BY DEF RelInv, HandlersOK
<1>2. ASSUME NEW g \in Handlers PROVE LocalsOK(handler[g])'
  <2>1. CASE g = h
    BY <1>1, <2>1 DEF LocalsOK
  <2>2. CASE g # h
    <3>1. PICK u : u = handler[g]
      OBVIOUS
    <3>2. LocalsOK(u)
      BY <3>1, HandlerFacts
    <3>3. LocalsOK(u)'
      BY <3>2 DEF LocalsOK, VerdictKept
    <3> QED BY <1>1, <2>2, <3>1, <3>3 DEF LocalsOK
  <2> QED BY <2>1, <2>2
<1> QED BY <1>1, <1>2 DEF HandlersOK

LEMMA HandlersStay ==
  ASSUME RelInv, UNCHANGED handler, VerdictKept
  PROVE  HandlersOK'
<1>1. ASSUME NEW g \in Handlers PROVE LocalsOK(handler[g])'
  <2>1. PICK u : u = handler[g]
    OBVIOUS
  <2>2. LocalsOK(u)
    BY <2>1, HandlerFacts
  <2>3. LocalsOK(u)'
    BY <2>2 DEF LocalsOK, VerdictKept
  <2> QED BY <2>1, <2>3 DEF LocalsOK
<1> QED BY <1>1 DEF RelInv, HandlersOK

LEMMA RequestFacts ==
  ASSUME NEW pc \in HandlerPCs, NEW v \in Versions \cup {None},
         NEW command \in Commands \cup {"none", "publish", "activate", "eval"}
  PROVE  /\ Request(pc, command, v) \in HandlerStates
         /\ Request(pc, command, v).pc = pc /\ Request(pc, command, v).command = command
         /\ Request(pc, command, v).v = v
BY DEF Request, HandlerStates

LEMMA ReturnMove ==
  ASSUME RelInv, NEW h \in Handlers, Return(h), VerdictKept
  PROVE  HandlersOK'
<1>1. Idle \in HandlerStates /\ Idle.pc = "idle"
  BY DEF Idle, Request, HandlerStates, HandlerPCs
<1>2. LocalsOK(Idle)'
  BY <1>1 DEF LocalsOK
<1> QED BY <1>1, <1>2, HandlerMoves DEF Return

\* A request whose locals are fresh.
LEMMA RequestMove ==
  ASSUME RelInv, NEW h \in Handlers, NEW pc \in HandlerPCs, NEW v \in Versions,
         NEW command \in Commands \cup {"none", "publish", "activate", "eval"},
         handler' = [handler EXCEPT ![h] = Request(pc, command, v)], VerdictKept,
         pc \notin {"check", "consume", "relocked"},
         pc = "active" => command = "rollback", pc = "mark" => command # "stable"
  PROVE  HandlersOK'
<1>1. PICK r : r = Request(pc, command, v)
  OBVIOUS
<1>2. r \in HandlerStates /\ r.pc = pc /\ r.command = command /\ r.v = v
  BY <1>1, RequestFacts
<1>3. LocalsOK(r)'
  BY <1>2 DEF LocalsOK
<1> QED BY <1>1, <1>2, <1>3, HandlerMoves

LEMMA GotoMove ==
  ASSUME RelInv, NEW h \in Handlers, handler[h].pc # "idle", NEW pc \in HandlerPCs, Goto(h, pc),
         VerdictKept, pc \notin {"check", "active", "relocked"},
         pc = "consume" => handler[h].command \in Commands /\ handler[h].approval \in Approvals,
         pc = "mark" /\ handler[h].command = "stable" => verdict[handler[h].v] # "never"
  PROVE  HandlersOK'
<1>1. PICK u : u = handler[h]
  OBVIOUS
<1>2. u \in HandlerStates /\ LocalsOK(u) /\ u.v \in Versions
  BY <1>1, HandlerFacts
<1>3. PICK r : r = [u EXCEPT !.pc = pc]
  OBVIOUS
<1>4. /\ r \in HandlerStates /\ r.pc = pc /\ r.command = u.command /\ r.v = u.v
      /\ r.approval = u.approval
  BY <1>2, <1>3 DEF HandlerStates
<1>5. handler' = [handler EXCEPT ![h] = r]
  BY <1>1, <1>3 DEF Goto
<1>6. LocalsOK(r)'
  BY <1>1, <1>2, <1>4 DEF LocalsOK, VerdictKept
<1> QED BY <1>4, <1>5, <1>6, HandlerMoves

LEMMA NotMarkedMove ==
  ASSUME RelInv, NEW h \in Handlers, handler[h].pc # "idle", NotMarked(h), VerdictKept
  PROVE  HandlersOK'
<1>1. "undoAsset" \in HandlerPCs
  BY DEF HandlerPCs
<1>2. CASE Goto(h, "undoAsset")
  BY <1>1, <1>2, GotoMove
<1> QED BY <1>2, ReturnMove DEF NotMarked

\* The command begins, once approval and policy are done with.
LEMMA PerformMove ==
  ASSUME RelInv, NEW h \in Handlers, handler[h].pc \in {"check", "consume"}, Perform(h), VerdictKept
  PROVE  HandlersOK'
<1>1. PICK r : r = handler[h]
  OBVIOUS
<1>2. r.command \in Commands /\ r.v \in Versions
  BY <1>1, HandlerFacts DEF LocalsOK
<1>3. PICK pc : pc = CASE r.command = "canary"   -> "mark"
                       [] r.command = "stable"   -> "passed"
                       [] r.command = "rollback" -> "active"
  OBVIOUS
<1>4. \/ pc = "mark" /\ r.command = "canary"
      \/ pc = "passed"
      \/ pc = "active" /\ r.command = "rollback"
  BY <1>2, <1>3 DEF Commands
<1>5. pc \in HandlerPCs
  BY <1>4 DEF HandlerPCs
<1>6. handler' = [handler EXCEPT ![h] = Request(pc, r.command, r.v)]
  BY <1>1, <1>3 DEF Perform
<1> QED BY <1>2, <1>4, <1>5, <1>6, RequestMove

-----------------------------------------------------------------------------
(* The parts of the state a step leaves alone                              *)

LEMMA ReleasesStay ==
  ASSUME RelInv, UNCHANGED <<release, stored, evalPass, verdict, gate>>
  PROVE  ReleasesOK' /\ VerdictKept
BY DEF RelInv, ReleasesOK, EvaluationsKnown, VerdictKept

LEMMA ApprovalsStay ==
  ASSUME RelInv, UNCHANGED <<approvals, spent>>
  PROVE  ApprovalsOK'
BY DEF RelInv, ApprovalsOK

LEMMA StoreCallFacts ==
  ASSUME RelInv, NEW ok \in BOOLEAN, StoreCall(ok)
  PROVE  failures' \in 0..MaxFailures
BY PackageReleaseAssumption DEF RelInv, AssetsOK, StoreCall

LEMMA AssetsStay ==
  ASSUME RelInv, UNCHANGED <<published, asset, storedAsset, default, registered, releasePolicy, restarts>>,
         failures' \in 0..MaxFailures
  PROVE  AssetsOK'
BY DEF RelInv, AssetsOK

\* A step of a handler that writes no release and no approval.
LEMMA QuietStep ==
  ASSUME RelInv, UNCHANGED <<memory, store, approvals, releasePolicy, restarts, history>>,
         failures' \in 0..MaxFailures, VerdictKept => HandlersOK'
  PROVE  RelInv'
<1>1. /\ UNCHANGED <<release, stored, evalPass, verdict, gate>> /\ UNCHANGED <<approvals, spent>>
      /\ UNCHANGED <<published, asset, storedAsset, default, registered, releasePolicy, restarts>>
  BY DEF memory, store, history
<1> QED BY <1>1, ReleasesStay, ApprovalsStay, AssetsStay DEF RelInv

\* One release is given a status other than "evaluated", in the map, in the store or in both.
LEMMA StatusWrite ==
  ASSUME RelInv, NEW v \in Versions, NEW status \in Statuses, status # "evaluated",
         release' = release \/ release' = [release EXCEPT ![v] = status],
         stored' = stored \/ stored' = [stored EXCEPT ![v] = status],
         gate' \subseteq {"stale"}, UNCHANGED <<evalPass, verdict>>
  PROVE  ReleasesOK' /\ VerdictKept
<1>1. /\ release \in [Versions -> Statuses \cup {"absent"}]
      /\ stored \in [Versions -> Statuses \cup {"absent"}]
      /\ evalPass \subseteq Versions /\ verdict \in [Versions -> {"never", "passed", "stale"}]
      /\ EvaluationsKnown
  BY DEF RelInv, ReleasesOK
<1>2. /\ release' \in [Versions -> Statuses \cup {"absent"}]
      /\ \A w \in Versions : release'[w] = "evaluated" => release[w] = "evaluated"
  BY <1>1
<1>3. /\ stored' \in [Versions -> Statuses \cup {"absent"}]
      /\ \A w \in Versions : stored'[w] = "evaluated" => stored[w] = "evaluated"
  BY <1>1
<1>4. EvaluationsKnown'
  BY <1>1, <1>2, <1>3 DEF EvaluationsKnown
<1> QED BY <1>1, <1>2, <1>3, <1>4 DEF ReleasesOK, VerdictKept

LEMMA GateFacts == ASSUME RelInv PROVE gate \subseteq {"stale"}
BY DEF RelInv, ReleasesOK

-----------------------------------------------------------------------------
(* The actions                                                             *)

LEMMA InitRelInv == Init => RelInv
<1> SUFFICES ASSUME Init PROVE RelInv
  OBVIOUS
<1>1. ReleasesOK
  BY DEF Init, ReleasesOK, EvaluationsKnown
<1>2. ApprovalsOK
  <2>1. Unsent \in ApprovalRows
    BY DEF Unsent, Closed, ApprovalRows
  <2> QED BY <2>1 DEF Init, ApprovalsOK
<1>3. HandlersOK
  <2>1. Idle \in HandlerStates /\ Idle.pc = "idle"
    BY DEF Idle, Request, HandlerStates, HandlerPCs
  <2> QED BY <2>1 DEF Init, HandlersOK, LocalsOK
<1>4. AssetsOK
  BY PackageReleaseAssumption DEF Init, AssetsOK
<1> QED BY <1>1, <1>2, <1>3, <1>4 DEF RelInv

LEMMA PublishStep ==
  ASSUME RelInv, UNCHANGED releasePolicy, NEW h \in Handlers, NEW v \in Versions, PublishDraft(h, v)
  PROVE  RelInv'
<1>1. PICK ok \in BOOLEAN, saved \in BOOLEAN :
        /\ StoreCall(ok)
        /\ stored' = IF saved THEN [stored EXCEPT ![v] = "published"] ELSE stored
        /\ Arrive(h, IF ok THEN Request("register", "publish", v) ELSE Idle)
  BY DEF PublishDraft
<1>2. ReleasesOK' /\ VerdictKept
  <2>1. "published" \in Statuses
    BY DEF Statuses
  <2> QED BY <1>1, <2>1, StatusWrite, GateFacts DEF PublishDraft
<1>3. ApprovalsOK'
  BY ApprovalsStay DEF PublishDraft
<1>4. HandlersOK'
  <2>1. CASE ok
    <3>1. handler' = [handler EXCEPT ![h] = Request("register", "publish", v)]
      BY <1>1, <2>1 DEF Arrive
    <3>2. "register" \in HandlerPCs
      BY DEF HandlerPCs
    <3> QED BY <1>2, <3>1, <3>2, RequestMove
  <2>2. CASE ~ok
    <3>1. Return(h)
      BY <1>1, <2>2 DEF Arrive, Return
    <3> QED BY <1>2, <3>1, ReturnMove
  <2> QED BY <2>1, <2>2
<1>5. AssetsOK'
  <2>1. failures' \in 0..MaxFailures
    BY <1>1, StoreCallFacts
  <2>2. /\ UNCHANGED <<asset, storedAsset, default, registered, restarts>>
        /\ published' = Append(published, v)
    BY DEF PublishDraft
  <2> QED BY <2>1, <2>2 DEF RelInv, AssetsOK
<1> QED BY <1>2, <1>3, <1>4, <1>5 DEF RelInv

LEMMA FailuresStay == ASSUME RelInv, UNCHANGED failures PROVE failures' \in 0..MaxFailures
BY DEF RelInv, AssetsOK

LEMMA RegisterStep ==
  ASSUME RelInv, UNCHANGED releasePolicy, NEW h \in Handlers, releaseAndRegisterDraft(h)
  PROVE  RelInv'
<1>1. handler[h].v \in Versions
  BY HandlerFacts DEF releaseAndRegisterDraft
<1>2. /\ UNCHANGED <<release, stored, evalPass, verdict, gate>> /\ UNCHANGED <<approvals, spent>>
      /\ UNCHANGED <<published, asset, storedAsset, default, restarts, failures>>
      /\ registered' = registered \cup {handler[h].v}
  BY DEF releaseAndRegisterDraft, store, history
<1>3. AssetsOK'
  BY <1>1, <1>2 DEF RelInv, AssetsOK
<1>4. HandlersOK'
  BY <1>2, ReleasesStay, ReturnMove DEF releaseAndRegisterDraft
<1> QED BY <1>2, <1>3, <1>4, ReleasesStay, ApprovalsStay DEF RelInv

LEMMA ReleaseActionStep ==
  ASSUME RelInv, UNCHANGED releasePolicy, NEW h \in Handlers, NEW v \in Versions,
         NEW command \in Commands, NEW a \in Approvals \cup {None},
         packageReleaseAction(h, command, v, a)
  PROVE  RelInv'
<1>1. GetRelease(v) \in Statuses \cup {"absent"}
  BY DEF GetRelease, RelInv, ReleasesOK
<1>2. PICK r : r = [Request("check", command, v) EXCEPT !.approval = a, !.read = GetRelease(v)]
  OBVIOUS
<1>3. r \in HandlerStates /\ r.pc = "check" /\ r.command = command /\ r.v = v
  BY <1>1, <1>2 DEF Request, HandlerStates, HandlerPCs
<1>4. LocalsOK(r)'
  BY <1>3 DEF LocalsOK
<1>5. handler' = [handler EXCEPT ![h] = r]
  BY <1>2 DEF packageReleaseAction, Arrive
<1>6. VerdictKept => HandlersOK'
  BY <1>3, <1>4, <1>5, HandlerMoves
<1> QED BY <1>6, FailuresStay, QuietStep DEF packageReleaseAction

LEMMA ActivateStep ==
  ASSUME RelInv, UNCHANGED releasePolicy, NEW h \in Handlers, NEW v \in Versions,
         activateStableAgentVersion(h, v)
  PROVE  RelInv'
<1>1. failures' \in 0..MaxFailures
  BY StoreCallFacts DEF activateStableAgentVersion
<1>2. handler' = [handler EXCEPT ![h] = Request("asset", "activate", v)]
  BY DEF activateStableAgentVersion, Arrive
<1>3. "asset" \in HandlerPCs
  BY DEF HandlerPCs
<1>4. VerdictKept => HandlersOK'
  BY <1>2, <1>3, RequestMove
<1> QED BY <1>1, <1>4, QuietStep DEF activateStableAgentVersion

LEMMA EvalRunStep ==
  ASSUME RelInv, UNCHANGED releasePolicy, NEW h \in Handlers, NEW v \in Versions,
         NEW passed \in BOOLEAN, evalRun(h, v, passed)
  PROVE  RelInv'
<1>1. PICK r : r = [Request("mark", "eval", v) EXCEPT !.passed = passed]
  OBVIOUS
<1>2. r \in HandlerStates /\ r.pc = "mark" /\ r.command = "eval" /\ r.v = v
  BY <1>1 DEF Request, HandlerStates, HandlerPCs
<1>3. LocalsOK(r)'
  BY <1>2 DEF LocalsOK
<1>4. handler' = [handler EXCEPT ![h] = r]
  BY <1>1 DEF evalRun, Arrive
<1>5. VerdictKept => HandlersOK'
  BY <1>2, <1>3, <1>4, HandlerMoves
<1> QED BY <1>5, FailuresStay, QuietStep DEF evalRun

LEMMA RefuseStep ==
  ASSUME RelInv, UNCHANGED releasePolicy, NEW h \in Handlers, Refuse(h)
  PROVE  RelInv'
<1>1. VerdictKept => HandlersOK'
  BY ReturnMove DEF Refuse
<1> QED BY <1>1, FailuresStay, QuietStep DEF Refuse

\* A step of a handler that writes no release and keeps the assets.
LEMMA ApprovalStep ==
  ASSUME RelInv, UNCHANGED <<memory, store, releasePolicy, failures, restarts, verdict, gate>>,
         ApprovalsOK', VerdictKept => HandlersOK'
  PROVE  RelInv'
<1>1. /\ UNCHANGED <<release, stored, evalPass, verdict, gate>>
      /\ UNCHANGED <<published, asset, storedAsset, default, registered, releasePolicy, restarts>>
  BY DEF memory, store
<1> QED BY <1>1, ReleasesStay, AssetsStay, FailuresStay DEF RelInv

LEMMA CheckStep ==
  ASSUME RelInv, UNCHANGED releasePolicy, NEW h \in Handlers, Check(h)
  PROVE  RelInv'
<1>1. PICK r : r = handler[h]
  OBVIOUS
<1>2. /\ r.pc = "check" /\ UNCHANGED <<memory, store, failures, restarts, history>>
      /\ UNCHANGED <<memory, store, releasePolicy, failures, restarts, verdict, gate>>
      /\ UNCHANGED spent
  BY <1>1 DEF Check, history
<1>3. r \in HandlerStates /\ r.command \in Commands /\ r.v \in Versions
      /\ r.approval \in Approvals \cup {None}
  BY <1>1, <1>2, HandlerFacts DEF LocalsOK, HandlerStates
<1>4. \/ Return(h) /\ UNCHANGED approvals
      \/ /\ \E a \in Approvals :
              /\ approvals[a] = Unsent
              /\ approvals' = [approvals EXCEPT ![a] =
                                 [status |-> "pending", command |-> r.command, v |-> r.v]]
         /\ Return(h)
      \/ /\ IF r.approval # None THEN Goto(h, "consume") ELSE Perform(h)
         /\ UNCHANGED approvals
  BY <1>1 DEF Check
<1>5. CASE Return(h) /\ UNCHANGED approvals
  BY <1>2, <1>5, ApprovalStep, ApprovalsStay, ReturnMove
<1>6. ASSUME NEW a \in Approvals, approvals[a] = Unsent, Return(h),
             approvals' = [approvals EXCEPT ![a] =
                             [status |-> "pending", command |-> r.command, v |-> r.v]]
      PROVE  RelInv'
  <2>1. PICK row : row = [status |-> "pending", command |-> r.command, v |-> r.v]
    OBVIOUS
  <2>2. row \in ApprovalRows
    BY <1>3, <2>1 DEF ApprovalRows
  <2>3. /\ approvals \in [Approvals -> ApprovalRows] /\ spent \in [Approvals -> {0, 1}]
        /\ \A b \in Approvals : approvals[b].status \in {"unsent", "pending", "approved"} => spent[b] = 0
    BY DEF RelInv, ApprovalsOK
  <2>4. Unsent.status = "unsent"
    BY DEF Unsent, Closed
  <2>5. spent[a] = 0
    BY <1>6, <2>3, <2>4
  <2>6. /\ approvals' \in [Approvals -> ApprovalRows]
        /\ \A b \in Approvals : b # a => approvals'[b] = approvals[b]
    BY <1>6, <2>1, <2>2, <2>3
  <2>7. ApprovalsOK'
    BY <1>2, <2>3, <2>5, <2>6 DEF ApprovalsOK
  <2> QED BY <1>2, <1>6, <2>7, ApprovalStep, ReturnMove
<1>7. CASE /\ IF r.approval # None THEN Goto(h, "consume") ELSE Perform(h)
           /\ UNCHANGED approvals
  <2>1. VerdictKept => HandlersOK'
    <3>1. CASE r.approval # None
      <4>1. "consume" \in HandlerPCs /\ Goto(h, "consume")
        BY <1>7, <3>1 DEF HandlerPCs
      <4> QED BY <1>1, <1>2, <1>3, <3>1, <4>1, GotoMove
    <3>2. CASE r.approval = None
      BY <1>1, <1>2, <1>7, <3>2, PerformMove
    <3> QED BY <3>1, <3>2
  <2> QED BY <1>2, <1>7, <2>1, ApprovalStep, ApprovalsStay
<1> QED BY <1>4, <1>5, <1>6, <1>7

LEMMA ConsumeStep ==
  ASSUME RelInv, UNCHANGED releasePolicy, NEW h \in Handlers, Consume(h)
  PROVE  RelInv'
<1>1. PICK r : r = handler[h]
  OBVIOUS
<1>2. r.pc = "consume"
      /\ UNCHANGED <<memory, store, releasePolicy, failures, restarts, verdict, gate>>
  BY <1>1 DEF Consume
<1>3. r.approval \in Approvals
  BY <1>1, <1>2, HandlerFacts DEF LocalsOK
<1>4. CASE Valid(r.approval, r.command, r.v)
  <2>1. PICK a : a = r.approval
    OBVIOUS
  <2>2. /\ approvals' = [approvals EXCEPT ![a] = Closed("used")]
        /\ spent' = [spent EXCEPT ![a] = spent[a] + 1] /\ Perform(h)
    BY <1>1, <1>4, <2>1 DEF Consume
  <2>3. /\ approvals \in [Approvals -> ApprovalRows] /\ spent \in [Approvals -> {0, 1}]
        /\ \A b \in Approvals : approvals[b].status \in {"unsent", "pending", "approved"} => spent[b] = 0
    BY DEF RelInv, ApprovalsOK
  <2>4. a \in Approvals /\ approvals[a].status = "approved"
    BY <1>3, <1>4, <2>1 DEF Valid
  <2>5. Closed("used") \in ApprovalRows /\ Closed("used").status = "used"
    BY DEF Closed, ApprovalRows
  <2>6. spent[a] = 0
    BY <2>3, <2>4
  <2>7. /\ approvals' \in [Approvals -> ApprovalRows]
        /\ \A b \in Approvals : approvals'[b] = IF b = a THEN Closed("used") ELSE approvals[b]
    BY <2>2, <2>3, <2>4, <2>5
  <2>8. /\ spent' \in [Approvals -> {0, 1}]
        /\ \A b \in Approvals : b # a => spent'[b] = spent[b]
    BY <2>2, <2>3, <2>4, <2>6
  <2>9. ApprovalsOK'
    BY <2>3, <2>5, <2>7, <2>8 DEF ApprovalsOK
  <2> QED BY <1>1, <1>2, <2>2, <2>9, ApprovalStep, PerformMove
<1>5. CASE ~Valid(r.approval, r.command, r.v)
  BY <1>1, <1>2, <1>5, ApprovalStep, ApprovalsStay, ReturnMove DEF Consume
<1> QED BY <1>4, <1>5

LEMMA ResolveStep ==
  ASSUME RelInv, UNCHANGED releasePolicy, NEW a \in Approvals, NEW status \in {"approved", "rejected"},
         Resolve(a, status)
  PROVE  RelInv'
<1>1. /\ approvals[a].status = "pending"
      /\ approvals' = [approvals EXCEPT ![a] =
                         IF status = "approved" THEN [approvals[a] EXCEPT !.status = status]
                         ELSE Closed(status)]
      /\ UNCHANGED <<memory, store, handler, failures, restarts, verdict, gate, spent>>
  BY DEF Resolve, history
<1>2. /\ approvals \in [Approvals -> ApprovalRows] /\ spent \in [Approvals -> {0, 1}]
      /\ \A b \in Approvals : approvals[b].status \in {"unsent", "pending", "approved"} => spent[b] = 0
  BY DEF RelInv, ApprovalsOK
<1>3. PICK row : row = IF status = "approved" THEN [approvals[a] EXCEPT !.status = status]
                       ELSE Closed(status)
  OBVIOUS
<1>4. row \in ApprovalRows
  <2>1. CASE status = "approved"
    BY <1>2, <1>3, <2>1 DEF ApprovalRows
  <2>2. CASE status = "rejected"
    BY <1>3, <2>2 DEF Closed, ApprovalRows
  <2> QED BY <2>1, <2>2
<1>5. spent[a] = 0
  BY <1>1, <1>2
<1>6. /\ approvals' \in [Approvals -> ApprovalRows]
      /\ \A b \in Approvals : b # a => approvals'[b] = approvals[b]
  BY <1>1, <1>2, <1>3, <1>4
<1>7. ApprovalsOK'
  BY <1>1, <1>2, <1>5, <1>6 DEF ApprovalsOK
<1>8. UNCHANGED <<memory, store, releasePolicy, failures, restarts, verdict, gate>>
  BY <1>1
<1> QED BY <1>1, <1>7, <1>8, ApprovalStep, HandlersStay

LEMMA PassedStep ==
  ASSUME RelInv, UNCHANGED releasePolicy, NEW h \in Handlers, Passed(h) \/ PassedInStore(h)
  PROVE  RelInv'
<1>1. handler[h].v \in Versions /\ handler[h].pc # "idle"
  BY HandlerFacts DEF Passed, PassedInStore
<1>2. \/ handler[h].v \in evalPass /\ Goto(h, "mark")
      \/ Goto(h, "passedStore")
      \/ stored[handler[h].v] = "evaluated" /\ Goto(h, "mark")
      \/ Return(h)
  BY DEF Passed, PassedInStore
<1>3. "mark" \in HandlerPCs /\ "passedStore" \in HandlerPCs
  BY DEF HandlerPCs
<1>4. handler[h].v \in evalPass \/ stored[handler[h].v] = "evaluated" => verdict[handler[h].v] # "never"
  BY <1>1 DEF RelInv, ReleasesOK, EvaluationsKnown
<1>5. VerdictKept => HandlersOK'
  BY <1>1, <1>2, <1>3, <1>4, GotoMove, ReturnMove
<1> QED BY <1>5, FailuresStay, QuietStep DEF Passed, PassedInStore

LEMMA ReadReleaseStep ==
  ASSUME RelInv, UNCHANGED releasePolicy, NEW h \in Handlers, ReadRelease(h)
  PROVE  RelInv'
<1>1. PICK u : u = handler[h]
  OBVIOUS
<1>2. u \in HandlerStates /\ LocalsOK(u) /\ u.v \in Versions /\ u.pc = "mark"
  BY <1>1, HandlerFacts DEF ReadRelease
<1>3. failures' \in 0..MaxFailures
  BY StoreCallFacts DEF ReadRelease
<1>4. \/ handler' = [handler EXCEPT ![h].pc = "relocked", ![h].read = stored[u.v]]
      \/ NotMarked(h)
  BY <1>1 DEF ReadRelease
<1>5. ASSUME handler' = [handler EXCEPT ![h].pc = "relocked", ![h].read = stored[u.v]], VerdictKept
      PROVE  HandlersOK'
  <2>1. PICK r : r = [u EXCEPT !.pc = "relocked", !.read = stored[u.v]]
    OBVIOUS
  <2>2. stored[u.v] \in Statuses \cup {"absent"}
    BY <1>2 DEF RelInv, ReleasesOK
  <2>3. r \in HandlerStates /\ r.pc = "relocked" /\ r.command = u.command /\ r.v = u.v
    BY <1>2, <2>1, <2>2 DEF HandlerStates, HandlerPCs
  <2>4. handler' = [handler EXCEPT ![h] = r]
    BY <1>1, <1>5, <2>1
  <2>5. LocalsOK(r)'
    BY <1>2, <1>5, <2>3 DEF LocalsOK, VerdictKept
  <2> QED BY <1>5, <2>3, <2>4, <2>5, HandlerMoves
<1>6. VerdictKept => HandlersOK'
  BY <1>1, <1>2, <1>4, <1>5, NotMarkedMove
<1> QED BY <1>3, <1>6, QuietStep DEF ReadRelease

LEMMA MarkedMove ==
  ASSUME RelInv, NEW h \in Handlers, handler[h].pc # "idle", handler[h].command \in Commands,
         Marked(h), VerdictKept
  PROVE  HandlersOK'
<1>1. "rule" \in HandlerPCs /\ "asset" \in HandlerPCs
  BY DEF HandlerPCs
<1>2. Goto(h, "rule") \/ Goto(h, "asset") \/ Return(h)
  BY DEF Marked, Commands
<1> QED BY <1>1, <1>2, GotoMove, ReturnMove

LEMMA MarkReleaseStep ==
  ASSUME RelInv, UNCHANGED releasePolicy, NEW h \in Handlers, markRelease(h)
  PROVE  RelInv'
<1>1. PICK u : u = handler[h]
  OBVIOUS
<1>2. /\ u \in HandlerStates /\ LocalsOK(u) /\ u.v \in Versions /\ u.command \in Commands
      /\ u.pc \in {"mark", "relocked"}
  BY <1>1, HandlerFacts DEF markRelease, Holds
<1>3. PICK next : next = Target(u.command)
  OBVIOUS
<1>4. next \in Statuses /\ next # "evaluated" /\ (next = "stable" => u.command = "stable")
  BY <1>2, <1>3 DEF Target, Commands, Statuses
<1>5. /\ UNCHANGED <<published, asset, storedAsset, default, registered, releasePolicy, restarts>>
      /\ UNCHANGED <<approvals, spent, evalPass, verdict>>
  BY DEF markRelease
<1>6. gate' \subseteq {"stale"}
  <2>1. gate' \subseteq gate \cup (IF next = "stable" THEN {verdict[u.v]} \ {"passed"} ELSE {})
    BY <1>1, <1>3 DEF markRelease
  <2>2. next = "stable" => verdict[u.v] # "never"
    BY <1>2, <1>4 DEF LocalsOK
  <2>3. verdict[u.v] \in {"never", "passed", "stale"}
    BY <1>2 DEF RelInv, ReleasesOK
  <2> QED BY <2>1, <2>2, <2>3, GateFacts
<1>7. /\ release' = release \/ release' = [release EXCEPT ![u.v] = next]
      /\ stored' = stored \/ stored' = [stored EXCEPT ![u.v] = next]
  BY <1>1, <1>3 DEF markRelease
<1>8. ReleasesOK' /\ VerdictKept
  BY <1>2, <1>4, <1>5, <1>6, <1>7, StatusWrite
<1>9. NotMarked(h) \/ Marked(h)
  BY DEF markRelease
<1>10. HandlersOK'
  BY <1>1, <1>2, <1>8, <1>9, NotMarkedMove, MarkedMove
<1>11. failures' \in 0..MaxFailures
  <2>1. failures' = failures \/ (failures < MaxFailures /\ failures' = failures + 1)
    BY DEF markRelease
  <2> QED BY <2>1, PackageReleaseAssumption DEF RelInv, AssetsOK
<1> QED BY <1>5, <1>8, <1>10, <1>11, ApprovalsStay, AssetsStay DEF RelInv

LEMMA EvalResultStep ==
  ASSUME RelInv, UNCHANGED releasePolicy, NEW h \in Handlers, MarkEvalResult(h)
  PROVE  RelInv'
<1>1. PICK v : v = handler[h].v
  OBVIOUS
<1>2. v \in Versions
  BY <1>1, HandlerFacts DEF MarkEvalResult, Holds
<1>3. /\ UNCHANGED <<published, asset, storedAsset, default, registered, releasePolicy, restarts>>
      /\ UNCHANGED <<approvals, spent, gate>> /\ Return(h)
  BY DEF MarkEvalResult
<1>4. CASE UNCHANGED <<release, stored, evalPass, verdict, failures>>
  BY <1>3, <1>4, ReleasesStay, ApprovalsStay, AssetsStay, FailuresStay, ReturnMove DEF RelInv
<1>5. ASSUME NEW passed, passed = handler[h].passed,
             release' = release \/ (passed /\ release' = [release EXCEPT ![v] = "evaluated"]),
             evalPass' = (IF passed THEN evalPass \cup {v} ELSE evalPass \ {v}),
             verdict' = [verdict EXCEPT ![v] =
                           IF passed THEN "passed"
                           ELSE IF verdict[v] = "never" THEN verdict[v] ELSE "stale"],
             stored' = stored \/ (passed /\ stored' = [stored EXCEPT ![v] = "evaluated"]),
             failures' \in 0..MaxFailures
      PROVE  RelInv'
  <2>1. /\ release \in [Versions -> Statuses \cup {"absent"}]
        /\ stored \in [Versions -> Statuses \cup {"absent"}]
        /\ evalPass \subseteq Versions /\ verdict \in [Versions -> {"never", "passed", "stale"}]
        /\ gate \subseteq {"stale"} /\ EvaluationsKnown
    BY DEF RelInv, ReleasesOK
  <2>2. /\ verdict' \in [Versions -> {"never", "passed", "stale"}]
        /\ \A w \in Versions : w # v => verdict'[w] = verdict[w]
        /\ passed => verdict'[v] = "passed"
        /\ verdict[v] # "never" => verdict'[v] # "never"
    BY <1>2, <1>5, <2>1
  <2>3. VerdictKept
    BY <2>2 DEF VerdictKept
  <2>4. "evaluated" \in Statuses
    BY DEF Statuses
  <2>5. /\ release' \in [Versions -> Statuses \cup {"absent"}]
        /\ \A w \in Versions : release'[w] = "evaluated" => release[w] = "evaluated" \/ (w = v /\ passed)
    BY <1>2, <1>5, <2>1, <2>4
  <2>6. /\ stored' \in [Versions -> Statuses \cup {"absent"}]
        /\ \A w \in Versions : stored'[w] = "evaluated" => stored[w] = "evaluated" \/ (w = v /\ passed)
    BY <1>2, <1>5, <2>1, <2>4
  <2>7. /\ evalPass' \subseteq Versions
        /\ \A w \in Versions : w \in evalPass' => w \in evalPass \/ (w = v /\ passed)
    BY <1>2, <1>5, <2>1
  <2>8. EvaluationsKnown'
    BY <2>1, <2>2, <2>3, <2>5, <2>6, <2>7 DEF EvaluationsKnown, VerdictKept
  <2>9. ReleasesOK'
    BY <1>3, <2>1, <2>2, <2>5, <2>6, <2>7, <2>8 DEF ReleasesOK
  <2> QED BY <1>3, <1>5, <2>3, <2>9, ApprovalsStay, AssetsStay, ReturnMove DEF RelInv
<1>6. \/ UNCHANGED <<release, stored, evalPass, verdict, failures>>
      \/ \E passed :
           /\ passed = handler[h].passed
           /\ release' = release \/ (passed /\ release' = [release EXCEPT ![v] = "evaluated"])
           /\ evalPass' = (IF passed THEN evalPass \cup {v} ELSE evalPass \ {v})
           /\ verdict' = [verdict EXCEPT ![v] =
                            IF passed THEN "passed"
                            ELSE IF verdict[v] = "never" THEN verdict[v] ELSE "stale"]
           /\ stored' = stored \/ (passed /\ stored' = [stored EXCEPT ![v] = "evaluated"])
           /\ \E ok \in BOOLEAN : StoreCall(ok)
  BY <1>1 DEF MarkEvalResult
<1> QED BY <1>4, <1>5, <1>6, StoreCallFacts

LEMMA CanaryRuleStep ==
  ASSUME RelInv, UNCHANGED releasePolicy, NEW h \in Handlers,
         MarkCanaryWithRule(h) \/ UpdateReleaseCanary(h)
  PROVE  RelInv'
<1>1. handler[h].v \in Versions /\ handler[h].pc # "idle"
  BY HandlerFacts DEF MarkCanaryWithRule, UpdateReleaseCanary
<1>2. /\ UNCHANGED <<published, asset, storedAsset, default, registered, restarts>>
      /\ UNCHANGED <<approvals, spent, evalPass, verdict, gate>>
      /\ release' = release \/ release' = [release EXCEPT ![handler[h].v] = "canary"]
      /\ stored' = stored \/ stored' = [stored EXCEPT ![handler[h].v] = "canary"]
      /\ Goto(h, "ruleStore") \/ Return(h)
  BY DEF MarkCanaryWithRule, UpdateReleaseCanary, store, memory, history
<1>3. "canary" \in Statuses /\ "ruleStore" \in HandlerPCs
  BY DEF Statuses, HandlerPCs
<1>4. ReleasesOK' /\ VerdictKept
  BY <1>1, <1>2, <1>3, StatusWrite, GateFacts
<1>5. failures' \in 0..MaxFailures
  BY FailuresStay, StoreCallFacts DEF MarkCanaryWithRule, UpdateReleaseCanary
<1>6. HandlersOK'
  BY <1>1, <1>2, <1>3, <1>4, GotoMove, ReturnMove
<1> QED BY <1>2, <1>4, <1>5, <1>6, ApprovalsStay, AssetsStay DEF RelInv

LEMMA RollbackActiveStep ==
  ASSUME RelInv, UNCHANGED releasePolicy, NEW h \in Handlers, RollbackActive(h)
  PROVE  RelInv'
<1>1. handler[h].pc = "active" /\ handler[h].command = "rollback"
  BY HandlerFacts DEF RollbackActive, LocalsOK
<1>2. Goto(h, "fallback") \/ Goto(h, "mark")
  BY DEF RollbackActive
<1>3. "fallback" \in HandlerPCs /\ "mark" \in HandlerPCs
  BY DEF HandlerPCs
<1>4. VerdictKept => HandlersOK'
  BY <1>1, <1>2, <1>3, GotoMove
<1> QED BY <1>4, FailuresStay, QuietStep DEF RollbackActive

LEMMA FallbackStep ==
  ASSUME RelInv, UNCHANGED releasePolicy, NEW h \in Handlers, Fallback(h)
  PROVE  RelInv'
<1>1. PICK u : u = handler[h]
  OBVIOUS
<1>2. u \in HandlerStates /\ LocalsOK(u) /\ u.v \in Versions /\ u.pc = "fallback"
  BY <1>1, HandlerFacts DEF Fallback
<1>3. failures' \in 0..MaxFailures
  BY StoreCallFacts DEF Fallback
<1>4. \/ \E v \in registered : handler' = [handler EXCEPT ![h].pc = "asset", ![h].fallback = v]
      \/ Return(h)
  BY DEF Fallback
<1>5. ASSUME NEW v \in registered, VerdictKept,
             handler' = [handler EXCEPT ![h].pc = "asset", ![h].fallback = v]
      PROVE  HandlersOK'
  <2>1. PICK r : r = [u EXCEPT !.pc = "asset", !.fallback = v]
    OBVIOUS
  <2>2. v \in Versions
    BY DEF RelInv, AssetsOK
  <2>3. r \in HandlerStates /\ r.pc = "asset" /\ r.v = u.v
    BY <1>2, <2>1, <2>2 DEF HandlerStates, HandlerPCs
  <2>4. handler' = [handler EXCEPT ![h] = r]
    BY <1>1, <1>5, <2>1
  <2>5. LocalsOK(r)'
    BY <1>2, <2>3 DEF LocalsOK
  <2> QED BY <1>5, <2>3, <2>4, <2>5, HandlerMoves
<1>6. VerdictKept => HandlersOK'
  BY <1>4, <1>5, ReturnMove
<1> QED BY <1>3, <1>6, QuietStep DEF Fallback

LEMMA ActivatedFacts ==
  ASSUME RelInv, NEW h \in Handlers, handler[h].pc # "idle"
  PROVE  Activated(handler[h]) \in Versions \cup {None}
<1>1. handler[h].fallback \in Versions \cup {None} /\ handler[h].v \in Versions
  BY HandlerFacts DEF HandlerStates
<1> QED BY <1>1 DEF Activated

\* A step that writes the asset, in the map or in the store, or the default version.
LEMMA AssetStep ==
  ASSUME RelInv, UNCHANGED <<release, stored, evalPass, published, registered, approvals, releasePolicy,
                             restarts, history>>,
         failures' \in 0..MaxFailures, NEW v \in Versions \cup {None},
         asset' \in {asset, v}, storedAsset' \in {storedAsset, v}, default' \in {default, v},
         VerdictKept => HandlersOK'
  PROVE  RelInv'
<1>1. UNCHANGED <<verdict, gate, spent>>
  BY DEF history
<1>2. AssetsOK'
  BY DEF RelInv, AssetsOK
<1> QED BY <1>1, <1>2, ReleasesStay, ApprovalsStay DEF RelInv

LEMMA AssetSteps ==
  ASSUME RelInv, UNCHANGED releasePolicy, NEW h \in Handlers,
         EnsureAgentAssetVersion(h) \/ SaveAgentAsset(h) \/ SetDefault(h)
  PROVE  RelInv'
<1>1. handler[h].pc # "idle"
  BY DEF EnsureAgentAssetVersion, SaveAgentAsset, SetDefault
<1>2. PICK v : v = Activated(handler[h])
  OBVIOUS
<1>3. v \in Versions \cup {None}
  BY <1>1, <1>2, ActivatedFacts
<1>4. /\ "assetStore" \in HandlerPCs /\ "undoAssetStore" \in HandlerPCs /\ "undoDefault" \in HandlerPCs
      /\ "default" \in HandlerPCs /\ "mark" \in HandlerPCs
  BY DEF HandlerPCs
<1>5. CASE EnsureAgentAssetVersion(h)
  <2>1. Goto(h, "assetStore") \/ Goto(h, "undoAssetStore")
    BY <1>5 DEF EnsureAgentAssetVersion
  <2>2. VerdictKept => HandlersOK'
    BY <1>1, <1>4, <2>1, GotoMove
  <2>3. /\ UNCHANGED <<release, stored, evalPass, published, registered, approvals, restarts, history>>
        /\ UNCHANGED <<storedAsset, default, failures>> /\ asset' = v
    BY <1>2, <1>5 DEF EnsureAgentAssetVersion, store
  <2> QED BY <1>3, <2>2, <2>3, AssetStep, FailuresStay
<1>6. CASE SaveAgentAsset(h)
  <2>1. Goto(h, "undoDefault") \/ Goto(h, "default") \/ Return(h)
    BY <1>6 DEF SaveAgentAsset
  <2>2. VerdictKept => HandlersOK'
    BY <1>1, <1>4, <2>1, GotoMove, ReturnMove
  <2>3. /\ UNCHANGED <<release, stored, evalPass, published, registered, approvals, restarts, history>>
        /\ UNCHANGED <<asset, default>> /\ storedAsset' \in {storedAsset, v}
    BY <1>2, <1>6 DEF SaveAgentAsset, memory
  <2>4. failures' \in 0..MaxFailures
    BY <1>6, StoreCallFacts DEF SaveAgentAsset
  <2> QED BY <1>3, <2>2, <2>3, <2>4, AssetStep
<1>7. CASE SetDefault(h)
  <2>1. (handler[h].command = "rollback" /\ Goto(h, "mark")) \/ Return(h)
    BY <1>7 DEF SetDefault
  <2>2. VerdictKept => HandlersOK'
    BY <1>1, <1>4, <2>1, GotoMove, ReturnMove
  <2>3. /\ UNCHANGED <<release, stored, evalPass, published, registered, approvals, restarts, history>>
        /\ UNCHANGED <<asset, storedAsset, failures>> /\ default' \in {default, v}
    BY <1>2, <1>7 DEF SetDefault, store
  <2> QED BY <1>3, <2>2, <2>3, AssetStep, FailuresStay
<1> QED BY <1>5, <1>6, <1>7

LEMMA RestartStep ==
  ASSUME RelInv, UNCHANGED releasePolicy, Restart
  PROVE  RelInv'
<1>1. /\ UNCHANGED <<stored, published, storedAsset, failures, verdict, gate, spent>>
      /\ restarts < MaxRestarts /\ restarts' = restarts + 1
      /\ release' = [v \in Versions |-> "absent"] /\ evalPass' = {}
  BY DEF Restart, store, history
<1>2. ReleasesOK'
  BY <1>1 DEF RelInv, ReleasesOK, EvaluationsKnown
<1>3. ApprovalsOK'
  <2>1. /\ approvals \in [Approvals -> ApprovalRows] /\ spent \in [Approvals -> {0, 1}]
        /\ \A b \in Approvals : approvals[b].status \in {"unsent", "pending", "approved"} => spent[b] = 0
    BY DEF RelInv, ApprovalsOK
  <2>2. /\ Unsent \in ApprovalRows /\ Unsent.status = "unsent"
        /\ Closed("lost") \in ApprovalRows /\ Closed("lost").status = "lost"
    BY DEF Unsent, Closed, ApprovalRows
  <2>3. approvals' = [a \in Approvals |-> IF approvals[a] = Unsent THEN Unsent ELSE Closed("lost")]
    BY DEF Restart
  <2>4. /\ approvals' \in [Approvals -> ApprovalRows]
        /\ \A a \in Approvals : approvals'[a] = approvals[a] \/ approvals'[a].status = "lost"
    BY <2>2, <2>3
  <2> QED BY <1>1, <2>1, <2>4 DEF ApprovalsOK
<1>4. HandlersOK'
  <2>1. Idle \in HandlerStates /\ Idle.pc = "idle"
    BY DEF Idle, Request, HandlerStates, HandlerPCs
  <2> QED BY <2>1 DEF Restart, HandlersOK, LocalsOK
<1>5. AssetsOK'
  <2>1. /\ asset' = None /\ registered' = {v \in Versions : stored[v] # "absent"}
        /\ default' \in registered' \cup {None}
    BY DEF Restart
  <2>2. restarts' \in 0..MaxRestarts
    BY <1>1, PackageReleaseAssumption DEF RelInv, AssetsOK
  <2> QED BY <1>1, <2>1, <2>2 DEF RelInv, AssetsOK
<1> QED BY <1>2, <1>3, <1>4, <1>5 DEF RelInv

LEMMA NextRelInv == RelInv /\ [Next /\ UNCHANGED releasePolicy]_vars => RelInv'
<1> SUFFICES ASSUME RelInv, [Next /\ UNCHANGED releasePolicy]_vars PROVE RelInv'
  OBVIOUS
<1>1. CASE Next /\ UNCHANGED releasePolicy
  <2>1. ASSUME NEW h \in Handlers, Step(h) PROVE RelInv'
    BY <1>1, <2>1, RegisterStep, CheckStep, RefuseStep, ConsumeStep, PassedStep, ReadReleaseStep,
       MarkReleaseStep, EvalResultStep, CanaryRuleStep, RollbackActiveStep, FallbackStep, AssetSteps
       DEF Step
  <2> QED BY <1>1, <2>1, PublishStep, ActivateStep, EvalRunStep, ReleaseActionStep, ResolveStep,
             RestartStep DEF Next
<1>2. CASE UNCHANGED vars
  <2>1. /\ UNCHANGED <<memory, store, approvals, releasePolicy, restarts, history>>
        /\ UNCHANGED failures /\ UNCHANGED handler
    BY <1>2 DEF vars
  <2> QED BY <2>1, QuietStep, FailuresStay, HandlersStay
<1> QED BY <1>1, <1>2

LEMMA RelInvariant == Spec => []RelInv
BY InitRelInv, NextRelInv, PTL DEF Spec

(***************************************************************************)
(* The maps and the store of the package service, its approvals and the    *)
(* locals of its handlers keep their types (package/service.go,            *)
(* commands_agent_package.go).                                             *)
(***************************************************************************)
THEOREM ReleaseTypeCorrect == Spec => []TypeOK
<1>1. ASSUME RelInv PROVE TypeOK
  <2>1. /\ release \in [Versions -> Statuses \cup {"absent"}]
        /\ stored \in [Versions -> Statuses \cup {"absent"}] /\ evalPass \subseteq Versions
        /\ verdict \in [Versions -> {"never", "passed", "stale"}] /\ gate \subseteq {"never", "stale"}
    BY <1>1 DEF RelInv, ReleasesOK
  <2>2. approvals \in [Approvals -> ApprovalRows] /\ spent \in [Approvals -> Nat]
    BY <1>1 DEF RelInv, ApprovalsOK
  <2>3. handler \in [Handlers -> HandlerStates]
    BY <1>1 DEF RelInv, HandlersOK
  <2> QED BY <1>1, <2>1, <2>2, <2>3 DEF RelInv, AssetsOK, TypeOK
<1> QED BY <1>1, RelInvariant, PTL

(***************************************************************************)
(* A release approval lets at most one command pass, for any number of     *)
(* requests that present it at once and across restarts                    *)
(* (commands_agent_package.go consumeReleaseApproval).                     *)
(***************************************************************************)
THEOREM OneCommandPerApprovalHolds == Spec => []OneCommandPerApproval
<1>1. RelInv => OneCommandPerApproval
  BY DEF RelInv, ApprovalsOK, OneCommandPerApproval
<1> QED BY <1>1, RelInvariant, PTL

(***************************************************************************)
(* A version becomes stable only after an evaluation of it has passed,     *)
(* whatever other requests, failing store calls and restarts come between  *)
(* the check and the mark (package/service.go MarkStable, markRelease).    *)
(***************************************************************************)
THEOREM StableWasEvaluatedHolds == Spec => []StableWasEvaluated
<1>1. RelInv => StableWasEvaluated
  BY DEF RelInv, ReleasesOK, StableWasEvaluated
<1> QED BY <1>1, RelInvariant, PTL
=============================================================================
