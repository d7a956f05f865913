\* Two or three goroutines: one run and one approval, with two calls to a decision and a
\* key a decision may give; or two runs prepared for one task and one approval, with one
\* call to a decision; or one run and two approvals, with one gated call to a decision.
CONSTANTS
  r1 = r1
  r2 = r2
  a1 = a1
  a2 = a2
  k1 = k1
  lookup = lookup
  pay = pay
  Runs = {r1, r2}
  Approvers = {a1, a2}
  Tools = {lookup, pay}
  Gated = {pay}
  SuppliedKeys = {k1}
  Ungiven = Ungiven
  MaxSteps = 2
  MaxToolCalls = 2
  MaxRepairs = 0
  MaxCalls = 2
SPECIFICATION CoordinatorSpec
SYMMETRY Symmetry
CONSTRAINT SmallInstance
CHECK_DEADLOCK FALSE
INVARIANTS
  ExecutedOnce
  CompletedTogether
  OneRunAccepted
  GatedNeedsApproval
  StepLimit
