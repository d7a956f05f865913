\* One run and the users' commands.
CONSTANTS
  r1 = r1
  lookup = lookup
  Runs = {r1}
  Approvers = {}
  Tools = {lookup}
  Gated = {}
  SuppliedKeys = {}
  Ungiven = Ungiven
  MaxSteps = 2
  MaxToolCalls = 2
  MaxRepairs = 0
  MaxCalls = 1
SPECIFICATION FairSpec
CHECK_DEADLOCK FALSE
PROPERTIES
  CancelStops
