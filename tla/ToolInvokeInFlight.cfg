\* Two requests with the same key.
CONSTANTS
  q1 = q1
  q2 = q2
  read = read
  Requests = {q1, q2}
  InvokeTools = {read}
  GatedTools = {}
  Keys = {k1}
  ApprovalIDs = {}
SPECIFICATION InvokeSpec
CHECK_DEADLOCK FALSE
INVARIANTS
  InFlightOnce
