\* Admission: four requests over two tenants and two agents each; every limit can be
\* the one that turns a request away.  Delivery: a sender and the retry worker, one
\* message sent three times, one replay, one failing store call or interruption.  Run: one
\* run and one approval, with a repair attempt and a step more than calls are allowed.
\* Migration: two operators, three commands, five directories.
CONSTANTS
  q1 = q1
  q2 = q2
  q3 = q3
  q4 = q4
  t1 = t1
  t2 = t2
  a1 = a1
  a2 = a2
  Requests = {q1, q2, q3, q4}
  Tenants = {t1, t2}
  Agents = {a1, a2}
  MaxRunningRuns = 3
  TenantMaxRunningRuns = 2
  AgentMaxRunningRuns = 1
  Messages = {m1}
  Senders = {s1}
  RetryWorkers = {w1}
  MaxAttempts = 2
  BatchSize = 2
  MaxSends = 3
  MaxReplays = 1
  MaxFaults = 1
  r1 = r1
  lookup = lookup
  pay = pay
  Runs = {r1}
  Approvers = {a1}
  Tools = {lookup, pay}
  Gated = {pay}
  SuppliedKeys = {}
  Ungiven = Ungiven
  MaxSteps = 2
  MaxToolCalls = 1
  MaxRepairs = 1
  MaxCalls = 1
  Operators = {o1, o2}
  Directories <- MCDirectories
  RequiredMigrations = {1, 2}
  MaxUps = 3
SPECIFICATION ServingSpec
CHECK_DEADLOCK FALSE
INVARIANTS
  CountersExact
  LimitsHold
  ToolCallLimit
  MigrationsAccounted
PROPERTIES
  RejectsOnlyWhenFull
  SlotsReturned
  DeliveriesSettle
  ThreadsEnd
