SPECIFICATION Spec

CONSTANTS
  h1 = h1
  w1 = w1
  w2 = w2
  Handlers = {h1}
  Workers = {w1, w2}
  Requests = {"start", "decide"}
  Decisions = {"APPROVED", "REJECTED"}
  Outcomes = {"SUCCEEDED", "NEEDS_REVIEW"}
  Structured = FALSE
  Serialized = TRUE
  Flaky = {}
  MaxRuns = 1
  MaxEvents = 2
  MaxTasks = 2
  MaxCrashes = 0
  MaxDuplicates = 1
  MaxFailures = 0

SYMMETRY Processes

INVARIANTS
  ExclusiveExecution

CHECK_DEADLOCK FALSE
