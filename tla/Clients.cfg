SPECIFICATION Spec

CONSTANTS
  h1 = h1
  h2 = h2
  w1 = w1
  w2 = w2
  Handlers = {h1, h2}
  Workers = {w1, w2}
  Requests = {"start", "retry", "rerun", "replay"}
  Decisions = {"APPROVED", "REJECTED"}
  Outcomes = {"SUCCEEDED", "FAILED"}
  Structured = FALSE
  Serialized = TRUE
  Flaky = {"note", "begin"}
  MaxRuns = 2
  MaxEvents = 2
  MaxTasks = 2
  MaxCrashes = 1
  MaxDuplicates = 1
  MaxFailures = 1

SYMMETRY Processes

INVARIANTS
  OneAtATime
  ExecutionOwnsJob
  QueuedIsRepresented

CHECK_DEADLOCK FALSE
