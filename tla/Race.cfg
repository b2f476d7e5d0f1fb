SPECIFICATION Spec

CONSTANTS
  h1 = h1
  h2 = h2
  w1 = w1
  Handlers = {h1, h2}
  Workers = {w1}
  Requests = {"start", "cancel", "replay"}
  Decisions = {"APPROVED"}
  Outcomes = {"SUCCEEDED", "NEEDS_REVIEW", "FAILED"}
  Structured = FALSE
  Serialized = FALSE
  Flaky = {"send", "note", "begin", "announce", "review"}
  MaxRuns = 2
  MaxEvents = 2
  MaxTasks = 2
  MaxCrashes = 0
  MaxDuplicates = 0
  MaxFailures = 1

SYMMETRY Processes

INVARIANTS
  TypeOK
  HandOff
  StartOnce

CHECK_DEADLOCK FALSE
