SPECIFICATION Spec

CONSTANTS
  h1 = h1
  w1 = w1
  Handlers = {h1}
  Workers = {w1}
  Requests = {"start", "cancel"}
  Decisions = {"APPROVED", "REJECTED"}
  Outcomes = {"SUCCEEDED"}
  Structured = FALSE
  Serialized = FALSE
  Flaky = {}
  MaxRuns = 1
  MaxEvents = 1
  MaxTasks = 1
  MaxCrashes = 0
  MaxDuplicates = 0
  MaxFailures = 0

SYMMETRY Processes

PROPERTIES
  CancelledSticks

CHECK_DEADLOCK FALSE
