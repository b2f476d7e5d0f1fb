SPECIFICATION FairSpec

CONSTANTS
  h1 = h1
  w1 = w1
  Handlers = {h1}
  Workers = {w1}
  Requests = {"start"}
  Decisions = {"APPROVED", "REJECTED"}
  Outcomes = {"SUCCEEDED"}
  Structured = FALSE
  Serialized = TRUE
  Flaky = {}
  MaxRuns = 1
  MaxEvents = 1
  MaxTasks = 1
  MaxCrashes = 1
  MaxDuplicates = 0
  MaxFailures = 0

PROPERTIES
  RunningEnds

CHECK_DEADLOCK FALSE
