SPECIFICATION Spec

CONSTANTS
  h1 = h1
  w1 = w1
  Handlers = {h1}
  Workers = {w1}
  Requests = {"start", "decide", "rerun"}
  Decisions = {"APPROVED", "REJECTED"}
  Outcomes = {"SUCCEEDED", "NEEDS_REVIEW"}
  Structured = FALSE
  Serialized = TRUE
  Flaky = {}
  MaxRuns = 2
  MaxEvents = 3
  MaxTasks = 3
  MaxCrashes = 0
  MaxDuplicates = 0
  MaxFailures = 0

SYMMETRY Processes

PROPERTIES
  OwnReviewDecided

CHECK_DEADLOCK FALSE
