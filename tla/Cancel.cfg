SPECIFICATION Spec

CONSTANTS
  h1 = h1
  h2 = h2
  w1 = w1
  w2 = w2
  Handlers = {h1, h2}
  Workers = {w1, w2}
  Requests = {"start", "retry", "decide", "cancel"}
  Decisions = {"APPROVED", "REJECTED"}
  Outcomes = {"SUCCEEDED", "NEEDS_REVIEW", "FAILED", "RAISED"}
  Structured = FALSE
  Serialized = TRUE
  Flaky = {}
  MaxRuns = 2
  MaxEvents = 3
  MaxTasks = 3
  MaxCrashes = 0
  MaxDuplicates = 0
  MaxFailures = 0

SYMMETRY Processes

PROPERTIES
  EndsStay
  OwnReviewDecided
  JobRefinesLifecycle

CHECK_DEADLOCK FALSE
