SPECIFICATION FairSpec

CONSTANTS
  h1 = h1
  w1 = w1
  w2 = w2
  Handlers = {h1}
  Workers = {w1, w2}
  Requests = {"start", "retry", "rerun", "decide", "replay"}
  Decisions = {"APPROVED", "REJECTED"}
  Outcomes = {"SUCCEEDED", "NEEDS_REVIEW", "FAILED", "RAISED"}
  Structured = TRUE
  Serialized = FALSE
  Flaky = {"publish"}
  MaxRuns = 2
  MaxEvents = 4
  MaxTasks = 4
  MaxCrashes = 0
  MaxDuplicates = 0
  MaxFailures = 1

INVARIANTS
  ReviewsLeadOn

PROPERTIES
  JobRefinesLifecycle
  QueuedIsTaken
  RunningEnds

CHECK_DEADLOCK FALSE
