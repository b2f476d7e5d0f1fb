SPECIFICATION Spec

CONSTANTS
  Modes = {"video"}
  Requests <- PersistentRequests
  Limits <- DefaultLimits
  Decisions = {"APPROVED", "REJECTED"}
  MaxCrashes = 0

INVARIANT PersistentFailureReviewed

CHECK_DEADLOCK FALSE
