SPECIFICATION ServicesSpec

CONSTANTS
  p1 = p1
  p2 = p2
  s1 = s1
  s2 = s2
  None = None
  Producers = {p1, p2}
  Remote = {}
  Streams = {s1, s2}
  Batch = 3
  Ordered = TRUE
  MaxIds = 2
  MaxLosses = 1

  wa = wa
  wb = wb
  NoTask = NoTask
  Workspaces = {wa, wb}
  Tasks <- MCTasks
  MaxQueued = 2
  MaxWeight = 240
  MaxMinutes = 60
  MaxMemory = 4096
  Ttl = 1
  Escalation = 1
  MaxTime = 3

  r1 = r1
  r2 = r2
  e1 = e1
  k1 = k1
  Requests = {r1, r2}
  Evidence = {e1}
  Knowledge = {k1}
  Questions = {"plain", "other_job"}
  Window = 1
  MaxCited = 1
  MaxTurns = 3

  t1 = t1
  t2 = t2
  ann = ann
  approved = approved
  rejected = rejected
  Threads = {t1, t2}
  People = {ann}
  Verdicts = {approved, rejected}
  MaxItems = 3
  MaxDeaths = 1

  c1 = c1
  c2 = c2
  c3 = c3
  same = same
  other = other
  none = none
  Calls = {c1, c2, c3}
  Payloads = {same, other}
  NoCall = none
  MaxRaises = 1
  MaxCrashes = 1
  MaxLost = 1

  a1 = a1
  t3 = t3
  b1 = b1
  ApiThreads = {a1}
  PoolThreads = {t3}
  BrokerThreads = {b1}
  MaxSpans = 3
  MaxSubmits = 2
  MaxDepth = 3
  MaxLostWorkers = 1

INVARIANTS
  TracesAreWhole
  ReceivedIsPrefix
  WindowIsKept
  SummaryCatchesUp
  AuditMatchesDecision
  AtMostOnce
  AnswersAreTrue

PROPERTIES
  EventReachesClient
  KeyIsOneOperation
  CallsAnswered

CHECK_DEADLOCK FALSE
