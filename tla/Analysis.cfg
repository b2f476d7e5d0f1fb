SPECIFICATION AnalysisSpec

CONSTANTS
  Modes = {"image", "video", "structured"}
  Requests <- AllRequests
  Limits <- SomeLimits
  Decisions = {"APPROVED", "REJECTED"}
  MaxCrashes = 2

  c1 = c1
  c2 = c2
  Adapters = {"openai", "funasr", "qwen", "whisper", "rapidocr", "fake"}
  Priced = TRUE
  Width = 3
  Rows <- MCRows
  Callers = {c1, c2}
  Threshold = 2
  Cooldown = 1
  MaxRate = 2
  RateWindow = 1
  MaxRetries = 1
  MaxRepairs = 1
  MaxCalls = 3
  MaxTokens = 3
  MaxWall = 1
  Estimate = 2
  Overrun = 1
  MaxNow = 2

  k1 = k1
  k2 = k2
  o1 = o1
  o2 = o2
  NoKey = NoKey
  NoOutput = NoOutput
  ToolKeys = {k1, k2}
  Outputs = {o1, o2}
  MaxAttempts = 3
  MaxToolRetries = 2
  MaxInvocations = 4

  i1 = i1
  p1 = p1
  r1 = r1
  Documents <- MCDocuments
  Ingesters = {i1}
  Publishers = {p1}
  Readers = {r1}
  ContextK = 3
  ContextBudget = 3
  MaxDeaths = 1

  Uploads <- MCUploads
  MaxChunkTokens = 4
  Overlap = 1

  Durations = {1, 2, 3, 5, 7, 12, 30}
  SampleCounts = {1, 2, 3, 4, 5, 7, 8, 12}
  SceneChanges = {{}, {0}, {3, 8}, {9, 31}, {2, 4, 6}}
  MaxSceneFrames = 2
  Offset = 4
  MaxSamplings = 2

  f1 = f1
  Length = 8
  MinSpeech = 2
  MergeGap = 2
  Pad = 1
  MaxChunk = 4
  GlobalOffset = 5
  Utterances <- MCUtterances
  Frames = {f1}
  Shown <- MCShown

  Videos <- MCVideos
  Counts = {1}
  Locals = {0, 200}
  Shifts = {0, 1, 2}
  MaxResults = 4

  Payloads <- MCPayloads
  MaxRuns = 2
  MaxOsErrors = 1

INVARIANTS
  PublicationIsEarned
  ResumeIsFaithful
  BudgetSuffices
  EnginesAgree
  GatewayIsBounded
  RetriesAreSafe
  
  ChunksAreFaithful
  FramesOrdered
  SpeechIsHeardOnce
  
  ReportIsWhole
  NullNotZero

PROPERTIES
  CitesCurrent

CHECK_DEADLOCK FALSE
