SPECIFICATION ServicesSpec
CONSTANTS
  Pages <- MCPages
  PageOf <- MCPageOf
  UrlPage <- MCUrlPage
  PurposeOf <- MCPurposeOf
  Logs <- MCLogs
  Drained = {"log2"}
  MaxPaths = 2
  Serves <- MCServes
  FirstServed <- MCFirstServed
  MaxConflicts = 1
  FactSheets <- MCFactSheets
  Exports <- MCExports
  WindowDays = 1
  Horizon = 3
  MaxEdits = 3
  Requests <- MCRequests
  PerHour <- MCPerHour
  DraftCost = 3
  CheckCost = 1
  Cap = 3
  MaxAttempts = 2
  HoursPerMonth = 2
  MaxHours = 2
  MaxPatches = 2
  MaxChecks = 1
  Engines <- MCEngines
  MaxEngines = 1
  Toggles = {t1, t2}
  MaxClock = 3
  MaxRuns = 2
  RunOutcomes = {"ok", "blocked"}
  CheckStatuses = {"ok", "failed"}
  MaxRewrites = 2
  EmailOf <- MCEmailOf
  RATE_LIMIT = 2
  MaxMoves = 2
  Shards = {"k"}
  QuestionOf <- MCQuestionOf
  Askers = {"e"}
  ShardTtl = 1
  MaxProbeRuns = 3
  MaxDays = 2
  MaxFlags = 1
  MaxFailed = 1
INVARIANTS ImportsCountOnce ScreensShareRisk ConflictsFollowPage OverrunBounded ApprovedTextStands VerdictFollowsNewest ApartForCause WaitlistHolds ShardScreensTrue
CHECK_DEADLOCK FALSE
