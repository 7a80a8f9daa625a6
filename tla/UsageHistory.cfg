SPECIFICATION HistorySpec
CONSTANTS
  Accounts = {"a", "b"}
  Named = {"a"}
  Window = 3
  Levels <- MCLevels
  Thin = 1
  Drop = 2
  Jitter = 1
  Heartbeat = 2
  DayLength = 2
  MonthLength = 1
  Retention = 2
  FileCap = 1
  MaxTime = 3
  MaxReadings = 3
  MaxEdits = 1
  MaxMishaps = 1
INVARIANTS NeverTellsMore TellsWhatWasSeen RemovedAreGone
CHECK_DEADLOCK FALSE
