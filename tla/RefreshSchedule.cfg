SPECIFICATION FairLoopSpec
CONSTANTS
  Accounts = {a1}
  Platforms = {"desktop", "android", "ios"}
  Intervals = {1, 2}
  PollTick = 1
  DueSlack = 0
  BackoffBase = 2
  BackoffMax = 2
  Hints = {3}
  RunTimeout = 1
INVARIANTS
    DueRefreshWaitsOneTick
PROPERTIES EveryAccountIsTried
