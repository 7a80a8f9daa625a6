SPECIFICATION Spec
CONSTANTS
  w1 = w1
  w2 = w2
  Windows = {w1, w2}
  Resets <- GivenResets
  Platforms = {"desktop", "android", "ios"}
  Levels = {1, 3}
  Thresholds = {1, 2}
  QueueCap = 1
  MaxReadings = 2
  MaxSaves = 2
  MaxFaults = 1
SYMMETRY WindowSymmetry
INVARIANTS
    MarkedIsDelivered
    RepeatNeedsReason
CHECK_DEADLOCK FALSE
