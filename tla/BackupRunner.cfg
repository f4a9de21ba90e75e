SPECIFICATION ControlSpec
CONSTANTS
  NumRunners = 2
  Timeout = 2
  HourLen = 2
  DayLen = 4
  CleanPath = TRUE
  MaxTime = 6
  MaxEvents = 1
PROPERTY FulfilsContract
INVARIANT RetentionKept
PROPERTY RunnerFinishes
CHECK_DEADLOCK FALSE
