SPECIFICATION Spec
CONSTANTS
  SecondsPerMinute = 1
  MinutesPerHour = 2
  MaxClock = 3
  MaxRuns = 2
  MaxSignals = 2
  HandlerSeconds = 1
  MinuteFrames = 2
  Total = 10
  OtherUse = {7, 8}
  WideAt = 3
  StackRows = 2
  DirName <- ShortName
  CutName <- CutOf
INVARIANT TornFilesBound
PROPERTY NoRecoveryInRun
CHECK_DEADLOCK FALSE
