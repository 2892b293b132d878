SPECIFICATION EarlySpec
CONSTANTS
  SecondsPerMinute = 1
  MinutesPerHour = 2
  MaxClock = 4
  MaxRuns = 2
  MaxSignals = 0
  HandlerSeconds = 1
  MinuteFrames = 2
  Total = 10
  OtherUse = {3}
  WideAt = 3
  StackRows = 2
  DirName <- ShortName
  CutName <- CutOf
INVARIANT NoOrphan
CHECK_DEADLOCK FALSE
