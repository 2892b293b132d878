SPECIFICATION Spec
CONSTANTS
  SecondsPerMinute = 1
  MinutesPerHour = 2
  MaxClock = 4
  MaxRuns = 1
  MaxSignals = 1
  HandlerSeconds = 1
  MinuteFrames = 2
  Total = 10
  OtherUse = {5}
  WideAt = 2
  StackRows = 2
  DirName <- ShortName
  CutName <- CutOf
INVARIANT Inductive
PROPERTY BaseLostOnlyAstray
 
PROPERTY NoOverwrite
 
CHECK_DEADLOCK FALSE
