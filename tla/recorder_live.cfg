SPECIFICATION FairSpec
CONSTANTS
  SecondsPerMinute = 1
  MinutesPerHour = 2
  MaxClock = 4
  MaxRuns = 1
  MaxSignals = 0
  HandlerSeconds = 1
  MinuteFrames = 2
  Total = 10
  OtherUse = {3}
  WideAt = 3
  StackRows = 3
  DirName <- ShortName
  CutName <- CutOf
 
PROPERTY SpaceReclaimed
CHECK_DEADLOCK FALSE
