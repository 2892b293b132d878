SPECIFICATION FairSpec
CONSTANTS
  IntHalf = 16
  Kib = 2
  Dirs = {"/", "/boot", "/proc"}
  Tables <- MountTables
  Usages <- DiskUsages
  Garbage = {0, 1}
  Names = {"8", "9"}
  Homes <- HomeListings
  StackRows = 1
PROPERTY JudgesTheRoot
PROPERTY DeletesTheFirst
PROPERTY PrintsEachPass
PROPERTY FollowsTable
CHECK_DEADLOCK FALSE
