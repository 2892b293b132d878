\* Programs that end: no next step is not an error.
CHECK_DEADLOCK FALSE
SPECIFICATION MCSpec
CONSTANTS
    SHMSIZE = 2
    IntLaunches = 3
    MAX_TOKENS = 3
    Lines <- MCLines
    Programs = {"ls"}
    Directories = {"src"}
    MaxLines = 2
    BUF_SIZE = 3
    Block = 3
    Cleared = 2
    MaxSource = 5
    MakerLaunches = 3
    MaxHour = 1
    HomePath <- MCHomePath
    Cwd <- MCCwd
    NEntries = 3
    Alphabetical <- MCAlphabetical
    Modes <- MCModes
    DirMode = 16877
    MaxFrames = 3
    MaxDetections = 3
    Rounds = 2
    EdgeThreshold = 1
    MaxThreshold = 2
    TrainCount = 5
    Batch = 3
    MaxImages = 7
INVARIANT PrintedOnce
INVARIANT EndOfInputIsNoEnd
INVARIANT CopyIsTheSource
INVARIANT MakersAgree
INVARIANT ListingIsRight
INVARIANT CountsThisFrame
INVARIANT NothingTwice
INVARIANT TwoSides
INVARIANT RowsAreImages
PROPERTY ClosedStaysClosed
