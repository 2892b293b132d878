SPECIFICATION Spec
CONSTANT MaxTasks = 6
INVARIANT Owners
INVARIANT ParentNeverStarts
INVARIANT OneRound
INVARIANT FirstEndIsLast
CHECK_DEADLOCK FALSE
