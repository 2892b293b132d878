SPECIFICATION Spec
CONSTANT Year = 2019
INVARIANT NamesFarApart
INVARIANT CutIsAnEarlierHour
CHECK_DEADLOCK FALSE
