CONSTANTS
    None = None
    Idle = Idle
    Torn = Torn
    Missing = Missing
    NoTemp = NoTemp
    NoSplit = NoSplit
    NoPoint = NoPoint
    NoMap = NoMap
    Word = 6
    Parts = 10
SPECIFICATION Spec
INVARIANT NumbersAreWhole
CHECK_DEADLOCK FALSE
