CONSTANTS
    None = None
    MaxPos = 1
    MaxQueue = 2
    MaxWire = 1
SPECIFICATION Spec
PROPERTIES ReadyMoveIsForThisBoard
CHECK_DEADLOCK FALSE
