CONSTANTS
    None = None
    Console = {"move", "undo", "reset"}
    MaxPly = 2
    MaxMoves = 2
    MaxHistory = 2
    MaxQueue = 2
SPECIFICATION PartsSpec
INVARIANTS TypeOK BoardFollowsVision TurnCountsMoves
PROPERTIES UndoSpec UndoTakesBack
