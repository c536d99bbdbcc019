CONSTANTS
    None = None
    Console = {}
    MaxPly = 3
    MaxMoves = 3
    MaxHistory = 0
    MaxQueue = 2
SPECIFICATION Spec
PROPERTIES RecognisedMoveAccepted
