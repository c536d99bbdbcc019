CONSTANTS
    None = None
    Idle = Idle
    Torn = Torn
    Missing = Missing
    NoTemp = NoTemp
    NoSplit = NoSplit
    NoPoint = NoPoint
    NoMap = NoMap
    Word = 6
    Parts = 10
SPECIFICATION Spec
INVARIANTS
    TypeOK GatesHold LoggedOutStaysOut RunningMeansAlive RecordIsTrue RowsTellTheRound SettingsFitTogether
     DashboardIsLatest RulesAgree PiecesGoWhereSent TextsAreWhole
PROPERTIES
    RetriesAreAnswered PagesStay CalibrationAllOrNothing RepairFindsTheMove
CHECK_DEADLOCK FALSE
