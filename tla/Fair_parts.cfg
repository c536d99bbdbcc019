CONSTANTS
    None = None
    f1 = f1
    f2 = f2
SPECIFICATION FairSpec
INVARIANTS AnswersFit RunnersMatch
PROPERTIES CallsReturn ArmLockEnds PageSettles
CHECK_DEADLOCK FALSE
