CONSTANTS
    None = None
    f1 = f1
    f2 = f2
SPECIFICATION Spec
INVARIANT AnswerIsOfItsQuestion
CHECK_DEADLOCK FALSE
