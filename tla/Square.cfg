CONSTANTS
    c1 = c1
    c2 = c2
    m1 = m1
    m2 = m2
    None = None
    Caller = {c1, c2}
    Command = {m1, m2}
    IdWrap = 2
SPECIFICATION FairSpec
INVARIANTS TypeOK SuccessMeansCarriedOut SquaresMatchId
PROPERTIES NeverRepeated TriggerReleased CallReturns
