CONSTANTS
    t1 = t1
    t2 = t2
    t3 = t3
    t4 = t4
    None = None
    Trace = {t1, t2, t3, t4}
    HardwareTests = FALSE
    MaxQueue = 2
SPECIFICATION TwoSpec
SYMMETRY TraceSymmetry
INVARIANTS TypeOK CommandExclusion OneVerification VerificationNamesActive TestsTakeTurns
PROPERTIES GateSpec
