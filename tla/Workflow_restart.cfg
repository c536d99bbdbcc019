CONSTANTS
    t1 = t1
    t2 = t2
    None = None
    Trace = {t1, t2}
    HardwareTests = FALSE
    MaxQueue = 1
SPECIFICATION PatientSpec
PROPERTIES RestartRecovers
