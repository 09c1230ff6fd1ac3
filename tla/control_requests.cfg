SPECIFICATION ControlSpec
CONSTANTS
    t1 = t1
    t2 = t2
    Threads = {t1, t2}
    MaxRuns = 4
    ControlFaults = {"spawn", "kill", "restart"}
    MaxFaults = 3
SYMMETRY ThreadsAreAlike
CONSTRAINT OverlapOfTwoRuns
INVARIANT SingleRun
INVARIANT ReportIsHonest
CHECK_DEADLOCK FALSE
PROPERTY NewestRunOnFile
