SPECIFICATION ControlSpec
CONSTANTS
    t1 = t1
    t2 = t2
    Threads = {t1, t2}
    MaxRuns = 2
    ControlFaults = {}
    MaxFaults = 0
INVARIANT OneAtATime
CHECK_DEADLOCK FALSE
