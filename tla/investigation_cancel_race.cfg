SPECIFICATION FairSpec
CONSTANTS
    Keys = {k1}
    Legacy = {}
    Workers = {w1}
    Regenerators = {}
    Results = {r1}
    Profiles = {p1}
    None = None
    MaxCrashes = 0
    MaxStalls = 0
    CanFail = TRUE
PROPERTY CancelEndsTheJob
