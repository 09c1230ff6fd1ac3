SPECIFICATION Spec
CONSTANTS
    Keys = {1, 2}
    Results = {r1, r2}
    None = None
    Clients = {c1, c2}
    Limit = 1
    MaxTime = 2
    MaxAnswers = 2
SYMMETRY Symmetry
INVARIANT ArtifactIsNeverMissing
INVARIANT ListingIsFaithful
PROPERTY NeverTakenBack
CHECK_DEADLOCK FALSE
