SPECIFICATION Spec
CONSTANTS
    Docs = {1, 2, 3}
    Document <- MCDocument
    Near <- MCNear
    None = None
    BatchSize = 2
    MaxDeliveries = 4
    MaxRebuilds = 0
    MaxFaults = 0
    SummaryLimit = 1
    Requests <- MCRequests
    Outputs <- MCOutputs
    Answers <- MCAnswers
    MaxInvestigations = 0
    Corrections <- MCCorrections
    Lineage <- MCLineage
    Versions <- MCVersions
    MaxReviews = 3
    Splits = {"test"}
    MaxRuns = 2
    Apart = TRUE
CONSTRAINT Followed
INVARIANT PromotedPassedTheGates
CHECK_DEADLOCK FALSE
