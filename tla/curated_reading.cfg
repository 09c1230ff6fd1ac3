SPECIFICATION FollowedSpec
CONSTANTS
    Docs = {1, 2, 3}
    Document <- MCDocument
    Near <- MCNear
    None = None
    BatchSize = 2
    MaxDeliveries = 4
    MaxRebuilds = 1
    MaxFaults = 1
    SummaryLimit = 1
    Requests <- MCRequests
    Outputs <- MCOutputs
    Answers <- MCAnswers
    MaxInvestigations = 1
    Corrections <- MCCorrections
    Lineage <- MCLineage
    Versions <- MCVersions
    MaxReviews = 3
    Splits = {"test"}
    MaxRuns = 2
    Apart = TRUE
INVARIANT ConfirmedIsWhole
INVARIANT BatchesReconcileAsOne
INVARIANT ConclusionIsFounded
INVARIANT ReportIsTraceable
INVARIANT ShownInFull
INVARIANT BaselineIsCompared
CHECK_DEADLOCK FALSE
