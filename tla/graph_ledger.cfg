SPECIFICATION BoundedSpec
CONSTANTS
    w1 = w1
    w2 = w2
    e1 = e1
    e2 = e2
    c1 = c1
    Runs = {w1, w2}
    Editor = Editor
    Gone = Gone
    NoId = NoId
    Ids = {e1, e2, c1}
    Entities = {e1, e2}
    Claims = {c1}
    Triples <- TwoReadings
    Edits = {"merge_entity", "unmerge", "supersede", "delete"}
    Pairs <- Related
    MaxClaims = 2
    MaxEdits = 2
    MaxRefreshes = 1
    MaxFaults = 1
SYMMETRY Symmetric
INVARIANT ReferencesHold
INVARIANT GraphsAgree
INVARIANT RollbackRestores
PROPERTY AsOfIsStable
CHECK_DEADLOCK FALSE
