SPECIFICATION LiveSpec
CONSTANTS
    Docs = {d1, d2, d3, d4}
    Invalid = {d4}
    Defective = {d3}
    Consumers = {c1, c2}
    None = None
    PollBatchSize = 2
    MaxRetries = 2
    FaultKinds = {"duplicate", "raise", "commit", "evict", "crash"}
    MaxFaults = 2
CONSTRAINT ThreeDocumentsOrFaults
INVARIANT CommittedIsSettled
INVARIANT NoDuplicateSegments
INVARIANT QuarantineStaysOut
INVARIANT CompletedIsWhole
PROPERTY ReferencesAreSettled
CHECK_DEADLOCK FALSE
