SPECIFICATION Spec
CONSTANTS
    Docs = {d1}
    Invalid = {}
    Defective = {}
    Consumers = {c1, c2}
    None = None
    PollBatchSize = 1
    MaxRetries = 2
    FaultKinds = {"evict", "crash"}
    MaxFaults = 2
INVARIANT RedeliveryRepairs
CHECK_DEADLOCK FALSE
