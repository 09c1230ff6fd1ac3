SPECIFICATION LiveSpec
CONSTANTS
    d1 = d1
    d2 = d2
    d3 = d3
    p1 = p1
    p2 = p2
    Docs = {d1, d2, d3}
    Procs = {p1, p2}
    Deployments <- MCDeployments
    ShardSize = 2
    None = None
    FaultKinds = {"write", "publish", "escape", "crash"}
INVARIANT FlagsAreHonest
INVARIANT KnownIsStored
PROPERTY ImplementsFeed
PROPERTY FinishedRunIsPublished
PROPERTY DurableIsDelivered
