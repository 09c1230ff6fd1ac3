SPECIFICATION FairSpec
CONSTANTS
    Keys = {k1}
    Legacy = {k1}
    Workers = {w1, w2}
    Regenerators = {g1, g2}
    Results = {r1, r2}
    Profiles = {p1, p2}
    None = None
    MaxCrashes = 1
    MaxStalls = 2
    CanFail = TRUE
INVARIANT TypeOK
INVARIANT CancelBeatsResult
INVARIANT ClaimsAreExclusive
INVARIANT TrailIsComplete
INVARIANT PublishedTogether
PROPERTY OutcomeIsFinal
PROPERTY OnlyOwnerEnds
PROPERTY ProfileIsPinned
PROPERTY ImplementsLifecycle
PROPERTY EveryJobEnds
