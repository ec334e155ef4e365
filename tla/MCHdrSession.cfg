SPECIFICATION FairSession
CONSTANTS
    render = render
    game = game
    sdr = sdr
    pq = pq
    scrgb = scrgb
    none = none
    Presenters = {render}
    Setters = {render}
    Resizers = {render}
    Queriers = {game}
    Owners = {render}
    ColorSpaces <- SomeColorSpaces
    PQ = pq
    DefaultColorSpace = sdr
    NoColorSpace = none
    MaxEpoch = 12
    MaxObjects = 2
    MaxRevision = 2
    MaxChanges = 2
INVARIANTS
    HdrIsSubmitted
    NoOrphanedPq
    BaselineBelongsToChain
PROPERTIES
    RestoredOnRelease
    WantedHdrStarts
    UnwantedHdrEnds
    FailureReachesTheGame
