SPECIFICATION FairSpec
CONSTANTS
    WikiSlug = {w1, w2}
    BlogSlug = {b1}
    Text = {x, y}
    None = None
    MaxEdits = 2
    MaxWrites = 1
    MaxFaults = 1
INVARIANTS BaseIsTrue
PROPERTIES
    NothingIsLost
    PushesOverKnown
    ReplacesOnlySeen
    SyncSettles
