CONSTANTS
    None = None
    Undefined = Undefined
    Databases = {"home", "away"}
    NeedsSecret = {"away"}
    Pools = {"p1"}
    MaxBackoff = 3
    AccessTroubles = 2
    EpochLen = 6
    NextWindow = 2
    LastTime = 9
    Empty = {1}
    CurRetry = 0
    NextRetry = 2
    Grace = 2
    RunTime = 1
    MaxFails = 2
    MaxResets = 1
    MaxRuns = 2
    Nodes = {"bp", "relay"}
    BPs = {"bp"}
    Envs <- SomeEnvs
    Troubles = 2
    HastyTroubles = 1
    Filtered = {2}
    LastMessage = 4
    SeedLimit = 2
    PageLen = 1
    MaxPages = 2
    BufferMax = 2
    Guard = 3
    OnScreen = 3
    Calls = {1, 2}
    FeedTroubles = {"leave", "remount", "flip", "pause", "fail"}
    FeedTrouble = 2
    Batches = {1, 3}
    SummaryThreshold = 2
    MaxVisible = 2
    MaxStored = 4
    MaxQueries = 2
    MaxTurns = 3
    Ahead = 4
    Fresh = 2
    Retain = 3
    BeatsAtOnce = 2
    RelayPolls = {1, 2}
    StartPolls = {1}
    RelayTime = 2
    RelayTroubles = {"drop", "demo", "hide", "again", "misfit", "restart"}
    StartTroubles = {"restart", "start"}
    RelayTrouble = 1
    StartTrouble = 2
SPECIFICATION Spec
INVARIANTS Typed ConnectionsAreAsShown SavedNextIsItsEpochs AnnouncedOnce
PROPERTIES SourcesHeal ScreensCatchUp
CHECK_DEADLOCK FALSE
