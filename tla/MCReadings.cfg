CONSTANTS
    None = None
    Units = {"u1", "u2"}
    JsonUnits = {"u2"}
    LogWindows = {"1h", "24h"}
    LogRuns = 2
    LogVisits = 2
    LogTroubles = {"demo", "fail", "empty", "save", "connect"}
    LogTrouble = 1
    Exact = FALSE
    Refresh = 2
    Timeout = 1
    Gap = 2
    Day = 2
    Grades = {0, 1, 2}
    Life = 6
    KesTime = 7
    KesTroubles = {"rotate", "break", "miss", "reconnect"}
    KesTrouble = 1
    Home = "us"
    Others = {"a", "b"}
    LiveSources = {"koios", "blockfrost"}
    Memory = 2
    MaxMoves = 2
    MaxEpochs = 2
    MoveTroubles = {"fail", "clear"}
    MoveTrouble = 1
    WizardForms = {"db1"}
    WizardTokens = {"token1"}
    WizardKeys = {"key1"}
    WizardGuided = TRUE
    WizardRuns = 2
    WizardTroubles = {"full", "back", "demo", "test", "twice"}
    WizardTrouble = 1
    Accounts = {"a", "b", "c"}
    KoiosPage = 2
    KoiosPages = 3
    KoiosBatch = 2
    HardStop <- Stops
    Ceiling <- Limits
    KoiosRuns <- KoiosWorlds
    KoiosTrouble = 2
    KoiosDays = 2
    PeerIps = {"a", "b", "c"}
    LocalIps = {"l"}
    OwnHosts = {"s"}
    HostIp <- HostAddress
    GeoCap = 2
    GeoBatch = 1
    GeoDelay = 2
    GeoCalls = 2
    GeoTime = 3
    GeoTroubles = {"crash", "close", "hide", "full", "demo", "fail"}
    GeoTrouble = 1
    PeakReadings = {0, 1, 4}
    PeakClamp = 6
    PeakPercent = 2
    OldPeaks <- SomeOldPeaks
    PeakMinute = 2
    PeakBucket = 2
    PeakHour = 2
    PeakDay = 4
    PeakWindows = {1, 2, 4}
    PeakStart = 4
    PeakTime = 10
    PeakTroubles = {"crash", "close", "hide", "full", "demo"}
    PeakTrouble = 1
    ForgePools = {"p1", "p2"}
    ForgeEpoch = 4
    ForgeTime = 7
    ForgeGrace = 2
    ForgeRefresh = 1
    ForgeLag = 1
    ForgeQuery = 1
    ForgeLeads <- SomeLeads
    ForgeMoves = {"disconnect", "rerun"}
    ForgeMove = 1
    GapBeat = 2
    GapLength = 7
    GapMargin = 2
    GapEpochs = 2
    GapTime = 9
    GapBlocks = 2
    GapEpoch = 2
    GapTroubles = {"close", "disconnect", "other-node", "scrape"}
    GapTrouble = 1
    SlowPools = {"p1", "p2"}
    SlowViewers = {"v1"}
    SlowCap = 2
    SlowBefore = 1
    SlowAfter = 0
    SlowTime = 4
    SlowHeight = 3
    SlowGenesis <- FirstBlock
    SlowLegacy <- OldRecords
    SlowTroubles = {"restart", "fork", "unnumbered"}
    SlowTrouble = 1
SPECIFICATION Spec
INVARIANTS
    Typed WithinLimit HistoryAddsUp BlocksAreToldTruly  PeaksAreHonest
    TableIsOfItsSource KesIsHonest
PROPERTIES
    AnswersAreTrue SearchLeadsToTheRow FinishIsSound MovesAreToldTruly
CHECK_DEADLOCK FALSE
