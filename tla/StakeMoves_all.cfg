CONSTANTS
    Accounts = {"a", "b"}
    Threshold = 1
    MassFloor = 1
    Credits = {0, 2}
    MaxEpoch = 3
    MaxMoves = 2
    Worlds <- SomeWorlds
    MaxDisturb = 1
SPECIFICATION FairSpec
INVARIANTS TypeOK PromptReportsAddUp RewardsNeverReported CreditNettedOnce
PROPERTIES HoldsResolve
