CONSTANTS
    NoPool = NoPool
    Epochs = {1, 2}
    Worlds <- SomeWorlds
    MaxDisturb = 2
SPECIFICATION FairSpec
INVARIANTS TypeOK 
PROPERTIES RewardsStickAlone FillingEnds
