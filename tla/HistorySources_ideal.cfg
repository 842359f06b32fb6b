CONSTANTS
    Sources = {"dbsync", "koios"}
    FirstEpoch = 2
    LastEpoch = 3
    Window = 2
    Disturb = {}
    MaxDisturb = 0
SPECIFICATION FairSpec
PROPERTIES IdealComes
CHECK_DEADLOCK FALSE
