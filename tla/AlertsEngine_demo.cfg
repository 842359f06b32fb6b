CONSTANTS
    StallAfter = 2
    Cooldown = 2
    WarnDays = {1, 2}
    MaxDays = 3
    MaxEpisode = 1
    MaxDisturb = 2
    Worlds = {{"peers_low", "demo"}}
SPECIFICATION Spec
PROPERTIES AlertsSeeLiveData
