CONSTANTS
    StallAfter = 2
    Cooldown = 2
    WarnDays = {1, 2}
    MaxDays = 3
    MaxEpisode = 1
    MaxDisturb = 2
    Worlds = {{"node_stall", "down", "demo", "reconnect", "restart", "quiet", "unknown"},
              {"peers_low", "queryFail", "quiet", "toggle", "reconnect", "restart"},
              {"peers_low", "overlap", "demo", "sendFail"},
              {"mempool_full", "leave", "queryFail", "quiet"},
              {"kes_expiry", "quiet", "unknown", "rotate", "restart"},
              {"kes_expiry", "slow_block", "quiet", "slow"}}
SPECIFICATION FairSpec
INVARIANTS TypeOK
PROPERTIES StallIsTrue OncePerEpisode TroubleArrives
