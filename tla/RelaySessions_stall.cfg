CONSTANTS
    Db = Db
    Relays = {r1, r2}
    Ticks = {t1, t2}
    Clicks = {c1}
    Queries = {}
    Worlds = {{"hang"}}
    MaxDisturb = 1
SPECIFICATION FairSpec
PROPERTIES OthersUnaffected
