CONSTANTS
    Relays = {}
    Db = Db
    Ticks = {}
    Clicks = {}
    Queries = {q1}
    Worlds = {{"drop", "demo"}}
    MaxDisturb = 2
SPECIFICATION FairSpec
PROPERTIES DemoTouchesNothing
