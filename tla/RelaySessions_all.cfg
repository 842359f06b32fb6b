CONSTANTS
    Relays = {r1}
    Db = Db
    Ticks = {t1}
    Clicks = {c1}
    Queries = {q1, q2}
    Worlds = {{"drop", "refuse", "demo"}, {"hang"}}
    MaxDisturb = 2
SPECIFICATION FairSpec
INVARIANTS TypeOK
PROPERTIES DemoIssuesNothing BegunEnds
