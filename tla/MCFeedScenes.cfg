CONSTANTS
    s1 = s1
    s2 = s2
    p1 = p1
    p2 = p2
    Stakes = {s1, s2}
    Movers = {s1}
    Polls = {p1}
    Details = {d1}
    MaxCerts = 3
    Limit = 2
    Keep = 2
    Disturb = {"restart", "race", "queryFail", "readFail", "dbDown", "clearCache", "clearFeed", "switch", "idleDemo"}
    MaxDisturb = 2
SPECIFICATION SceneSpec
INVARIANTS TypeOK AtMostOnce OnlySeedsSkip
PROPERTIES InOrderOnce NeverTwice LearnsInTheEnd
CHECK_DEADLOCK FALSE
