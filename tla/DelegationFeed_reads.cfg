CONSTANTS
    Stakes = {s1, s2}
    Movers = {s1}
    Polls = {p1}
    Details = {d1}
    MaxCerts = 2
    Limit = 2
    Keep = 5
    Disturb = {"readFail"}
    MaxDisturb = 0
SPECIFICATION Spec
INVARIANTS EachIsEmitted
