\* Nothing fails; two publications may overtake each other.
CONSTANTS
    Options = {a, b}
    Users = {owner}
    Owner = owner
    Calls = {}
    Casts = {c1, c2}
    Reads = {}
    Voters = {v, w}
    UseMongo = TRUE
    HasRedis = TRUE
    Faults = {}
    None = None
SPECIFICATION VoteSpec
SYMMETRY Symmetry
INVARIANT ViewersCatchUp
CHECK_DEADLOCK FALSE
