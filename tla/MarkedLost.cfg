\* A client disconnects while its vote is being recorded.
CONSTANTS
    Options = {a, b}
    Users = {owner}
    Owner = owner
    Calls = {}
    Casts = {c1}
    Reads = {}
    Voters = {v, w}
    UseMongo = TRUE
    HasRedis = TRUE
    Faults = {"cancel"}
    None = None
SPECIFICATION VoteSpec
SYMMETRY Symmetry
INVARIANT MarkedMeansCounted
CHECK_DEADLOCK FALSE
