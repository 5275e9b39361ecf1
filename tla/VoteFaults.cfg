\* Redis and MongoDB in use and everything may fail.
CONSTANTS
    Options = {a, b}
    Users = {owner}
    Owner = owner
    Calls = {}
    Casts = {c1, c2}
    Reads = {}
    Voters = {v, w}
    UseMongo = TRUE
    HasRedis = TRUE
    Faults = {"crash", "mongo", "cancel", "redisDown", "redisLoss"}
    None = None
SPECIFICATION VoteSpec
SYMMETRY Symmetry
INVARIANTS NoInventedVotes
CHECK_DEADLOCK FALSE
