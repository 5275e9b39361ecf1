\* Redis is unreachable for a while.
CONSTANTS
    Options = {a, b}
    Users = {owner}
    Owner = owner
    Calls = {}
    Casts = {c1, c2}
    Reads = {}
    Voters = {v}
    UseMongo = TRUE
    HasRedis = TRUE
    Faults = {"redisDown"}
    None = None
SPECIFICATION VoteSpec
SYMMETRY Symmetry
INVARIANT NoDoubleVote
CHECK_DEADLOCK FALSE
