\* HGETALL fails once and the counts of MongoDB are seeded over newer ones.
CONSTANTS
    Options = {a}
    Users = {owner}
    Owner = owner
    Calls = {}
    Casts = {c1, c2}
    Reads = {r1}
    Voters = {v, w}
    UseMongo = TRUE
    HasRedis = TRUE
    Faults = {"redisDown"}
    None = None
SPECIFICATION VoteSpec
SYMMETRY Symmetry
PROPERTY TallyNeverDrops
CHECK_DEADLOCK FALSE
