\* The Redis client repeats a command whose reply it lost.
CONSTANTS
    Options = {a, b}
    Users = {owner}
    Owner = owner
    Calls = {}
    Casts = {c1}
    Reads = {}
    Voters = {v, w}
    UseMongo = TRUE
    HasRedis = TRUE
    Faults = {"resend"}
    None = None
SPECIFICATION VoteSpec
SYMMETRY Symmetry
INVARIANT OneCastOneVote
CHECK_DEADLOCK FALSE
