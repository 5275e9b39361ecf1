\* The owner closes the poll while a vote is under way.
CONSTANTS
    Options = {a, b}
    Users = {owner}
    Owner = owner
    Calls = {k1}
    Casts = {c1}
    Reads = {}
    Voters = {v, w}
    UseMongo = TRUE
    HasRedis = TRUE
    Faults = {}
    None = None
SPECIFICATION VoteSpec
SYMMETRY Symmetry
PROPERTY ClosedCountsNoVotes
CHECK_DEADLOCK FALSE
