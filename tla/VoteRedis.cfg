\* Redis and MongoDB in use; the process may crash and MongoDB may fail.
CONSTANTS
    Options = {a, b}
    Users = {owner}
    Owner = owner
    Calls = {}
    Casts = {c1, c2, c3}
    Reads = {r1}
    Voters = {v, w}
    UseMongo = TRUE
    HasRedis = TRUE
    Faults = {"crash", "mongo"}
    None = None
SPECIFICATION VoteSpec
SYMMETRY Symmetry
INVARIANTS VoteTypeOK TallyCountsVotes ReadYourVote CopiesNotAhead
PROPERTIES TallyNeverDrops BallotSpec
CHECK_DEADLOCK FALSE
