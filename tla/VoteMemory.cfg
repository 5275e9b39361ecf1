\* Neither Redis nor MongoDB, as in poll_test.go; the owner may close, reopen or delete.
CONSTANTS
    Options = {a, b}
    Users = {owner, other}
    Owner = owner
    Calls = {k1}
    Casts = {c1, c2}
    Reads = {r1}
    Voters = {v, w}
    UseMongo = FALSE
    HasRedis = FALSE
    Faults = {"cancel"}
    None = None
SPECIFICATION VoteSpec
SYMMETRY Symmetry
INVARIANTS OneVotePerVoter ReadYourVote
PROPERTIES StatusOnlyByOwner
CHECK_DEADLOCK FALSE
