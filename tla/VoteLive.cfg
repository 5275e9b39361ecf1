\* The process keeps running; Redis, MongoDB and clients may fail; the owner may close,
\* reopen or delete.
CONSTANTS
    Options = {a}
    Users = {owner}
    Owner = owner
    Calls = {k1}
    Casts = {c1}
    Reads = {r1}
    Voters = {v}
    UseMongo = TRUE
    HasRedis = TRUE
    Faults = {"cancel", "redisDown", "mongo"}
    None = None
SPECIFICATION FairVoteSpec
INVARIANTS PollTypeOK AckedDeleteHolds
PROPERTIES EveryRequestEnds EveryWriteBackEnds
CHECK_DEADLOCK FALSE
