\* A write-back overlaps with the closing of the poll.
CONSTANTS
    Options = {a, b}
    Users = {owner}
    Owner = owner
    Calls = {k1}
    Casts = {c1}
    UseMongo = TRUE
    Faults = {}
    None = None
SPECIFICATION PollSpec
PROPERTY StatusOnlyByOwner
CHECK_DEADLOCK FALSE
