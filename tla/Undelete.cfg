\* A status change overlaps with the deletion of the poll.  With two casts and TotalMatchesVotes
\* as the invariant: it puts an older total back beside newer counts.
CONSTANTS
    Options = {a, b}
    Users = {owner}
    Owner = owner
    Calls = {k1, k2}
    Casts = {c1}
    UseMongo = FALSE
    Faults = {}
    None = None
SPECIFICATION PollSpec
INVARIANT AckedDeleteHolds
CHECK_DEADLOCK FALSE
