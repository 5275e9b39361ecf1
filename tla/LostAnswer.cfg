\* The answer to a vote that was counted gets lost.
CONSTANTS
    Tabs = {t1}
    Polls = {p, q}
    Choices = {a}
    MaxVotes = 1
    Prints = {f}
    Networks = {i}
    MaxMoves = 2
    MaxActs = 0
    None = None
SPECIFICATION VotePageSpec
INVARIANTS CountedMeansMarked
CHECK_DEADLOCK FALSE
