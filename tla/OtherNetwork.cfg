\* A browser gets another address and votes again.
CONSTANTS
    Tabs = {t1}
    Polls = {p, q}
    Choices = {a}
    MaxVotes = 2
    Prints = {f}
    Networks = {i, j}
    MaxMoves = 2
    MaxActs = 0
    None = None
SPECIFICATION VotePageSpec
INVARIANTS OneVoteAnywhere
CHECK_DEADLOCK FALSE
