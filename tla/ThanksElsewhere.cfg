\* The browser goes back to the vote page of another poll.
CONSTANTS
    Tabs = {t1}
    Polls = {p, q}
    Choices = {a}
    MaxVotes = 1
    Prints = {f}
    Networks = {i}
    MaxMoves = 2
    MaxActs = 0
    None = None
SPECIFICATION VotePageSpec
INVARIANTS ThanksIsTrue
CHECK_DEADLOCK FALSE
