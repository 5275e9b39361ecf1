\* Two tabs of one browser, two polls, answers that are late or get lost.
CONSTANTS
    Tabs = {t1, t2}
    Polls = {p, q}
    Choices = {a}
    MaxVotes = 2
    Prints = {f, g}
    Networks = {i, j}
    MaxMoves = 2
    MaxActs = 1
    None = None
SPECIFICATION FairVotePageSpec
INVARIANTS VotePageTypeOK NeverCrashes OneVotePerBrowser MarkMeansCounted ThanksMeansCounted
PROPERTIES SubmitEnds LoadingEnds
CHECK_DEADLOCK FALSE
