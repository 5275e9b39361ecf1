\* One tab of the owner and, in acts, another; one or two polls.
CONSTANTS
    Titles <- TwoTitles
    Texts <- Letters
    LongTexts = {}
    TrimGo <- Trim
    LowerJS <- Lower
    LowerGo <- Lower
    MaxOptions = 3
    MaxCreates = 1
    Fields <- Typed
    UseMongo = FALSE
    MaxCalls = 2
    MaxActs = 3
    None = None
SPECIFICATION DashboardSpec
INVARIANTS DashboardTypeOK ServerAgrees DeletedStaysOff
CHECK_DEADLOCK FALSE
